--------------------------- MODULE SecureMsgProofs ---------------------------
(***************************************************************************)
(* Proofs about SecureMsg: its type invariant; a bucket's hash and its     *)
(* file follow its messages; a node was told what it will not be told      *)
(* again; a lock covers the request it is for; and peers that have nothing *)
(* left to do have the same messages.                                      *)
(***************************************************************************)
EXTENDS SecureMsg, FiniteSetTheorems, TLAPS

(* The messages that a node may find on the wire.                          *)
Announced == [nMessages : {Cardinality(ms) : ms \in SUBSET Msgs}, hash : SUBSET Msgs]

Message ==
    [type : {"smsgPing", "smsgPong", "smsgDisabled", "smsgIgnore"}]
    \cup [type : {"smsgInv"}, inv : UNION {[bs -> Announced] : bs \in SUBSET Buckets}]
    \cup [type : {"smsgShow"}, show : SUBSET Buckets]
    \cup [type : {"smsgHave"}, bucket : Buckets, have : SUBSET Msgs]
    \cup [type : {"smsgWant"}, bucket : Buckets, want : SUBSET Msgs]
    \cup {msg \in [type : {"smsgMsg"}, bucket : Buckets, bunch : SUBSET Msgs] :
             msg.bunch \subseteq In(msg.bucket)}

(* What a message handler is in the middle of.                             *)
Doing ==
    [op : {"idle"}]
    \cup [op : {"begin", "end"}, peer : Nodes, since : SUBSET Buckets, again : SUBSET Buckets]
    \cup [op : {"have"}, peer : Nodes \cup {None}, bucket : Buckets, have : SUBSET Msgs]
    \cup [op : {"want"}, peer : Nodes \cup {None}, bucket : Buckets, want : SUBSET Msgs]
    \cup {h \in [op : {"receive"}, bucket : Buckets, bunch : SUBSET Msgs] :
             h.bunch \subseteq In(h.bucket)}

Bucket == [setTokens : SUBSET Msgs, hash : SUBSET Msgs,
           nLockCount : 0 .. LockTicks, nLockPeerId : Nodes \cup {None}]

PeerData == [pinged : BOOLEAN, fEnabled : BOOLEAN, ignoring : BOOLEAN, due : SUBSET Buckets,
             again : SUBSET Buckets, told : [Buckets -> SUBSET Msgs]]

FlagsOK ==
    /\ fSecMsgEnabled \in [Nodes -> BOOLEAN] /\ disabling \in [Nodes -> BOOLEAN]
    /\ sendQueue \in [Nodes -> SUBSET Msgs] /\ pow \in [Nodes -> Msgs \cup {None}]
    /\ ticker \in [Nodes -> [at : {"asleep", "awake", "report"}, timedOut : SUBSET Nodes]]
    /\ old \in [Nodes -> SUBSET Buckets]
    /\ unsent \subseteq Msgs /\ events \in 0 .. MaxEvents
    /\ overdue \in [Nodes -> SUBSET Buckets] /\ scanned \in [Nodes -> SUBSET Buckets]
    /\ missed \in BOOLEAN

StoreOK ==
    /\ smsgBuckets \in [Nodes -> [Buckets -> Bucket]]
    /\ smsgStore \in [Nodes -> SUBSET Msgs]

PeersOK ==
    /\ smsgData = [n \in Nodes |-> smsgData[n]]
    /\ \A n \in Nodes : smsgData[n] \in [Peers(n) -> PeerData]

NetOK ==
    /\ net = [n \in Nodes |-> net[n]]
    /\ \A n \in Nodes : net[n] \in [Peers(n) -> Seq(Message)]

HandlerOK ==
    /\ handler \in [Nodes -> Doing]
    /\ \A n \in Nodes : handler[n].op \in {"begin", "end"} => handler[n].peer \in Peers(n)
    /\ \A n \in Nodes : handler[n].op \in {"have", "want"} => handler[n].peer \in Peers(n) \cup {None}

(* SecureMsgDisable turns messaging off before it waits for ThreadSecureMsg, *)
(* which is awake only while messaging is on or it is waited for.          *)
OffOK ==
    \A n \in Nodes : /\ disabling[n] => ~fSecMsgEnabled[n]
                     /\ ticker[n].at # "asleep" => disabling[n] \/ fSecMsgEnabled[n]

(* Between the loop of SecureMsgSendData and its end the peer was told of  *)
(* every bucket that does not change meanwhile.                            *)
SentOK ==
    \A n \in Nodes : handler[n].op = "end" => \A b \in Buckets \ handler[n].since :
        smsgBuckets[n][b].hash \in {{}, smsgData[n][handler[n].peer].told[b]}

SmsgInv ==
    /\ FlagsOK /\ StoreOK /\ PeersOK /\ NetOK /\ HandlerOK
    /\ OffOK /\ HashIsCurrent /\ TokensAreStored /\ PeersAreTold /\ SentOK

-----------------------------------------------------------------------------
(* Messages.                                                               *)

(* What each message carries.                                              *)
LEMMA MessageCarries ==
    ASSUME NEW msg \in Message
    PROVE  /\ msg.type = "smsgInv" => DOMAIN msg.inv \subseteq Buckets
           /\ msg.type = "smsgShow" => msg.show \subseteq Buckets
           /\ msg.type = "smsgHave" => msg.bucket \in Buckets /\ msg.have \subseteq Msgs
           /\ msg.type = "smsgWant" => msg.bucket \in Buckets /\ msg.want \subseteq Msgs
           /\ msg.type = "smsgMsg" => msg.bucket \in Buckets /\ msg.bunch \subseteq In(msg.bucket)
                                      /\ msg.bunch \subseteq Msgs
<1>1. CASE msg \in [type : {"smsgPing", "smsgPong", "smsgDisabled", "smsgIgnore"}]
  BY <1>1
<1>2. CASE msg \in [type : {"smsgInv"}, inv : UNION {[bs -> Announced] : bs \in SUBSET Buckets}]
  BY <1>2
<1>3. CASE msg \in [type : {"smsgShow"}, show : SUBSET Buckets]
  BY <1>3
<1>4. CASE msg \in [type : {"smsgHave"}, bucket : Buckets, have : SUBSET Msgs]
  BY <1>4
<1>5. CASE msg \in [type : {"smsgWant"}, bucket : Buckets, want : SUBSET Msgs]
  BY <1>5
<1>6. CASE msg \in {m \in [type : {"smsgMsg"}, bucket : Buckets, bunch : SUBSET Msgs] :
                       m.bunch \subseteq In(m.bucket)}
  BY <1>6
<1> QED
  BY <1>1, <1>2, <1>3, <1>4, <1>5, <1>6 DEF Message

(* The messages that nodes make.                                           *)
LEMMA Made ==
    /\ \A type \in {"smsgPing", "smsgPong", "smsgDisabled", "smsgIgnore"} : [type |-> type] \in Message
    /\ \A bs \in SUBSET Buckets : [type |-> "smsgShow", show |-> bs] \in Message
    /\ \A bs \in SUBSET Buckets : \A inv \in [bs -> Announced] :
          [type |-> "smsgInv", inv |-> inv] \in Message
    /\ \A b \in Buckets, ms \in SUBSET Msgs :
          /\ [type |-> "smsgHave", bucket |-> b, have |-> ms] \in Message
          /\ [type |-> "smsgWant", bucket |-> b, want |-> ms] \in Message
          /\ ms \subseteq In(b) => [type |-> "smsgMsg", bucket |-> b, bunch |-> ms] \in Message
<1>1. \A type \in {"smsgPing", "smsgPong", "smsgDisabled", "smsgIgnore"} : [type |-> type] \in Message
  BY DEF Message
<1>2. \A bs \in SUBSET Buckets : [type |-> "smsgShow", show |-> bs] \in Message
  BY DEF Message
<1>3. ASSUME NEW bs \in SUBSET Buckets, NEW inv \in [bs -> Announced]
      PROVE  [type |-> "smsgInv", inv |-> inv] \in Message
  <2>1. inv \in UNION {[cs -> Announced] : cs \in SUBSET Buckets}
    OBVIOUS
  <2> QED
    BY <2>1 DEF Message
<1>4. ASSUME NEW b \in Buckets, NEW ms \in SUBSET Msgs
      PROVE  /\ [type |-> "smsgHave", bucket |-> b, have |-> ms] \in Message
             /\ [type |-> "smsgWant", bucket |-> b, want |-> ms] \in Message
             /\ ms \subseteq In(b) => [type |-> "smsgMsg", bucket |-> b, bunch |-> ms] \in Message
  BY DEF Message
<1> QED
  BY <1>1, <1>2, <1>3, <1>4

(* The elements of a finite set in a sequence.                             *)
LEMMA SetToSeqOfFinite ==
    ASSUME NEW S, IsFiniteSet(S)
    PROVE  SetToSeq(S) \in Seq(S)
<1>1. Cardinality(S) \in Nat /\ ExistsBijection(1..Cardinality(S), S)
  BY FS_CardinalityType
<1>2. \E f \in [1..Cardinality(S) -> S] : IsInjective(f)
  BY <1>1 DEF ExistsBijection, Bijection, Injection
<1>3. SetToSeq(S) \in [1..Cardinality(S) -> S]
  BY <1>2 DEF SetToSeq
<1> QED
  BY <1>1, <1>3

(* A reply takes one message off the wire and puts others on it.           *)
LEMMA ReplyKeeps ==
    ASSUME NetOK, NEW n \in Nodes, NEW p \in Peers(n), net[p][n] # << >>,
           NEW msgs \in Seq(Message), Reply(n, p, msgs)
    PROVE  NetOK'
<1>1. /\ p \in Nodes /\ n # p /\ n \in Peers(p)
      /\ net[p][n] \in Seq(Message) /\ net[n][p] \in Seq(Message)
  BY DEF NetOK, Peers
<1>2. Tail(net[p][n]) \in Seq(Message) /\ net[n][p] \o msgs \in Seq(Message)
  BY <1>1
<1>3. net' = [net EXCEPT ![p] = [net[p] EXCEPT ![n] = Tail(net[p][n])],
                         ![n] = [net[n] EXCEPT ![p] = net[n][p] \o msgs]]
  BY <1>1 DEF Reply, NetOK
<1>4. /\ net' = [x \in Nodes |-> net'[x]]
      /\ net'[p] = [net[p] EXCEPT ![n] = Tail(net[p][n])]
      /\ net'[n] = [net[n] EXCEPT ![p] = net[n][p] \o msgs]
      /\ \A x \in Nodes \ {n, p} : net'[x] = net[x]
  BY <1>1, <1>3 DEF NetOK
<1>5. net'[p] \in [Peers(p) -> Seq(Message)] /\ net'[n] \in [Peers(n) -> Seq(Message)]
  <2>1. net[p] \in [Peers(p) -> Seq(Message)] /\ net[n] \in [Peers(n) -> Seq(Message)]
    BY <1>1 DEF NetOK
  <2> QED
    BY <1>1, <1>2, <1>4, <2>1
<1>6. \A x \in Nodes : net'[x] \in [Peers(x) -> Seq(Message)]
  BY <1>4, <1>5 DEF NetOK
<1> QED
  BY <1>4, <1>6 DEF NetOK

LEMMA PushKeeps ==
    ASSUME NetOK, NEW n \in Nodes, NEW p \in Peers(n), NEW msgs \in Seq(Message), Push(n, p, msgs)
    PROVE  NetOK'
<1>1. net[n][p] \o msgs \in Seq(Message)
  BY DEF NetOK
<1>2. net' = [net EXCEPT ![n] = [net[n] EXCEPT ![p] = net[n][p] \o msgs]]
  BY DEF Push, NetOK
<1>3. /\ net' = [x \in Nodes |-> net'[x]]
      /\ net'[n] = [net[n] EXCEPT ![p] = net[n][p] \o msgs]
      /\ \A x \in Nodes \ {n} : net'[x] = net[x]
  BY <1>2 DEF NetOK
<1>4. net'[n] \in [Peers(n) -> Seq(Message)]
  <2>1. net[n] \in [Peers(n) -> Seq(Message)]
    BY DEF NetOK
  <2> QED
    BY <1>1, <1>3, <2>1
<1>5. \A x \in Nodes : net'[x] \in [Peers(x) -> Seq(Message)]
  BY <1>3, <1>4 DEF NetOK
<1> QED
  BY <1>3, <1>5 DEF NetOK

(* The message that a handler finds.                                       *)
LEMMA HeadIsMessage ==
    ASSUME NetOK, NEW n \in Nodes, NEW p \in Peers(n), net[p][n] # << >>
    PROVE  Head(net[p][n]) \in Message
<1>1. net[p][n] \in Seq(Message)
  BY DEF NetOK, Peers
<1> QED
  BY <1>1

-----------------------------------------------------------------------------
LEMMA InitHolds == SmsgInit => SmsgInv
<1> SUFFICES ASSUME SmsgInit
             PROVE  SmsgInv
  OBVIOUS
<1>1. NoBucket \in Bucket /\ NoBucket.hash = {} /\ NoBucket.setTokens = {}
  BY SmsgAssumption DEF NoBucket, Bucket, SmsgAssumption
<1>2. NewPeer \in PeerData /\ NewPeer.due = Buckets
  BY DEF NewPeer, PeerData
<1>3. Idle \in Doing /\ Idle.op = "idle"
  BY DEF Idle, Doing
<1>4. FlagsOK /\ OffOK
  <2>1. Asleep \in [at : {"asleep", "awake", "report"}, timedOut : SUBSET Nodes]
    BY DEF Asleep
  <2>2. 0 \in 0 .. MaxEvents
    BY SmsgAssumption DEF SmsgAssumption
  <2> QED
    BY <2>1, <2>2 DEF SmsgInit, FlagsOK, OffOK, Asleep
<1>5. StoreOK /\ HashIsCurrent /\ TokensAreStored
  BY <1>1 DEF SmsgInit, StoreOK, HashIsCurrent, TokensAreStored, Tokens
<1>6. PeersOK /\ PeersAreTold
  BY <1>1, <1>2 DEF SmsgInit, PeersOK, PeersAreTold
<1>7. NetOK
  <2>1. << >> \in Seq(Message)
    OBVIOUS
  <2> QED
    BY <2>1 DEF SmsgInit, NetOK
<1>8. HandlerOK /\ SentOK
  BY <1>3 DEF SmsgInit, HandlerOK, SentOK
<1> QED
  BY <1>4, <1>5, <1>6, <1>7, <1>8 DEF SmsgInv

(* An assignment to what a node keeps of one peer.                         *)
KeepsOf(n, p, new) == smsgData' = [smsgData EXCEPT ![n] = [smsgData[n] EXCEPT ![p] = new]]

LEMMA PeerChange ==
    ASSUME PeersOK, NEW n \in Nodes, NEW p \in Peers(n), NEW new \in PeerData, KeepsOf(n, p, new)
    PROVE  /\ PeersOK' /\ smsgData'[n][p] = new
           /\ \A x \in Nodes : \A y \in Peers(x) :
                 x # n \/ y # p => smsgData'[x][y] = smsgData[x][y]
<1>1. smsgData[n] \in [Peers(n) -> PeerData]
  BY DEF PeersOK
<1>2. /\ smsgData' = [x \in Nodes |-> smsgData'[x]]
      /\ smsgData'[n] = [smsgData[n] EXCEPT ![p] = new]
      /\ \A x \in Nodes \ {n} : smsgData'[x] = smsgData[x]
  BY DEF PeersOK, KeepsOf
<1>3. smsgData'[n] \in [Peers(n) -> PeerData]
  BY <1>1, <1>2
<1>4. \A x \in Nodes : smsgData'[x] \in [Peers(x) -> PeerData]
  BY <1>2, <1>3 DEF PeersOK
<1> QED
  BY <1>1, <1>2, <1>4 DEF PeersOK

(* Fields of what a node keeps of a peer.                                  *)
LEMMA PeerFields ==
    ASSUME NEW r \in PeerData, NEW v \in BOOLEAN
    PROVE  /\ [r EXCEPT !.pinged = v] \in PeerData /\ [r EXCEPT !.pinged = v].due = r.due
           /\ [r EXCEPT !.pinged = v].told = r.told
           /\ [r EXCEPT !.fEnabled = v] \in PeerData /\ [r EXCEPT !.fEnabled = v].due = r.due
           /\ [r EXCEPT !.fEnabled = v].told = r.told
           /\ [r EXCEPT !.ignoring = v] \in PeerData /\ [r EXCEPT !.ignoring = v].due = r.due
           /\ [r EXCEPT !.ignoring = v].told = r.told
BY DEF PeerData

SameTold ==
    \A x \in Nodes : \A y \in Peers(x) : /\ smsgData'[x][y].due = smsgData[x][y].due
                                         /\ smsgData'[x][y].told = smsgData[x][y].told

(* Talk that moves no bucket keeps the invariant.                          *)
LEMMA TalkKeeps ==
    ASSUME SmsgInv, missed' \in BOOLEAN, NetOK', PeersOK', SameTold,
           UNCHANGED <<fSecMsgEnabled, disabling, store, threads, old, unsent, events, overdue, scanned>>
    PROVE  SmsgInv'
<1>1. FlagsOK' /\ StoreOK' /\ HandlerOK' /\ OffOK'
  BY DEF SmsgInv, FlagsOK, StoreOK, HandlerOK, OffOK, threads, store
<1>2. HashIsCurrent' /\ TokensAreStored'
  BY DEF SmsgInv, HashIsCurrent, TokensAreStored, Tokens, Receiving, threads, store
<1>3. PeersAreTold'
  BY DEF SmsgInv, PeersAreTold, SameTold, store
<1>4. SentOK'
  BY DEF SmsgInv, SentOK, SameTold, HandlerOK, threads, store
<1> QED
  BY <1>1, <1>2, <1>3, <1>4 DEF SmsgInv

(* The same if nothing about the peers changes.                            *)
LEMMA ReplyOnly ==
    ASSUME SmsgInv, missed' \in BOOLEAN, NEW n \in Nodes, NEW p \in Peers(n), net[p][n] # << >>,
           NEW msgs \in Seq(Message), Reply(n, p, msgs), UNCHANGED <<Rest, store, smsgData>>
    PROVE  SmsgInv'
<1>1. NetOK'
  BY ReplyKeeps DEF SmsgInv
<1>2. PeersOK' /\ SameTold
  BY DEF SmsgInv, PeersOK, SameTold
<1> QED
  BY <1>1, <1>2, TalkKeeps DEF Rest

LEMMA FlagOfPeer ==
    ASSUME SmsgInv, NEW n \in Nodes, NEW p \in Peers(n), NEW v \in BOOLEAN,
           \/ smsgData' = [smsgData EXCEPT ![n][p].pinged = v]
           \/ smsgData' = [smsgData EXCEPT ![n][p].fEnabled = v]
           \/ smsgData' = [smsgData EXCEPT ![n][p].ignoring = v]
    PROVE  PeersOK' /\ SameTold
<1>1. smsgData[n][p] \in PeerData
  BY DEF SmsgInv, PeersOK
<1>2. PICK new \in PeerData :
        /\ new.due = smsgData[n][p].due /\ new.told = smsgData[n][p].told
        /\ KeepsOf(n, p, new)
  <2>1. CASE smsgData' = [smsgData EXCEPT ![n][p].pinged = v]
    <3>1. KeepsOf(n, p, [smsgData[n][p] EXCEPT !.pinged = v])
      BY <2>1 DEF KeepsOf
    <3> QED
      BY <1>1, <3>1, PeerFields
  <2>2. CASE smsgData' = [smsgData EXCEPT ![n][p].fEnabled = v]
    <3>1. KeepsOf(n, p, [smsgData[n][p] EXCEPT !.fEnabled = v])
      BY <2>2 DEF KeepsOf
    <3> QED
      BY <1>1, <3>1, PeerFields
  <2>3. CASE smsgData' = [smsgData EXCEPT ![n][p].ignoring = v]
    <3>1. KeepsOf(n, p, [smsgData[n][p] EXCEPT !.ignoring = v])
      BY <2>3 DEF KeepsOf
    <3> QED
      BY <1>1, <3>1, PeerFields
  <2> QED
    BY <2>1, <2>2, <2>3
<1>3. /\ PeersOK' /\ smsgData'[n][p] = new
      /\ \A x \in Nodes : \A y \in Peers(x) :
            x # n \/ y # p => smsgData'[x][y] = smsgData[x][y]
  <2>1. PeersOK
    BY DEF SmsgInv
  <2> QED
    BY <1>2, <2>1, PeerChange
<1> QED
  BY <1>2, <1>3 DEF SameTold

LEMMA ShortSeqs ==
    /\ << >> \in Seq(Message)
    /\ \A msg \in Message : <<msg>> \in Seq(Message)
OBVIOUS

LEMMA SimpleMessages ==
    ASSUME NEW type \in {"smsgPing", "smsgPong", "smsgDisabled", "smsgIgnore"}
    PROVE  [type |-> type] \in Message
BY Made

-----------------------------------------------------------------------------
(* First contact, and what moves no bucket where it arrives.               *)

LEMMA SendPingKeeps ==
    ASSUME SmsgInv, NEW n \in Nodes, NEW p \in Peers(n), SendPing(n, p)
    PROVE  SmsgInv'
<1>1. NetOK'
  <2>1. [type |-> "smsgPing"] \in Message
    BY SimpleMessages
  <2> QED
    BY <2>1, ShortSeqs, PushKeeps DEF SendPing, SmsgInv
<1>2. PeersOK' /\ SameTold
  BY FlagOfPeer DEF SendPing
<1>3. missed' \in BOOLEAN
  BY DEF SendPing, history, SmsgInv, FlagsOK
<1> QED
  BY <1>1, <1>2, <1>3, TalkKeeps DEF SendPing, history

LEMMA DiscardKeeps ==
    ASSUME SmsgInv, NEW n \in Nodes, NEW p \in Peers(n), Discard(n, p)
    PROVE  SmsgInv'
<1>1. missed' \in BOOLEAN
  BY DEF Discard, SmsgInv, FlagsOK
<1> QED
  BY <1>1, ShortSeqs, ReplyOnly DEF Discard

LEMMA PingKeeps ==
    ASSUME SmsgInv, NEW n \in Nodes, NEW p \in Peers(n), ReceivePing(n, p)
    PROVE  SmsgInv'
<1>1. missed' \in BOOLEAN /\ net[p][n] # << >>
  BY DEF ReceivePing, Arrives, SmsgInv, FlagsOK
<1>2. [type |-> "smsgPong"] \in Message
  BY SimpleMessages
<1> QED
  BY <1>1, <1>2, ShortSeqs, ReplyOnly DEF ReceivePing

(* A flag of the peer is set, and nothing is sent.                         *)
LEMMA FlagReply ==
    ASSUME SmsgInv, NEW n \in Nodes, NEW p \in Peers(n), net[p][n] # << >>, Reply(n, p, << >>),
           PeersOK', SameTold, UNCHANGED <<Rest, store, missed>>
    PROVE  SmsgInv'
<1>1. NetOK'
  BY ReplyKeeps, ShortSeqs DEF SmsgInv
<1>2. missed' \in BOOLEAN
  BY DEF SmsgInv, FlagsOK
<1> QED
  BY <1>1, <1>2, TalkKeeps DEF Rest

LEMMA PongKeeps ==
    ASSUME SmsgInv, NEW n \in Nodes, NEW p \in Peers(n), ReceivePong(n, p)
    PROVE  SmsgInv'
<1>1. PeersOK' /\ SameTold
  BY FlagOfPeer DEF ReceivePong
<1> QED
  BY <1>1, FlagReply DEF ReceivePong, Arrives

LEMMA DisabledKeeps ==
    ASSUME SmsgInv, NEW n \in Nodes, NEW p \in Peers(n), ReceiveDisabled(n, p)
    PROVE  SmsgInv'
<1>1. PeersOK' /\ SameTold
  BY FlagOfPeer DEF ReceiveDisabled
<1> QED
  BY <1>1, FlagReply DEF ReceiveDisabled, Arrives

LEMMA IgnoreKeeps ==
    ASSUME SmsgInv, NEW n \in Nodes, NEW p \in Peers(n), ReceiveIgnore(n, p)
    PROVE  SmsgInv'
<1>1. PeersOK' /\ SameTold
  BY FlagOfPeer DEF ReceiveIgnore
<1> QED
  BY <1>1, FlagReply DEF ReceiveIgnore, Arrives

LEMMA IgnoreEndsKeeps ==
    ASSUME SmsgInv, NEW n \in Nodes, NEW p \in Peers(n), IgnoreEnds(n, p)
    PROVE  SmsgInv'
<1>1. PeersOK' /\ SameTold
  BY FlagOfPeer DEF IgnoreEnds
<1>2. NetOK' /\ missed' \in BOOLEAN
  BY DEF IgnoreEnds, SmsgInv, NetOK, FlagsOK, history
<1> QED
  BY <1>1, <1>2, TalkKeeps DEF IgnoreEnds, history

LEMMA InvKeeps ==
    ASSUME SmsgInv, NEW n \in Nodes, NEW p \in Peers(n), ReceiveInv(n, p)
    PROVE  SmsgInv'
<1> DEFINE inv == Head(net[p][n]).inv
           open == {b \in DOMAIN inv \ old[n] : ~IsLocked(n, b)}
           show == {b \in open : Lacks(n, b, inv[b])}
<1>1. net[p][n] # << >> /\ Head(net[p][n]) \in Message /\ Head(net[p][n]).type = "smsgInv"
  BY HeadIsMessage DEF ReceiveInv, Arrives, SmsgInv
<1>2. show \subseteq Buckets
  BY <1>1, MessageCarries
<1>3. [type |-> "smsgShow", show |-> show] \in Message
  BY <1>2, Made
<1>4. \/ Reply(n, p, << >>)
      \/ Reply(n, p, <<[type |-> "smsgShow", show |-> show]>>)
  BY DEF ReceiveInv
<1>5. missed' \in BOOLEAN /\ UNCHANGED <<Rest, store, smsgData>>
  BY DEF ReceiveInv, SmsgInv, FlagsOK
<1> HIDE DEF show
<1> QED
  BY <1>1, <1>3, <1>4, <1>5, ShortSeqs, ReplyOnly

LEMMA ShowKeeps ==
    ASSUME SmsgInv, NEW n \in Nodes, NEW p \in Peers(n), ReceiveShow(n, p)
    PROVE  SmsgInv'
<1> DEFINE has == {b \in Head(net[p][n]).show : Tokens(n, b) # {}}
           answers == {[type |-> "smsgHave", bucket |-> b, have |-> Tokens(n, b)] : b \in has}
<1>1. net[p][n] # << >> /\ Head(net[p][n]) \in Message /\ Head(net[p][n]).type = "smsgShow"
  BY HeadIsMessage DEF ReceiveShow, Arrives, SmsgInv
<1>2. has \subseteq Buckets
  BY <1>1, MessageCarries
<1>3. answers \subseteq Message
  <2>1. \A b \in has : b \in Buckets /\ Tokens(n, b) \in SUBSET Msgs
    BY <1>2 DEF SmsgInv, StoreOK, Bucket, Tokens
  <2> QED
    BY <2>1, Made
<1>4. IsFiniteSet(answers)
  <2>1. IsFiniteSet(has)
    BY <1>2, SmsgAssumption, FS_Subset DEF SmsgAssumption
  <2> DEFINE f == [b \in has |-> [type |-> "smsgHave", bucket |-> b, have |-> Tokens(n, b)]]
  <2>2. f \in Surjection(has, answers)
    BY DEF Surjection
  <2> HIDE DEF has, answers, f
  <2> QED
    BY <2>1, <2>2, FS_Surjection
<1>5. SetToSeq(answers) \in Seq(Message)
  <2> HIDE DEF answers
  <2>1. SetToSeq(answers) \in Seq(answers)
    BY <1>4, SetToSeqOfFinite
  <2> QED
    BY <1>3, <2>1
<1>6. Reply(n, p, SetToSeq(answers)) /\ UNCHANGED <<Rest, store, smsgData>> /\ missed' \in BOOLEAN
  BY DEF ReceiveShow, SmsgInv, FlagsOK
<1> HIDE DEF answers
<1> QED
  BY <1>1, <1>5, <1>6, ReplyOnly

LEMMA WantKeeps ==
    ASSUME SmsgInv, NEW n \in Nodes, NEW p \in Peers(n), ReceiveWant(n, p)
    PROVE  SmsgInv'
<1> DEFINE b == Head(net[p][n]).bucket
           want == Head(net[p][n]).want \cap Tokens(n, b)
<1>1. net[p][n] # << >> /\ Head(net[p][n]) \in Message /\ Head(net[p][n]).type = "smsgWant"
  BY HeadIsMessage DEF ReceiveWant, Arrives, SmsgInv
<1>2. b \in Buckets
  BY <1>1, MessageCarries
<1>3. PICK bunch \in Bunches(n, b, want) :
        /\ Reply(n, p, IF bunch = {} THEN << >>
                       ELSE <<[type |-> "smsgMsg", bucket |-> b, bunch |-> bunch]>>)
        /\ missed' = (missed \/ bunch # want)
  BY DEF ReceiveWant
<1>4. bunch \in SUBSET Msgs /\ bunch \subseteq In(b)
  BY DEF Bunches, SmsgInv, StoreOK, In
<1>5. [type |-> "smsgMsg", bucket |-> b, bunch |-> bunch] \in Message
  BY <1>2, <1>4, Made
<1>6. UNCHANGED <<Rest, store, smsgData>> /\ missed' \in BOOLEAN
  BY <1>3 DEF ReceiveWant, SmsgInv, FlagsOK
<1> QED
  BY <1>1, <1>3, <1>5, <1>6, ShortSeqs, ReplyOnly

-----------------------------------------------------------------------------
(* Buckets.                                                                *)

BucketIs(n, b, new) == smsgBuckets' = [smsgBuckets EXCEPT ![n] = [smsgBuckets[n] EXCEPT ![b] = new]]

LEMMA BucketChange ==
    ASSUME StoreOK, NEW n \in Nodes, NEW b \in Buckets, NEW new \in Bucket, BucketIs(n, b, new)
    PROVE  /\ smsgBuckets' \in [Nodes -> [Buckets -> Bucket]]
           /\ smsgBuckets'[n][b] = new
           /\ \A x \in Nodes : \A c \in Buckets :
                 x # n \/ c # b => smsgBuckets'[x][c] = smsgBuckets[x][c]
<1>1. smsgBuckets[n] \in [Buckets -> Bucket]
  BY DEF StoreOK
<1> QED
  BY <1>1 DEF StoreOK, BucketIs

Locked(r, k, p) == [r EXCEPT !.nLockCount = k, !.nLockPeerId = p]
Holding(r, tokens) == [r EXCEPT !.setTokens = tokens]
Hashed(r, tokens) == [r EXCEPT !.setTokens = tokens, !.hash = tokens]

LEMMA BucketFields ==
    ASSUME NEW r \in Bucket
    PROVE  /\ \A k \in 0 .. LockTicks, p \in Nodes \cup {None} :
                 /\ Locked(r, k, p) \in Bucket
                 /\ Locked(r, k, p).setTokens = r.setTokens /\ Locked(r, k, p).hash = r.hash
           /\ \A tokens \in SUBSET Msgs :
                 /\ Holding(r, tokens) \in Bucket
                 /\ Holding(r, tokens).setTokens = tokens /\ Holding(r, tokens).hash = r.hash
                 /\ Hashed(r, tokens) \in Bucket
                 /\ Hashed(r, tokens).setTokens = tokens /\ Hashed(r, tokens).hash = tokens
<1>1. ASSUME NEW k \in 0 .. LockTicks, NEW p \in Nodes \cup {None}
      PROVE  /\ Locked(r, k, p) \in Bucket
             /\ Locked(r, k, p).setTokens = r.setTokens /\ Locked(r, k, p).hash = r.hash
  BY DEF Bucket, Locked
<1>2. ASSUME NEW tokens \in SUBSET Msgs
      PROVE  /\ Holding(r, tokens) \in Bucket
             /\ Holding(r, tokens).setTokens = tokens /\ Holding(r, tokens).hash = r.hash
  BY DEF Bucket, Holding
<1>3. ASSUME NEW tokens \in SUBSET Msgs
      PROVE  /\ Hashed(r, tokens) \in Bucket
             /\ Hashed(r, tokens).setTokens = tokens /\ Hashed(r, tokens).hash = tokens
  BY DEF Bucket, Hashed
<1> QED
  BY <1>1, <1>2, <1>3

LEMMA NoBucketIsBucket == NoBucket \in Bucket /\ NoBucket.setTokens = {} /\ NoBucket.hash = {}
BY SmsgAssumption DEF NoBucket, Bucket, SmsgAssumption

SameTokens ==
    \A x \in Nodes : \A c \in Buckets : /\ smsgBuckets'[x][c].setTokens = smsgBuckets[x][c].setTokens
                                        /\ smsgBuckets'[x][c].hash = smsgBuckets[x][c].hash

(* What the handler holds of a smsgHave.                                   *)
LEMMA Having ==
    ASSUME HandlerOK, NEW n \in Nodes
    PROVE  /\ handler[n].op = "have" =>
                 /\ handler[n].bucket \in Buckets /\ handler[n].have \subseteq Msgs
                 /\ handler[n].peer \in Peers(n) \cup {None}
           /\ handler[n].op = "want" =>
                 /\ handler[n].bucket \in Buckets /\ handler[n].want \subseteq Msgs
                 /\ handler[n].peer \in Peers(n) \cup {None}
BY DEF HandlerOK, Doing

LEMMA ReceiveHaveKeeps ==
    ASSUME SmsgInv, NEW n \in Nodes, NEW p \in Peers(n), ReceiveHave(n, p)
    PROVE  SmsgInv'
<1> DEFINE msg == Head(net[p][n])
           doing == [op |-> "have", peer |-> p, bucket |-> msg.bucket, have |-> msg.have]
<1>1. net[p][n] # << >> /\ msg \in Message /\ msg.type = "smsgHave" /\ handler[n] = Idle
  BY HeadIsMessage DEF ReceiveHave, Arrives, SmsgInv
<1>2. doing \in Doing /\ doing.op = "have" /\ doing.peer = p
  <2>1. msg.bucket \in Buckets /\ msg.have \in SUBSET Msgs /\ p \in Nodes
    BY <1>1, MessageCarries DEF Peers
  <2> HIDE DEF msg
  <2> QED
    BY <2>1 DEF Doing
<1>3. /\ handler' = handler \/ handler' = [handler EXCEPT ![n] = doing]
      /\ Reply(n, p, << >>)
      /\ UNCHANGED <<fSecMsgEnabled, disabling, store, sendQueue, pow, ticker, smsgData, old,
                     unsent, events, history>>
  BY DEF ReceiveHave
<1> HIDE DEF doing
<1>4. /\ handler' \in [Nodes -> Doing] /\ \A x \in Nodes \ {n} : handler'[x] = handler[x]
      /\ \/ handler'[n] = handler[n]
         \/ handler'[n].op = "have" /\ handler'[n].peer \in Peers(n)
  BY <1>2, <1>3 DEF SmsgInv, HandlerOK
<1>5. FlagsOK' /\ StoreOK' /\ PeersOK' /\ OffOK'
  BY <1>3 DEF SmsgInv, FlagsOK, StoreOK, PeersOK, OffOK, store, history
<1>6. NetOK'
  BY <1>1, <1>3, ShortSeqs, ReplyKeeps DEF SmsgInv
<1>7. HandlerOK' /\ SentOK'
  BY <1>3, <1>4 DEF SmsgInv, HandlerOK, SentOK, store
<1>8. HashIsCurrent' /\ TokensAreStored' /\ PeersAreTold'
  BY <1>1, <1>3, <1>4 DEF SmsgInv, HashIsCurrent, TokensAreStored, PeersAreTold, Tokens, Receiving,
     Idle, store, history
<1> QED
  BY <1>5, <1>6, <1>7, <1>8 DEF SmsgInv

LEMMA SiftHaveKeeps ==
    ASSUME SmsgInv, NEW n \in Nodes, SiftHave(n)
    PROVE  SmsgInv'
<1> DEFINE doing == [op |-> "want", peer |-> handler[n].peer, bucket |-> handler[n].bucket,
                     want |-> Missing(n)]
<1>1. /\ handler[n].op = "have"
      /\ handler' = [handler EXCEPT ![n] = Idle] \/ handler' = [handler EXCEPT ![n] = doing]
      /\ missed' \in BOOLEAN
      /\ UNCHANGED <<fSecMsgEnabled, disabling, store, sendQueue, pow, ticker, peers, old,
                     unsent, events, overdue, scanned>>
  BY DEF SiftHave, SmsgInv, HandlerOK, FlagsOK
<1>2. doing \in Doing /\ doing.op = "want" /\ doing.peer \in Peers(n) \cup {None}
  <2>1. /\ handler[n].bucket \in Buckets /\ handler[n].have \subseteq Msgs
        /\ handler[n].peer \in Peers(n) \cup {None}
    BY <1>1, Having DEF SmsgInv
  <2>2. Missing(n) \in SUBSET Msgs /\ handler[n].peer \in Nodes \cup {None}
    BY <2>1 DEF Missing, Peers
  <2> QED
    BY <2>1, <2>2 DEF Doing
<1>3. Idle \in Doing /\ Idle.op = "idle"
  BY DEF Idle, Doing
<1> HIDE DEF doing
<1>4. /\ handler' \in [Nodes -> Doing] /\ \A x \in Nodes \ {n} : handler'[x] = handler[x]
      /\ \/ handler'[n].op = "idle"
         \/ handler'[n].op = "want" /\ handler'[n].peer \in Peers(n) \cup {None}
  BY <1>1, <1>2, <1>3 DEF SmsgInv, HandlerOK
<1>5. FlagsOK' /\ StoreOK' /\ PeersOK' /\ NetOK' /\ OffOK'
  BY <1>1 DEF SmsgInv, FlagsOK, StoreOK, PeersOK, NetOK, OffOK, store, peers
<1>6. HandlerOK' /\ SentOK'
  BY <1>1, <1>4 DEF SmsgInv, HandlerOK, SentOK, store, peers
<1>7. HashIsCurrent' /\ TokensAreStored' /\ PeersAreTold'
  BY <1>1, <1>4 DEF SmsgInv, HashIsCurrent, TokensAreStored, PeersAreTold, Tokens, Receiving,
     store, peers
<1> QED
  BY <1>5, <1>6, <1>7 DEF SmsgInv

(* It locks the bucket and asks: no token moves.                           *)
LEMMA LockBucketKeeps ==
    ASSUME SmsgInv, NEW n \in Nodes, LockBucket(n)
    PROVE  SmsgInv'
<1> DEFINE b == handler[n].bucket
           p == handler[n].peer
           ask == [type |-> "smsgWant", bucket |-> b, want |-> handler[n].want]
<1>1. /\ handler[n].op = "want"
      /\ b \in Buckets /\ handler[n].want \subseteq Msgs /\ p \in Peers(n) \cup {None}
  BY Having DEF LockBucket, SmsgInv
<1>2. ask \in Message
  BY <1>1, Made
<1>3. /\ handler' = [handler EXCEPT ![n] = Idle]
      /\ smsgBuckets' = [smsgBuckets EXCEPT ![n][b].nLockCount = LockTicks,
                                            ![n][b].nLockPeerId = p]
      /\ p = None => net' = net
      /\ p # None => Push(n, p, <<ask>>)
      /\ UNCHANGED <<fSecMsgEnabled, disabling, smsgStore, smsgData, sendQueue, pow, ticker, old,
                     unsent, events, history>>
  <2>1. net' = IF p = None THEN net ELSE [net EXCEPT ![n][p] = Append(@, ask)]
    BY DEF LockBucket
  <2>2. /\ handler' = [handler EXCEPT ![n] = Idle]
        /\ smsgBuckets' = [smsgBuckets EXCEPT ![n][b].nLockCount = LockTicks,
                                              ![n][b].nLockPeerId = p]
        /\ UNCHANGED <<fSecMsgEnabled, disabling, smsgStore, smsgData, sendQueue, pow, ticker, old,
                       unsent, events, history>>
    BY DEF LockBucket
  <2> HIDE DEF ask, p, b
  <2>3. p # None => net[n][p] \in Seq(Message)
    BY <1>1 DEF SmsgInv, NetOK
  <2>4. p # None => Append(net[n][p], ask) = net[n][p] \o <<ask>>
    BY <1>2, <2>3
  <2> QED
    BY <2>1, <2>2, <2>4 DEF Push
<1>4. StoreOK' /\ SameTokens
  <2> HIDE DEF b, p
  <2>1. smsgBuckets[n][b] \in Bucket /\ smsgBuckets[n] \in [Buckets -> Bucket]
    BY <1>1 DEF SmsgInv, StoreOK
  <2>2. BucketIs(n, b, Locked(smsgBuckets[n][b], LockTicks, p))
    BY <1>1, <1>3, <2>1 DEF BucketIs, Locked, Bucket, SmsgInv, StoreOK
  <2>3. LockTicks \in 0 .. LockTicks /\ p \in Nodes \cup {None}
    BY <1>1, SmsgAssumption DEF SmsgAssumption, Peers
  <2>4. StoreOK
    BY DEF SmsgInv
  <2>5. /\ Locked(smsgBuckets[n][b], LockTicks, p) \in Bucket
        /\ Locked(smsgBuckets[n][b], LockTicks, p).setTokens = smsgBuckets[n][b].setTokens
        /\ Locked(smsgBuckets[n][b], LockTicks, p).hash = smsgBuckets[n][b].hash
    BY <2>1, <2>3, BucketFields
  <2>6. /\ smsgBuckets' \in [Nodes -> [Buckets -> Bucket]]
        /\ smsgBuckets'[n][b] = Locked(smsgBuckets[n][b], LockTicks, p)
        /\ \A x \in Nodes : \A c \in Buckets :
              x # n \/ c # b => smsgBuckets'[x][c] = smsgBuckets[x][c]
    BY <1>1, <2>2, <2>4, <2>5, BucketChange
  <2> QED
    BY <1>3, <2>4, <2>5, <2>6 DEF StoreOK, SameTokens
<1>5. NetOK'
  <2>1. CASE p = None
    BY <1>3, <2>1 DEF SmsgInv, NetOK
  <2>2. CASE p # None
    <3> HIDE DEF ask, p
    <3>1. p \in Peers(n) /\ <<ask>> \in Seq(Message) /\ Push(n, p, <<ask>>) /\ NetOK
      BY <1>1, <1>2, <1>3, <2>2, ShortSeqs DEF SmsgInv
    <3> QED
      BY <3>1, PushKeeps
  <2> QED
    BY <2>1, <2>2
<1>6. /\ handler' \in [Nodes -> Doing] /\ handler'[n].op = "idle"
      /\ \A x \in Nodes \ {n} : handler'[x] = handler[x]
  <2>1. Idle \in Doing /\ Idle.op = "idle"
    BY DEF Idle, Doing
  <2> QED
    BY <1>3, <2>1 DEF SmsgInv, HandlerOK
<1>7. FlagsOK' /\ PeersOK' /\ HandlerOK' /\ OffOK'
  BY <1>3, <1>6 DEF SmsgInv, FlagsOK, PeersOK, HandlerOK, OffOK, history
<1>8. UNCHANGED <<fSecMsgEnabled, smsgStore, smsgData, scanned>> /\ handler[n].op = "want"
  BY <1>1, <1>3 DEF history
<1>9. HashIsCurrent' /\ TokensAreStored' /\ PeersAreTold' /\ SentOK'
  <2> HIDE DEF b, p, ask
  <2>1. HashIsCurrent'
    BY ONLY SmsgInv, <1>4, <1>6, <1>8 DEF SmsgInv, SameTokens, HashIsCurrent, Tokens,
       Receiving
  <2>2. TokensAreStored'
    BY ONLY SmsgInv, <1>4, <1>8 DEF SmsgInv, SameTokens, TokensAreStored, Tokens
  <2>3. PeersAreTold'
    BY ONLY SmsgInv, <1>4, <1>8 DEF SmsgInv, SameTokens, PeersAreTold
  <2>4. SentOK'
    BY ONLY SmsgInv, <1>4, <1>6, <1>8 DEF SmsgInv, SameTokens, SentOK
  <2> QED
    BY <2>1, <2>2, <2>3, <2>4
<1> QED
  BY <1>4, <1>5, <1>7, <1>9 DEF SmsgInv

-----------------------------------------------------------------------------
(* SecureMsgSendData.                                                      *)

LEMMA BeginSendKeeps ==
    ASSUME SmsgInv, NEW n \in Nodes, NEW p \in Peers(n), BeginSend(n, p)
    PROVE  SmsgInv'
<1>1. PICK again \in SUBSET (smsgData[n][p].due \ smsgData[n][p].again) :
         handler' = [handler EXCEPT ![n] =
                       [op |-> "begin", peer |-> p, since |-> again, again |-> again]]
  BY DEF BeginSend
<1>2. /\ handler[n] = Idle
      /\ UNCHANGED <<fSecMsgEnabled, disabling, store, sendQueue, pow, ticker, peers, old,
                     unsent, events, history>>
  BY DEF BeginSend
<1>3. again \in SUBSET Buckets /\ p \in Nodes
  BY DEF SmsgInv, PeersOK, PeerData, Peers
<1>4. /\ handler' \in [Nodes -> Doing] /\ handler'[n].op = "begin" /\ handler'[n].peer = p
      /\ \A x \in Nodes \ {n} : handler'[x] = handler[x]
  <2>1. [op |-> "begin", peer |-> p, since |-> again, again |-> again] \in Doing
    BY <1>3 DEF Doing
  <2> QED
    BY <1>1, <2>1 DEF SmsgInv, HandlerOK
<1>5. FlagsOK' /\ StoreOK' /\ PeersOK' /\ NetOK' /\ OffOK'
  BY <1>2 DEF SmsgInv, FlagsOK, StoreOK, PeersOK, NetOK, OffOK, store, peers, history
<1>6. HandlerOK' /\ SentOK'
  BY <1>2, <1>4 DEF SmsgInv, HandlerOK, SentOK, store, peers
<1>7. HashIsCurrent' /\ TokensAreStored' /\ PeersAreTold'
  BY <1>2, <1>4 DEF SmsgInv, HashIsCurrent, TokensAreStored, PeersAreTold, Tokens, Receiving, Idle,
     store, peers, history
<1> QED
  BY <1>5, <1>6, <1>7 DEF SmsgInv

(* What the handler holds when it is inside SecureMsgSendData.             *)
LEMMA Sending ==
    ASSUME HandlerOK, NEW n \in Nodes, handler[n].op \in {"begin", "end"}
    PROVE  /\ handler[n] \in [op : {"begin", "end"}, peer : Nodes, since : SUBSET Buckets,
                              again : SUBSET Buckets]
           /\ handler[n].peer \in Peers(n)
BY DEF HandlerOK, Doing

(* It tells the peer of every bucket that has changed and is not empty;    *)
(* one that is empty has the hash of nothing.                              *)
LEMMA SendInvKeeps ==
    ASSUME SmsgInv, NEW n \in Nodes, SendInv(n)
    PROVE  SmsgInv'
<1> DEFINE p == handler[n].peer
           shown == {b \in smsgData[n][p].due : Tokens(n, b) # {}}
           inv == [b \in shown |-> [nMessages |-> Cardinality(Tokens(n, b)),
                                    hash |-> smsgBuckets[n][b].hash]]
           told == [b \in Buckets |-> IF b \in shown THEN inv[b].hash ELSE smsgData[n][p].told[b]]
<1>1. /\ handler[n].op = "begin"
      /\ UNCHANGED <<fSecMsgEnabled, disabling, store, sendQueue, pow, ticker, old,
                     unsent, events, history>>
      /\ handler' = [handler EXCEPT ![n].op = "end"]
      /\ Push(n, p, IF shown = {} THEN << >> ELSE <<[type |-> "smsgInv", inv |-> inv]>>)
  BY DEF SendInv
<1>2. /\ handler[n] \in [op : {"begin", "end"}, peer : Nodes, since : SUBSET Buckets,
                         again : SUBSET Buckets]
      /\ p \in Peers(n)
  BY <1>1, Sending DEF SmsgInv
<1>3. smsgData[n][p] \in PeerData /\ shown \subseteq Buckets
  BY <1>2 DEF SmsgInv, PeersOK, PeerData
<1>4. \A b \in Buckets : Tokens(n, b) \in SUBSET Msgs /\ smsgBuckets[n][b].hash = Tokens(n, b)
  BY <1>1 DEF SmsgInv, HashIsCurrent, StoreOK, Bucket, Tokens, Receiving
<1>5. inv \in [shown -> Announced] /\ \A b \in shown : inv[b].hash = smsgBuckets[n][b].hash
  BY <1>3, <1>4 DEF Announced
<1>6. [type |-> "smsgInv", inv |-> inv] \in Message
  BY <1>3, <1>5, Made
<1>7. NetOK'
  <2> HIDE DEF inv, shown
  <2> QED
    BY <1>1, <1>2, <1>6, ShortSeqs, PushKeeps DEF SmsgInv
<1>8. told \in [Buckets -> SUBSET Msgs]
  BY <1>3, <1>4, <1>5 DEF PeerData
<1>9. PICK new \in PeerData :
         new.due = smsgData[n][p].due /\ new.told = told /\ KeepsOf(n, p, new)
  <2>1. smsgData' = [smsgData EXCEPT ![n] = [smsgData[n] EXCEPT ![p] =
                       [smsgData[n][p] EXCEPT !.told = told]]]
    BY DEF SendInv
  <2> HIDE DEF told
  <2>2. /\ [smsgData[n][p] EXCEPT !.told = told] \in PeerData
        /\ [smsgData[n][p] EXCEPT !.told = told].due = smsgData[n][p].due
        /\ [smsgData[n][p] EXCEPT !.told = told].told = told
    BY <1>3, <1>8 DEF PeerData
  <2> QED
    BY <2>1, <2>2 DEF KeepsOf
<1>10. /\ PeersOK' /\ smsgData'[n][p].due = smsgData[n][p].due /\ smsgData'[n][p].told = told
       /\ \A x \in Nodes : \A y \in Peers(x) :
             x # n \/ y # p => smsgData'[x][y] = smsgData[x][y]
  <2> HIDE DEF told
  <2>1. PeersOK
    BY DEF SmsgInv
  <2> QED
    BY <1>2, <1>9, <2>1, PeerChange
<1>11. \A b \in Buckets : smsgBuckets[n][b].hash \in {{}, told[b]}
                          \/ (b \in smsgData[n][p].due /\ Tokens(n, b) = {})
  <2>1. \A b \in Buckets \ smsgData[n][p].due : smsgBuckets[n][b].hash \in {{}, smsgData[n][p].told[b]}
    BY <1>2 DEF SmsgInv, PeersAreTold
  <2> QED
    BY <1>5, <2>1
<1>12. \A b \in Buckets : smsgBuckets[n][b].hash \in {{}, told[b]}
  BY <1>4, <1>11
<1>13. /\ handler' \in [Nodes -> Doing] /\ handler'[n].op = "end" /\ handler'[n].peer = p
       /\ \A x \in Nodes \ {n} : handler'[x] = handler[x]
  BY <1>1, <1>2 DEF SmsgInv, HandlerOK, Doing
<1>14. FlagsOK' /\ StoreOK' /\ OffOK'
  BY <1>1 DEF SmsgInv, FlagsOK, StoreOK, OffOK, store, history
<1>15. HandlerOK'
  BY <1>2, <1>13 DEF SmsgInv, HandlerOK
<1>16. SentOK'
  <2> HIDE DEF told
  <2>1. ASSUME NEW x \in Nodes, x # n, handler[x].op = "end", NEW b \in Buckets \ handler[x].since
        PROVE  smsgBuckets'[x][b].hash \in {{}, smsgData'[x][handler'[x].peer].told[b]}
    BY <1>1, <1>10, <1>13, <2>1 DEF SmsgInv, HandlerOK, SentOK, store
  <2>2. \A b \in Buckets : smsgBuckets'[n][b].hash \in {{}, smsgData'[n][handler'[n].peer].told[b]}
    BY <1>1, <1>10, <1>12, <1>13 DEF store
  <2> QED
    BY <1>13, <2>1, <2>2 DEF SentOK
<1>17. PeersAreTold'
  <2> HIDE DEF told
  <2> QED
    BY <1>1, <1>2, <1>10, <1>12 DEF SmsgInv, PeersAreTold, store
<1>18. HashIsCurrent' /\ TokensAreStored'
  BY <1>1, <1>13 DEF SmsgInv, HashIsCurrent, TokensAreStored, Tokens, Receiving, store, history
<1> QED
  BY <1>7, <1>10, <1>14, <1>15, <1>16, <1>17, <1>18 DEF SmsgInv

(* lastMatched is the time before the loop, so what has changed since is   *)
(* still due.                                                              *)
LEMMA EndSendKeeps ==
    ASSUME SmsgInv, NEW n \in Nodes, EndSend(n)
    PROVE  SmsgInv'
<1> DEFINE p == handler[n].peer
           new == [smsgData[n][p] EXCEPT !.due = handler[n].since, !.again = handler[n].again]
<1>1. /\ handler[n].op = "end" /\ handler' = [handler EXCEPT ![n] = Idle]
      /\ UNCHANGED <<fSecMsgEnabled, disabling, store, sendQueue, pow, ticker, net, old,
                     unsent, events, history>>
  BY DEF EndSend
<1>2. /\ handler[n] \in [op : {"begin", "end"}, peer : Nodes, since : SUBSET Buckets,
                         again : SUBSET Buckets]
      /\ p \in Peers(n)
  BY <1>1, Sending DEF SmsgInv
<1>3. smsgData[n][p] \in PeerData /\ smsgData[n] \in [Peers(n) -> PeerData]
  BY <1>2 DEF SmsgInv, PeersOK
<1>4. new \in PeerData /\ new.due = handler[n].since /\ new.told = smsgData[n][p].told
  BY <1>2, <1>3 DEF PeerData
<1>5. KeepsOf(n, p, new)
  BY <1>2, <1>3 DEF EndSend, KeepsOf, PeerData
<1>6. /\ PeersOK' /\ smsgData'[n][p] = new
      /\ \A x \in Nodes : \A y \in Peers(x) :
            x # n \/ y # p => smsgData'[x][y] = smsgData[x][y]
  <2> HIDE DEF new
  <2>1. PeersOK
    BY DEF SmsgInv
  <2> QED
    BY <1>2, <1>4, <1>5, <2>1, PeerChange
<1>7. /\ handler' \in [Nodes -> Doing] /\ handler'[n].op = "idle"
      /\ \A x \in Nodes \ {n} : handler'[x] = handler[x]
  BY <1>1 DEF SmsgInv, HandlerOK, Doing, Idle
<1> HIDE DEF new
<1>8. FlagsOK' /\ StoreOK' /\ OffOK' /\ NetOK' /\ HandlerOK'
  BY <1>1, <1>7 DEF SmsgInv, FlagsOK, StoreOK, OffOK, NetOK, HandlerOK, store, history
<1>9. SentOK'
  BY <1>1, <1>6, <1>7 DEF SmsgInv, HandlerOK, SentOK, store
<1>10. PeersAreTold'
  BY <1>1, <1>4, <1>6 DEF SmsgInv, PeersAreTold, SentOK, store
<1>11. HashIsCurrent' /\ TokensAreStored'
  BY <1>1, <1>7 DEF SmsgInv, HashIsCurrent, TokensAreStored, Tokens, Receiving, store, history
<1> QED
  BY <1>6, <1>8, <1>9, <1>10, <1>11 DEF SmsgInv

-----------------------------------------------------------------------------
(* SecureMsgReceive.                                                       *)

(* A change of hash makes the bucket due for every peer.                   *)
LEMMA ChangedKeeps ==
    ASSUME PeersOK, NEW n \in Nodes, NEW bs \in SUBSET Buckets, Changed(n, bs)
    PROVE  /\ PeersOK'
           /\ \A q \in Peers(n) : /\ smsgData'[n][q].due = smsgData[n][q].due \cup bs
                                  /\ smsgData'[n][q].told = smsgData[n][q].told
           /\ \A x \in Nodes \ {n} : smsgData'[x] = smsgData[x]
<1>1. ASSUME NEW r \in PeerData
      PROVE  Due(r, bs) \in PeerData /\ Due(r, bs).due = r.due \cup bs /\ Due(r, bs).told = r.told
  BY DEF PeerData, Due
<1>2. /\ smsgData' = [x \in Nodes |-> smsgData'[x]]
      /\ \A x \in Nodes \ {n} : smsgData'[x] = smsgData[x]
  BY DEF Changed, PeersOK
<1>3. smsgData'[n] = [q \in Peers(n) |-> Due(smsgData[n][q], bs)]
  BY DEF Changed, PeersOK
<1>4. \A q \in Peers(n) : smsgData[n][q] \in PeerData /\ smsgData'[n][q] = Due(smsgData[n][q], bs)
  BY <1>3 DEF PeersOK
<1>5. smsgData'[n] \in [Peers(n) -> PeerData]
  BY <1>1, <1>3, <1>4
<1>6. \A x \in Nodes : smsgData'[x] \in [Peers(x) -> PeerData]
  BY <1>2, <1>5 DEF PeersOK
<1> QED
  BY <1>1, <1>2, <1>4, <1>6 DEF PeersOK

LEMMA ReceiveMsgKeeps ==
    ASSUME SmsgInv, NEW n \in Nodes, NEW p \in Peers(n), ReceiveMsg(n, p)
    PROVE  SmsgInv'
<1> DEFINE msg == Head(net[p][n])
           doing == [op |-> "receive", bucket |-> msg.bucket, bunch |-> msg.bunch]
<1>1. net[p][n] # << >> /\ msg \in Message /\ msg.type = "smsgMsg" /\ handler[n] = Idle
  BY HeadIsMessage DEF ReceiveMsg, Arrives, SmsgInv
<1>2. doing \in Doing /\ doing.op = "receive"
  <2>1. msg.bucket \in Buckets /\ msg.bunch \in SUBSET Msgs /\ msg.bunch \subseteq In(msg.bucket)
    BY <1>1, MessageCarries
  <2> HIDE DEF msg
  <2> QED
    BY <2>1 DEF Doing
<1>3. /\ handler' = handler \/ handler' = [handler EXCEPT ![n] = doing]
      /\ Reply(n, p, << >>)
      /\ UNCHANGED <<fSecMsgEnabled, disabling, store, sendQueue, pow, ticker, smsgData, old,
                     unsent, events, history>>
  BY DEF ReceiveMsg
<1> HIDE DEF doing
<1>4. /\ handler' \in [Nodes -> Doing] /\ \A x \in Nodes \ {n} : handler'[x] = handler[x]
      /\ handler'[n] = handler[n] \/ handler'[n].op = "receive"
  BY <1>2, <1>3 DEF SmsgInv, HandlerOK
<1>5. FlagsOK' /\ StoreOK' /\ PeersOK' /\ OffOK'
  BY <1>3 DEF SmsgInv, FlagsOK, StoreOK, PeersOK, OffOK, store, history
<1>6. NetOK'
  BY <1>1, <1>3, ShortSeqs, ReplyKeeps DEF SmsgInv
<1>7. HandlerOK' /\ SentOK'
  BY <1>3, <1>4 DEF SmsgInv, HandlerOK, SentOK, store
<1>8. HashIsCurrent' /\ TokensAreStored' /\ PeersAreTold'
  BY <1>1, <1>3, <1>4 DEF SmsgInv, HashIsCurrent, TokensAreStored, PeersAreTold, Tokens, Receiving,
     Idle, store, history
<1> QED
  BY <1>5, <1>6, <1>7, <1>8 DEF SmsgInv

LEMMA Receives ==
    ASSUME HandlerOK, NEW n \in Nodes, handler[n].op = "receive"
    PROVE  /\ handler[n] \in [op : {"receive"}, bucket : Buckets, bunch : SUBSET Msgs]
           /\ handler[n].bunch \subseteq In(handler[n].bucket)
BY DEF HandlerOK, Doing

(* What StoreMsg and StoreQueued add to a bucket they add to its file.     *)
FileGets(n, m) == smsgStore' = [smsgStore EXCEPT ![n] = @ \cup {m}]

LEMMA PutKeepsFiles ==
    ASSUME SmsgInv, NEW n \in Nodes, NEW m \in Msgs, UNCHANGED <<fSecMsgEnabled, scanned>>,
           FileGets(n, m),
           smsgBuckets'[n][BucketOf[m]].setTokens = Tokens(n, BucketOf[m]) \cup {m},
           \A x \in Nodes : \A c \in Buckets :
              x # n \/ c # BucketOf[m] => smsgBuckets'[x][c] = smsgBuckets[x][c]
    PROVE  TokensAreStored' /\ smsgStore' \in [Nodes -> SUBSET Msgs]
<1>1. BucketOf[m] \in Buckets
  BY SmsgAssumption DEF SmsgAssumption
<1>2. /\ smsgStore' \in [Nodes -> SUBSET Msgs] /\ smsgStore'[n] = smsgStore[n] \cup {m}
      /\ \A x \in Nodes \ {n} : smsgStore'[x] = smsgStore[x]
  BY DEF SmsgInv, StoreOK, FileGets
<1>3. \A c \in Buckets : In(c) \cap smsgStore'[n] =
         (In(c) \cap smsgStore[n]) \cup (IF c = BucketOf[m] THEN {m} ELSE {})
  BY <1>1, <1>2 DEF In
<1>4. ASSUME NEW x \in Nodes, NEW c \in Buckets \ scanned[x]
      PROVE  /\ smsgBuckets'[x][c].setTokens \subseteq smsgStore'[x]
             /\ fSecMsgEnabled[x] => smsgBuckets'[x][c].setTokens = smsgStore'[x] \cap In(c)
  <2>1. /\ smsgBuckets[x][c].setTokens \subseteq smsgStore[x]
        /\ fSecMsgEnabled[x] => smsgBuckets[x][c].setTokens = smsgStore[x] \cap In(c)
    BY <1>4 DEF SmsgInv, TokensAreStored, Tokens
  <2>2. CASE x # n
    BY <1>2, <2>1, <2>2
  <2>3. CASE x = n /\ c # BucketOf[m]
    BY <1>2, <1>3, <2>1, <2>3
  <2>4. CASE x = n /\ c = BucketOf[m]
    BY <1>2, <1>3, <2>1, <2>4 DEF Tokens
  <2> QED
    BY <2>2, <2>3, <2>4
<1> QED
  BY <1>2, <1>4 DEF TokensAreStored, Tokens

(* The bunch is of messages of the bucket whose hash is not yet current.   *)
LEMMA StoreMsgKeeps ==
    ASSUME SmsgInv, NEW n \in Nodes, StoreMsg(n)
    PROVE  SmsgInv'
<1>1. /\ handler[n].op = "receive"
      /\ UNCHANGED <<fSecMsgEnabled, disabling, sendQueue, pow, ticker, peers, old, unsent, events,
                     overdue, scanned>>
  BY DEF StoreMsg
<1>2. /\ handler[n] \in [op : {"receive"}, bucket : Buckets, bunch : SUBSET Msgs]
      /\ handler[n].bunch \subseteq In(handler[n].bucket)
  BY <1>1, Receives DEF SmsgInv
<1>3. missed' \in BOOLEAN
  BY DEF StoreMsg, SmsgInv, FlagsOK
<1>4. PeersOK' /\ NetOK' /\ OffOK' /\ FlagsOK'
  BY <1>1, <1>3 DEF SmsgInv, FlagsOK, PeersOK, NetOK, OffOK, peers
<1>5. PICK left \in SUBSET handler[n].bunch : handler' = [handler EXCEPT ![n].bunch = left]
  BY DEF StoreMsg
<1>6. /\ handler'[n].op = "receive" /\ handler'[n].bucket = handler[n].bucket
      /\ \A x \in Nodes \ {n} : handler'[x] = handler[x]
  <2>1. /\ [handler[n] EXCEPT !.bunch = left] \in Doing
        /\ [handler[n] EXCEPT !.bunch = left].op = "receive"
        /\ [handler[n] EXCEPT !.bunch = left].bucket = handler[n].bucket
    BY <1>2 DEF Doing
  <2> QED
    BY <1>5, <2>1 DEF SmsgInv, HandlerOK
<1>7. HandlerOK'
  <2>1. handler' \in [Nodes -> Doing]
    <3>1. [handler[n] EXCEPT !.bunch = left] \in Doing
      BY <1>2 DEF Doing
    <3> QED
      BY <1>5, <3>1 DEF SmsgInv, HandlerOK
  <2> QED
    BY <1>6, <2>1 DEF SmsgInv, HandlerOK
<1>8. CASE UNCHANGED store
  <2>1. StoreOK' /\ SentOK' /\ PeersAreTold'
    BY <1>1, <1>6, <1>8 DEF SmsgInv, StoreOK, SentOK, PeersAreTold, store, peers
  <2>2. HashIsCurrent' /\ TokensAreStored'
    BY <1>1, <1>6, <1>8 DEF SmsgInv, HashIsCurrent, TokensAreStored, Tokens, Receiving, store
  <2> QED
    BY <1>4, <1>7, <2>1, <2>2 DEF SmsgInv
<1>9. ASSUME NEW m \in handler[n].bunch, Put(n, m)
      PROVE  SmsgInv'
  <2> DEFINE b == handler[n].bucket
             new == Holding(smsgBuckets[n][b], Tokens(n, b) \cup {m})
  <2>1. m \in Msgs /\ BucketOf[m] = b /\ b \in Buckets
    BY <1>2, <1>9 DEF In
  <2>2. smsgBuckets[n][b] \in Bucket /\ smsgBuckets[n] \in [Buckets -> Bucket]
        /\ Tokens(n, b) \cup {m} \in SUBSET Msgs
    BY <2>1 DEF SmsgInv, StoreOK, Tokens, Bucket
  <2>3. new \in Bucket /\ new.setTokens = Tokens(n, b) \cup {m} /\ new.hash = smsgBuckets[n][b].hash
    BY <2>2, BucketFields
  <2>4. BucketIs(n, b, new)
    BY <1>9, <2>1, <2>2 DEF Put, BucketIs, Holding, Tokens, SmsgInv, StoreOK
  <2> HIDE DEF new
  <2>5. /\ smsgBuckets' \in [Nodes -> [Buckets -> Bucket]]
        /\ smsgBuckets'[n][b] = new
        /\ \A x \in Nodes : \A c \in Buckets :
              x # n \/ c # b => smsgBuckets'[x][c] = smsgBuckets[x][c]
    <3>1. StoreOK
      BY DEF SmsgInv
    <3> QED
      BY <2>1, <2>3, <2>4, <3>1, BucketChange
  <2>6. TokensAreStored' /\ StoreOK'
    <3>1. FileGets(n, m)
      BY <1>9 DEF Put, FileGets
    <3> QED
      BY <1>1, <2>1, <2>3, <2>5, <3>1, PutKeepsFiles DEF StoreOK
  <2>7. \A x \in Nodes : \A c \in Buckets : smsgBuckets'[x][c].hash = smsgBuckets[x][c].hash
    BY <2>3, <2>5
  <2>8. SentOK' /\ PeersAreTold'
    <3>1. SentOK /\ PeersAreTold /\ smsgData' = smsgData
      BY <1>1 DEF SmsgInv, peers
    <3>2. PeersAreTold'
      BY <2>7, <3>1 DEF PeersAreTold
    <3>3. SentOK'
      BY <1>6, <2>7, <3>1 DEF SentOK
    <3> QED
      BY <3>2, <3>3
  <2>9. HashIsCurrent'
    BY <1>1, <1>6, <2>5 DEF SmsgInv, HashIsCurrent, Tokens, Receiving
  <2> QED
    BY <1>4, <1>7, <2>6, <2>8, <2>9 DEF SmsgInv
<1> QED
  BY <1>8, <1>9 DEF StoreMsg

(* Where hashes change the buckets become due, now and for an announcement *)
(* that is being made.                                                     *)
SinceKept(n, bs) ==
    \A x \in Nodes : handler'[x].op = "end" =>
        /\ handler[x].op = "end" /\ handler'[x].peer = handler[x].peer
        /\ handler[x].since \subseteq handler'[x].since
        /\ x = n => bs \subseteq handler'[x].since

LEMMA HashesChange ==
    ASSUME SmsgInv, NEW n \in Nodes, NEW bs \in SUBSET Buckets, Changed(n, bs), SinceKept(n, bs),
           \A x \in Nodes : \A c \in Buckets :
              (x = n /\ c \in bs) \/ smsgBuckets'[x][c].hash \in {{}, smsgBuckets[x][c].hash}
    PROVE  PeersOK' /\ PeersAreTold' /\ SentOK'
<1>1. /\ PeersOK'
      /\ \A q \in Peers(n) : /\ smsgData'[n][q].due = smsgData[n][q].due \cup bs
                             /\ smsgData'[n][q].told = smsgData[n][q].told
      /\ \A x \in Nodes \ {n} : smsgData'[x] = smsgData[x]
  BY ChangedKeeps DEF SmsgInv
<1>2. ASSUME NEW x \in Nodes, NEW y \in Peers(x), NEW c \in Buckets \ smsgData'[x][y].due
      PROVE  smsgBuckets'[x][c].hash \in {{}, smsgData'[x][y].told[c]}
  <2>1. c \notin smsgData[x][y].due /\ smsgData'[x][y].told = smsgData[x][y].told
        /\ ~(x = n /\ c \in bs)
    BY <1>1, <1>2
  <2> QED
    BY <2>1 DEF SmsgInv, PeersAreTold
<1>3. ASSUME NEW x \in Nodes, handler'[x].op = "end", NEW c \in Buckets \ handler'[x].since
      PROVE  smsgBuckets'[x][c].hash \in {{}, smsgData'[x][handler'[x].peer].told[c]}
  <2>1. /\ handler[x].op = "end" /\ handler'[x].peer = handler[x].peer
        /\ c \in Buckets \ handler[x].since /\ ~(x = n /\ c \in bs)
    BY <1>3 DEF SinceKept
  <2>2. handler[x].peer \in Peers(x)
    BY <2>1 DEF SmsgInv, HandlerOK
  <2>3. smsgData'[x][handler[x].peer].told = smsgData[x][handler[x].peer].told
    BY <1>1, <2>2
  <2> QED
    BY <2>1, <2>3 DEF SmsgInv, SentOK
<1> QED
  BY <1>1, <1>2, <1>3 DEF PeersAreTold, SentOK

LEMMA SinceGrows ==
    ASSUME HandlerOK, NEW n \in Nodes, NEW bs \in SUBSET Buckets, KeepSince(n, bs)
    PROVE  /\ HandlerOK' /\ SinceKept(n, bs)
           /\ \A x \in Nodes :
                 handler[x].op \notin {"begin", "end"} \/ handler'[x].op \notin {"begin", "end"}
                 => handler'[x] = handler[x]
<1>1. CASE handler[n].op \in {"begin", "end"}
  <2> DEFINE new == [handler[n] EXCEPT !.since = @ \cup bs, !.again = @ \ bs]
  <2>1. handler[n] \in [op : {"begin", "end"}, peer : Nodes, since : SUBSET Buckets,
                        again : SUBSET Buckets]
    BY <1>1, Sending
  <2>2. /\ new \in [op : {"begin", "end"}, peer : Nodes, since : SUBSET Buckets,
                    again : SUBSET Buckets]
        /\ new.op = handler[n].op /\ new.peer = handler[n].peer
        /\ new.since = handler[n].since \cup bs
    BY <2>1
  <2>3. new \in Doing
    BY <2>2 DEF Doing
  <2>4. handler' = [handler EXCEPT ![n] = new]
    BY <1>1, <2>1 DEF KeepSince, HandlerOK
  <2> HIDE DEF new
  <2>5. /\ handler' \in [Nodes -> Doing] /\ handler'[n] = new
        /\ \A x \in Nodes \ {n} : handler'[x] = handler[x]
    BY <2>3, <2>4 DEF HandlerOK
  <2>6. HandlerOK'
    BY <1>1, <2>2, <2>5 DEF HandlerOK
  <2> QED
    BY <1>1, <2>2, <2>5, <2>6 DEF SinceKept
<1>2. CASE handler[n].op \notin {"begin", "end"}
  BY <1>2 DEF KeepSince, HandlerOK, SinceKept
<1> QED
  BY <1>1, <1>2

(* The hash of the bucket is made current, and the peers will be told.     *)
LEMMA EndReceiveKeeps ==
    ASSUME SmsgInv, NEW n \in Nodes, EndReceive(n)
    PROVE  SmsgInv'
<1> DEFINE b == handler[n].bucket
           bs == IF Tokens(n, b) = smsgBuckets[n][b].hash THEN {} ELSE {b}
           new == Hashed(NoBucket, Tokens(n, b))
<1>1. /\ handler[n].op = "receive" /\ handler' = [handler EXCEPT ![n] = Idle]
      /\ UNCHANGED <<fSecMsgEnabled, disabling, smsgStore, sendQueue, pow, ticker, net, old,
                     unsent, events, history>>
      /\ Changed(n, bs)
  BY DEF EndReceive, hashBucket
<1>2. b \in Buckets
  BY <1>1, Receives DEF SmsgInv
<1>3. smsgBuckets[n][b] \in Bucket /\ Tokens(n, b) \in SUBSET Msgs
  BY <1>2 DEF SmsgInv, StoreOK, Bucket, Tokens
<1>4. BucketIs(n, b, new)
  BY <1>2 DEF EndReceive, BucketIs, Hashed, SmsgInv, StoreOK
<1>5. new \in Bucket /\ new.setTokens = Tokens(n, b) /\ new.hash = Tokens(n, b)
  BY <1>3, NoBucketIsBucket, BucketFields
<1>6. bs \in SUBSET Buckets
  BY <1>2
<1>7. b \in bs \/ smsgBuckets[n][b].hash = Tokens(n, b)
  OBVIOUS
<1> HIDE DEF new, bs
<1>8. /\ smsgBuckets' \in [Nodes -> [Buckets -> Bucket]]
      /\ smsgBuckets'[n][b] = new
      /\ \A x \in Nodes : \A c \in Buckets :
            x # n \/ c # b => smsgBuckets'[x][c] = smsgBuckets[x][c]
  <2>1. StoreOK
    BY DEF SmsgInv
  <2> QED
    BY <1>2, <1>4, <1>5, <2>1, BucketChange
<1>9. /\ handler' \in [Nodes -> Doing] /\ handler'[n].op = "idle"
      /\ \A x \in Nodes \ {n} : handler'[x] = handler[x]
  BY <1>1 DEF SmsgInv, HandlerOK, Doing, Idle
<1>10. FlagsOK' /\ StoreOK' /\ OffOK' /\ NetOK' /\ HandlerOK'
  BY <1>1, <1>8, <1>9 DEF SmsgInv, FlagsOK, StoreOK, OffOK, NetOK, HandlerOK, history
<1>11. PeersOK' /\ PeersAreTold' /\ SentOK'
  <2>1. SinceKept(n, bs)
    BY <1>9 DEF SinceKept, SmsgInv, HandlerOK
  <2>2. \A x \in Nodes : \A c \in Buckets :
           (x = n /\ c \in bs) \/ smsgBuckets'[x][c].hash \in {{}, smsgBuckets[x][c].hash}
    BY <1>5, <1>7, <1>8
  <2> QED
    BY <1>1, <1>6, <2>1, <2>2, HashesChange
<1>12. TokensAreStored'
  <2>1. \A x \in Nodes : \A c \in Buckets :
           smsgBuckets'[x][c].setTokens = smsgBuckets[x][c].setTokens
    BY <1>5, <1>8 DEF Tokens
  <2> QED
    BY <1>1, <2>1 DEF SmsgInv, TokensAreStored, Tokens, history
<1>13. HashIsCurrent'
  <2>1. ASSUME NEW x \in Nodes, NEW c \in Buckets, ~Receiving(x, c)'
        PROVE  smsgBuckets'[x][c].hash = smsgBuckets'[x][c].setTokens
    <3>1. CASE x = n /\ c = b
      BY <1>5, <1>8, <3>1
    <3>2. CASE x = n /\ c # b
      BY <1>1, <1>8, <3>2 DEF SmsgInv, HashIsCurrent, Tokens, Receiving
    <3>3. CASE x # n
      BY <1>8, <1>9, <2>1, <3>3 DEF SmsgInv, HashIsCurrent, Tokens, Receiving
    <3> QED
      BY <3>1, <3>2, <3>3
  <2> QED
    BY <2>1 DEF HashIsCurrent, Tokens
<1> QED
  BY <1>10, <1>11, <1>12, <1>13 DEF SmsgInv

-----------------------------------------------------------------------------
(* ThreadSecureMsg and ThreadSecureMsgPow.                                 *)

LEMMA WakeKeeps ==
    ASSUME SmsgInv, NEW n \in Nodes, Wake(n)
    PROVE  SmsgInv'
<1>1. /\ ticker[n] = Asleep /\ fSecMsgEnabled[n]
      /\ ticker' = [ticker EXCEPT ![n].at = "awake"]
      /\ UNCHANGED <<fSecMsgEnabled, disabling, store, sendQueue, pow, handler, peers, old,
                     unsent, events, history>>
  BY DEF Wake
<1>2. FlagsOK' /\ OffOK'
  BY <1>1 DEF SmsgInv, FlagsOK, OffOK, history
<1>3. StoreOK' /\ PeersOK' /\ NetOK' /\ HandlerOK'
  BY <1>1 DEF SmsgInv, StoreOK, PeersOK, NetOK, HandlerOK, store, peers
<1>4. HashIsCurrent' /\ TokensAreStored' /\ PeersAreTold' /\ SentOK'
  BY <1>1 DEF SmsgInv, HashIsCurrent, TokensAreStored, PeersAreTold, SentOK, Tokens, Receiving,
     store, peers, history
<1> QED
  BY <1>2, <1>3, <1>4 DEF SmsgInv

LEMMA EraseQueuedKeeps ==
    ASSUME SmsgInv, NEW n \in Nodes, NEW m \in Msgs, EraseQueued(n, m)
    PROVE  SmsgInv'
<1>1. /\ sendQueue' = [sendQueue EXCEPT ![n] = @ \ {m}]
      /\ pow' = [pow EXCEPT ![n] = m]
      /\ UNCHANGED <<fSecMsgEnabled, disabling, store, ticker, handler, peers, old, unsent, events,
                     history>>
  BY DEF EraseQueued
<1>2. FlagsOK' /\ OffOK'
  BY <1>1 DEF SmsgInv, FlagsOK, OffOK, history
<1>3. StoreOK' /\ PeersOK' /\ NetOK' /\ HandlerOK'
  BY <1>1 DEF SmsgInv, StoreOK, PeersOK, NetOK, HandlerOK, store, peers
<1>4. HashIsCurrent' /\ TokensAreStored' /\ PeersAreTold' /\ SentOK'
  BY <1>1 DEF SmsgInv, HashIsCurrent, TokensAreStored, PeersAreTold, SentOK, Tokens, Receiving,
     store, peers, history
<1> QED
  BY <1>2, <1>3, <1>4 DEF SmsgInv

BucketGets(n, b, tokens) ==
    smsgBuckets' = [smsgBuckets EXCEPT ![n][b].setTokens = tokens, ![n][b].hash = tokens]

(* A message goes from the queue into its bucket, whose hash is made       *)
(* current.                                                                *)
LEMMA QueuedIsStored ==
    ASSUME SmsgInv, NEW n \in Nodes, NEW m \in Msgs, NEW b \in Buckets, b = BucketOf[m],
           NEW tokens, tokens = Tokens(n, b) \cup {m},
           NEW bs \in SUBSET {b}, b \in bs \/ smsgBuckets[n][b].hash = tokens,
           BucketGets(n, b, tokens), FileGets(n, m), Changed(n, bs), KeepSince(n, {b}),
           UNCHANGED <<fSecMsgEnabled, scanned>>
    PROVE  /\ StoreOK' /\ PeersOK' /\ HandlerOK'
           /\ HashIsCurrent' /\ TokensAreStored' /\ PeersAreTold' /\ SentOK'
<1> DEFINE new == Hashed(smsgBuckets[n][b], tokens)
<1>1. smsgBuckets[n][b] \in Bucket /\ smsgBuckets[n] \in [Buckets -> Bucket]
      /\ tokens \in SUBSET Msgs
  BY DEF SmsgInv, StoreOK, Bucket, Tokens
<1>2. new \in Bucket /\ new.setTokens = tokens /\ new.hash = tokens
  BY <1>1, BucketFields
<1>3. BucketIs(n, b, new)
  BY <1>1 DEF BucketGets, BucketIs, Hashed, Bucket, SmsgInv, StoreOK
<1> HIDE DEF new
<1>4. /\ smsgBuckets' \in [Nodes -> [Buckets -> Bucket]]
      /\ smsgBuckets'[n][b] = new
      /\ \A x \in Nodes : \A c \in Buckets :
            x # n \/ c # b => smsgBuckets'[x][c] = smsgBuckets[x][c]
  <2>1. StoreOK
    BY DEF SmsgInv
  <2> QED
    BY <1>2, <1>3, <2>1, BucketChange
<1>5. TokensAreStored' /\ StoreOK'
  <2>1. smsgBuckets'[n][BucketOf[m]].setTokens = Tokens(n, BucketOf[m]) \cup {m}
    BY <1>2, <1>4
  <2>2. \A x \in Nodes : \A c \in Buckets :
           x # n \/ c # BucketOf[m] => smsgBuckets'[x][c] = smsgBuckets[x][c]
    BY <1>4
  <2>3. TokensAreStored' /\ smsgStore' \in [Nodes -> SUBSET Msgs]
    BY <2>1, <2>2, PutKeepsFiles
  <2> QED
    BY <1>4, <2>3 DEF StoreOK
<1>6. /\ HandlerOK' /\ SinceKept(n, {b})
      /\ \A x \in Nodes : handler[x].op = "receive" \/ handler'[x].op = "receive" =>
            handler'[x] = handler[x]
  <2>1. HandlerOK /\ {b} \in SUBSET Buckets
    BY DEF SmsgInv
  <2> QED
    BY <2>1, SinceGrows
<1>7. PeersOK' /\ PeersAreTold' /\ SentOK'
  <2>1. SinceKept(n, bs)
    BY <1>6 DEF SinceKept
  <2>2. \A x \in Nodes : \A c \in Buckets :
           (x = n /\ c \in bs) \/ smsgBuckets'[x][c].hash \in {{}, smsgBuckets[x][c].hash}
    BY <1>2, <1>4
  <2>3. bs \in SUBSET Buckets
    OBVIOUS
  <2> QED
    BY <2>1, <2>2, <2>3, HashesChange
<1>8. HashIsCurrent'
  <2>1. ASSUME NEW x \in Nodes, NEW c \in Buckets, ~Receiving(x, c)'
        PROVE  smsgBuckets'[x][c].hash = smsgBuckets'[x][c].setTokens
    <3>1. CASE x = n /\ c = b
      BY <1>2, <1>4, <3>1
    <3>2. CASE x # n \/ c # b
      <4>1. ~Receiving(x, c)
        BY <1>6, <2>1 DEF Receiving
      <4> QED
        BY <1>4, <3>2, <4>1 DEF SmsgInv, HashIsCurrent, Tokens
    <3> QED
      BY <3>1, <3>2
  <2> QED
    BY <2>1 DEF HashIsCurrent, Tokens
<1> QED
  BY <1>5, <1>6, <1>7, <1>8

LEMMA StoreQueuedKeeps ==
    ASSUME SmsgInv, NEW n \in Nodes, StoreQueued(n)
    PROVE  SmsgInv'
<1>1. /\ pow[n] # None /\ pow' = [pow EXCEPT ![n] = None]
      /\ UNCHANGED <<fSecMsgEnabled, disabling, sendQueue, ticker, net, old, unsent, events, history>>
  BY DEF StoreQueued
<1>2. PICK m \in Msgs, b \in Buckets, tokens \in SUBSET Msgs :
         m = pow[n] /\ b = BucketOf[m] /\ tokens = Tokens(n, b) \cup {m}
  <2>1. pow[n] \in Msgs /\ BucketOf[pow[n]] \in Buckets
    BY <1>1, SmsgAssumption DEF SmsgInv, FlagsOK, SmsgAssumption
  <2>2. Tokens(n, BucketOf[pow[n]]) \cup {pow[n]} \in SUBSET Msgs
    BY <2>1 DEF SmsgInv, StoreOK, Bucket, Tokens
  <2> QED
    BY <2>1, <2>2
<1>3. FlagsOK' /\ OffOK' /\ NetOK'
  BY <1>1 DEF SmsgInv, FlagsOK, OffOK, NetOK, history
<1>4. CASE UNCHANGED <<store, smsgData, handler>>
  <2>1. StoreOK' /\ PeersOK' /\ HandlerOK'
    BY <1>4 DEF SmsgInv, StoreOK, PeersOK, HandlerOK, store
  <2>2. HashIsCurrent' /\ TokensAreStored' /\ PeersAreTold' /\ SentOK'
    BY <1>1, <1>4 DEF SmsgInv, HashIsCurrent, TokensAreStored, PeersAreTold, SentOK, Tokens,
       Receiving, store, history
  <2> QED
    BY <1>3, <2>1, <2>2 DEF SmsgInv
<1>5. ASSUME BucketGets(n, b, tokens), FileGets(n, m), hashBucket(n, b, tokens), KeepSince(n, {b})
      PROVE  SmsgInv'
  <2>1. PICK bs \in SUBSET {b} :
           Changed(n, bs) /\ (b \in bs \/ smsgBuckets[n][b].hash = tokens)
    BY <1>5 DEF hashBucket
  <2>2. UNCHANGED <<fSecMsgEnabled, scanned>>
    BY <1>1 DEF history
  <2> QED
    BY <1>2, <1>3, <1>5, <2>1, <2>2, QueuedIsStored DEF SmsgInv
<1> QED
  BY <1>2, <1>4, <1>5 DEF StoreQueued, FileGets, BucketGets

(* Old buckets lose their messages and their files.                        *)
LEMMA TickKeeps ==
    ASSUME SmsgInv, NEW n \in Nodes, Tick(n)
    PROVE  SmsgInv'
<1> DEFINE ending == Ending(n)
           gone == {smsgBuckets[n][b].nLockPeerId : b \in ending} \ {None}
<1>1. /\ ticker[n].at = "awake" /\ ~disabling[n]
      /\ ticker' = [ticker EXCEPT ![n] = [at |-> "report", timedOut |-> gone]]
      /\ overdue' = [overdue EXCEPT ![n] = @ \cup ending]
      /\ missed' \in BOOLEAN /\ events' \in 0 .. MaxEvents
      /\ UNCHANGED <<fSecMsgEnabled, disabling, sendQueue, pow, handler, peers, old, unsent, scanned>>
  <2>1. missed' \in BOOLEAN /\ events' \in 0 .. MaxEvents
    <3>1. events \in 0 .. MaxEvents /\ missed \in BOOLEAN
      BY DEF SmsgInv, FlagsOK
    <3>2. events' \in 0 .. MaxEvents
      <4>1. (events < MaxEvents /\ events' = events + 1) \/ events' = events
        BY DEF Tick, Event
      <4> QED
        BY <3>1, <4>1, SmsgAssumption DEF SmsgAssumption
    <3>3. missed' = (missed \/ ending # {})
      BY DEF Tick
    <3> HIDE DEF ending
    <3> QED
      BY <3>1, <3>2, <3>3
  <2> QED
    BY <2>1 DEF Tick
<1>2. \A b \in Buckets : smsgBuckets[n][b] \in Bucket
  BY DEF SmsgInv, StoreOK
<1>3. gone \in SUBSET Nodes /\ ending \in SUBSET Buckets
  BY <1>2 DEF Bucket, Ending
<1>4. /\ smsgBuckets' = [x \in Nodes |-> smsgBuckets'[x]]
      /\ smsgBuckets'[n] = [b \in Buckets |-> AfterTurn(n, b)]
      /\ \A x \in Nodes \ {n} : smsgBuckets'[x] = smsgBuckets[x]
  <2>1. smsgBuckets[n] \in [Buckets -> Bucket]
    BY DEF SmsgInv, StoreOK
  <2>2. smsgBuckets' = [smsgBuckets EXCEPT ![n] = [b \in Buckets |-> AfterTurn(n, b)]]
    BY DEF Tick
  <2> QED
    BY <2>2 DEF SmsgInv, StoreOK
<1>5. ASSUME NEW b \in Buckets
      PROVE  /\ AfterTurn(n, b) \in Bucket
             /\ b \in old[n] => AfterTurn(n, b).setTokens = {} /\ AfterTurn(n, b).hash = {}
             /\ b \notin old[n] => /\ AfterTurn(n, b).setTokens = smsgBuckets[n][b].setTokens
                                   /\ AfterTurn(n, b).hash = smsgBuckets[n][b].hash
  <2>1. TurnsLeft(n, b) \in 0 .. LockTicks
    BY <1>2, SmsgAssumption DEF TurnsLeft, IsLocked, Bucket, SmsgAssumption
  <2>2. (IF b \in ending THEN None ELSE smsgBuckets[n][b].nLockPeerId) \in Nodes \cup {None}
    BY <1>2 DEF Bucket
  <2>3. CASE b \in old[n]
    BY <2>3, NoBucketIsBucket DEF AfterTurn
  <2>4. CASE b \notin old[n]
    <3>1. AfterTurn(n, b) = Locked(smsgBuckets[n][b], TurnsLeft(n, b),
             IF b \in Ending(n) THEN None ELSE smsgBuckets[n][b].nLockPeerId)
      BY <2>4 DEF AfterTurn, Locked
    <3> QED
      BY <1>2, <2>1, <2>2, <2>4, <3>1, BucketFields
  <2> QED
    BY <2>3, <2>4
<1>6. smsgBuckets' \in [Nodes -> [Buckets -> Bucket]]
  BY <1>4, <1>5 DEF SmsgInv, StoreOK
<1>7. /\ smsgStore' \in [Nodes -> SUBSET Msgs]
      /\ smsgStore'[n] = {m \in smsgStore[n] : BucketOf[m] \notin old[n]}
      /\ \A x \in Nodes \ {n} : smsgStore'[x] = smsgStore[x]
  BY DEF Tick, SmsgInv, StoreOK
<1> HIDE DEF gone, ending
<1>8. FlagsOK' /\ OffOK'
  <2>1. [at |-> "report", timedOut |-> gone] \in
           [at : {"asleep", "awake", "report"}, timedOut : SUBSET Nodes]
    BY <1>3
  <2>2. fSecMsgEnabled[n]
    BY <1>1 DEF SmsgInv, OffOK
  <2> QED
    BY <1>1, <1>3, <2>1, <2>2 DEF SmsgInv, FlagsOK, OffOK
<1>9. PeersOK' /\ NetOK' /\ HandlerOK' /\ StoreOK'
  BY <1>1, <1>6, <1>7 DEF SmsgInv, PeersOK, NetOK, HandlerOK, StoreOK, peers
<1>10. \A x \in Nodes : \A c \in Buckets :
          smsgBuckets'[x][c].hash \in {{}, smsgBuckets[x][c].hash}
  BY <1>4, <1>5
<1>11. PeersAreTold' /\ SentOK'
  BY <1>1, <1>10 DEF SmsgInv, PeersAreTold, SentOK, peers
<1>12. HashIsCurrent'
  <2>1. ASSUME NEW x \in Nodes, NEW c \in Buckets, ~Receiving(x, c)
        PROVE  smsgBuckets'[x][c].hash = smsgBuckets'[x][c].setTokens
    <3>1. smsgBuckets[x][c].hash = smsgBuckets[x][c].setTokens
      BY <2>1 DEF SmsgInv, HashIsCurrent, Tokens
    <3> QED
      BY <1>4, <1>5, <3>1
  <2> QED
    BY <1>1, <2>1 DEF HashIsCurrent, Tokens, Receiving
<1>13. TokensAreStored'
  <2>1. ASSUME NEW x \in Nodes, NEW c \in Buckets \ scanned[x]
        PROVE  /\ smsgBuckets'[x][c].setTokens \subseteq smsgStore'[x]
               /\ fSecMsgEnabled[x] => smsgBuckets'[x][c].setTokens = smsgStore'[x] \cap In(c)
    <3>1. /\ smsgBuckets[x][c].setTokens \subseteq smsgStore[x]
          /\ fSecMsgEnabled[x] => smsgBuckets[x][c].setTokens = smsgStore[x] \cap In(c)
      BY <2>1 DEF SmsgInv, TokensAreStored, Tokens
    <3>2. CASE x # n
      BY <1>4, <1>7, <3>1, <3>2
    <3>3. CASE x = n /\ c \in old[n]
      <4>1. smsgStore'[n] \cap In(c) = {}
        BY <1>7, <3>3 DEF In
      <4> QED
        BY <1>4, <1>5, <3>3, <4>1
    <3>4. CASE x = n /\ c \notin old[n]
      <4>1. smsgStore'[n] \cap In(c) = smsgStore[n] \cap In(c)
        BY <1>7, <3>4 DEF In
      <4>2. fSecMsgEnabled[n]
        BY <1>1 DEF SmsgInv, OffOK
      <4> QED
        BY <1>4, <1>5, <3>1, <3>4, <4>1, <4>2
    <3> QED
      BY <3>2, <3>3, <3>4
  <2> QED
    BY <1>1, <2>1 DEF TokensAreStored, Tokens
<1> QED
  BY <1>8, <1>9, <1>11, <1>12, <1>13 DEF SmsgInv

(* What a node keeps of all its peers, and sends to all of them.           *)
AllKept(n, f) == smsgData' = [smsgData EXCEPT ![n] = f]
AllSent(n, f) == net' = [net EXCEPT ![n] = f]

LEMMA AllPeersChange ==
    ASSUME PeersOK, NEW n \in Nodes, NEW f \in [Peers(n) -> PeerData], AllKept(n, f),
           \A q \in Peers(n) : f[q].due = smsgData[n][q].due /\ f[q].told = smsgData[n][q].told
    PROVE  PeersOK' /\ SameTold
<1>1. /\ smsgData' = [x \in Nodes |-> smsgData'[x]] /\ smsgData'[n] = f
      /\ \A x \in Nodes \ {n} : smsgData'[x] = smsgData[x]
  BY DEF PeersOK, AllKept
<1>2. \A x \in Nodes : smsgData'[x] \in [Peers(x) -> PeerData]
  BY <1>1 DEF PeersOK
<1> QED
  BY <1>1, <1>2 DEF PeersOK, SameTold

LEMMA AllNetChange ==
    ASSUME NetOK, NEW n \in Nodes, NEW f \in [Peers(n) -> Seq(Message)], AllSent(n, f)
    PROVE  NetOK'
<1>1. /\ net' = [x \in Nodes |-> net'[x]] /\ net'[n] = f
      /\ \A x \in Nodes \ {n} : net'[x] = net[x]
  BY DEF NetOK, AllSent
<1>2. \A x \in Nodes : net'[x] \in [Peers(x) -> Seq(Message)]
  BY <1>1 DEF NetOK
<1> QED
  BY <1>1, <1>2 DEF NetOK

LEMMA AppendKeeps ==
    ASSUME NEW s \in Seq(Message), NEW msg \in Message
    PROVE  Append(s, msg) \in Seq(Message)
OBVIOUS

LEMMA ReportKeeps ==
    ASSUME SmsgInv, NEW n \in Nodes, Report(n)
    PROVE  SmsgInv'
<1> DEFINE gone == ticker[n].timedOut
           Kept(q) == IF q \in gone THEN [smsgData[n][q] EXCEPT !.ignoring = TRUE] ELSE smsgData[n][q]
           Sent(q) == IF q \in gone THEN Append(net[n][q], [type |-> "smsgIgnore"]) ELSE net[n][q]
           kept == [q \in Peers(n) |-> Kept(q)]
           sent == [q \in Peers(n) |-> Sent(q)]
<1>1. /\ ticker' = [ticker EXCEPT ![n] = Asleep]
      /\ UNCHANGED <<fSecMsgEnabled, disabling, store, sendQueue, pow, handler, old, unsent, events,
                     history>>
  BY DEF Report
<1>2. AllKept(n, kept) /\ AllSent(n, sent)
  BY DEF Report, AllKept, AllSent
<1>3. ASSUME NEW q \in Peers(n)
      PROVE  /\ Kept(q) \in PeerData /\ Kept(q).due = smsgData[n][q].due
             /\ Kept(q).told = smsgData[n][q].told
             /\ Sent(q) \in Seq(Message)
  <2>1. smsgData[n][q] \in PeerData /\ net[n][q] \in Seq(Message)
    BY DEF SmsgInv, PeersOK, NetOK
  <2>2. [type |-> "smsgIgnore"] \in Message
    BY SimpleMessages
  <2> QED
    BY <2>1, <2>2, PeerFields, AppendKeeps
<1> HIDE DEF Kept, Sent
<1>4. PeersOK' /\ SameTold /\ NetOK'
  <2>1. kept \in [Peers(n) -> PeerData] /\ sent \in [Peers(n) -> Seq(Message)]
    BY <1>3
  <2>2. \A q \in Peers(n) :
           kept[q].due = smsgData[n][q].due /\ kept[q].told = smsgData[n][q].told
    BY <1>3
  <2> HIDE DEF kept, sent
  <2> QED
    BY <1>2, <2>1, <2>2, AllPeersChange, AllNetChange DEF SmsgInv
<1>5. FlagsOK' /\ OffOK'
  BY <1>1 DEF SmsgInv, FlagsOK, OffOK, Asleep, history
<1>6. StoreOK' /\ HandlerOK' /\ HashIsCurrent' /\ TokensAreStored'
  BY <1>1 DEF SmsgInv, StoreOK, HandlerOK, HashIsCurrent, TokensAreStored, Tokens, Receiving,
     store, history
<1>7. PeersAreTold'
  BY <1>1, <1>4 DEF SmsgInv, PeersAreTold, SameTold, store
<1>8. SentOK'
  BY <1>1, <1>4 DEF SmsgInv, SentOK, SameTold, HandlerOK, store
<1> QED
  BY <1>4, <1>5, <1>6, <1>7, <1>8 DEF SmsgInv

-----------------------------------------------------------------------------
(* What users, clocks and failures do.                                     *)

LEMMA SecureMsgSendKeeps ==
    ASSUME SmsgInv, NEW m \in Msgs, SecureMsgSend(m)
    PROVE  SmsgInv'
<1>1. /\ unsent' = unsent \ {m} /\ sendQueue' \in [Nodes -> SUBSET Msgs]
      /\ UNCHANGED <<fSecMsgEnabled, disabling, store, pow, ticker, handler, peers, old, events,
                     history>>
  BY SmsgAssumption DEF SecureMsgSend, SmsgInv, FlagsOK, SmsgAssumption
<1>2. FlagsOK' /\ OffOK'
  BY <1>1 DEF SmsgInv, FlagsOK, OffOK, history
<1>3. StoreOK' /\ PeersOK' /\ NetOK' /\ HandlerOK'
  BY <1>1 DEF SmsgInv, StoreOK, PeersOK, NetOK, HandlerOK, store, peers
<1>4. HashIsCurrent' /\ TokensAreStored' /\ PeersAreTold' /\ SentOK'
  BY <1>1 DEF SmsgInv, HashIsCurrent, TokensAreStored, PeersAreTold, SentOK, Tokens, Receiving,
     store, peers, history
<1> QED
  BY <1>2, <1>3, <1>4 DEF SmsgInv

LEMMA EventCounts ==
    ASSUME FlagsOK, Event
    PROVE  events' \in 0 .. MaxEvents
BY SmsgAssumption DEF FlagsOK, Event, SmsgAssumption

(* The files of a node go, and those that there were are noted.            *)
LEMMA ScanKeeps ==
    ASSUME SmsgInv, NEW n \in Nodes, SecureMsgScanBuckets(n)
    PROVE  SmsgInv'
<1> DEFINE gone == {BucketOf[m] : m \in smsgStore[n]}
<1>1. /\ fSecMsgEnabled[n]
      /\ scanned' = [scanned EXCEPT ![n] = @ \cup gone]
      /\ smsgStore' = [smsgStore EXCEPT ![n] = {}]
      /\ UNCHANGED <<fSecMsgEnabled, disabling, smsgBuckets, threads, peers, old, unsent,
                     overdue, missed>>
  BY DEF SecureMsgScanBuckets
<1>2. gone \in SUBSET Buckets
  BY SmsgAssumption DEF SmsgInv, StoreOK, SmsgAssumption
<1>3. \A c \in Buckets \ gone : smsgStore[n] \cap In(c) = {}
  BY DEF In
<1> HIDE DEF gone
<1>4. FlagsOK' /\ OffOK'
  <2>1. events' \in 0 .. MaxEvents
    BY EventCounts DEF SecureMsgScanBuckets, SmsgInv
  <2> QED
    BY <1>1, <1>2, <2>1 DEF SmsgInv, FlagsOK, OffOK, threads
<1>5. StoreOK' /\ PeersOK' /\ NetOK' /\ HandlerOK'
  BY <1>1 DEF SmsgInv, StoreOK, PeersOK, NetOK, HandlerOK, threads, peers
<1>6. HashIsCurrent' /\ PeersAreTold' /\ SentOK'
  BY <1>1 DEF SmsgInv, HashIsCurrent, PeersAreTold, SentOK, Tokens, Receiving, threads, peers
<1>7. TokensAreStored'
  <2>1. ASSUME NEW x \in Nodes, NEW c \in Buckets \ scanned'[x]
        PROVE  /\ smsgBuckets[x][c].setTokens \subseteq smsgStore'[x]
               /\ fSecMsgEnabled[x] => smsgBuckets[x][c].setTokens = smsgStore'[x] \cap In(c)
    <3>1. CASE x # n
      BY <1>1, <2>1, <3>1 DEF SmsgInv, FlagsOK, StoreOK, TokensAreStored, Tokens
    <3>2. CASE x = n
      <4>1. c \notin gone /\ c \notin scanned[n]
        BY <1>1, <2>1, <3>2 DEF SmsgInv, FlagsOK
      <4>2. smsgBuckets[n][c].setTokens = {}
        BY <1>1, <1>3, <4>1 DEF SmsgInv, TokensAreStored, Tokens
      <4>3. smsgStore'[n] = {}
        BY <1>1 DEF SmsgInv, StoreOK
      <4> QED
        BY <3>2, <4>2, <4>3
    <3> QED
      BY <3>1, <3>2
  <2> QED
    BY <1>1, <2>1 DEF TokensAreStored, Tokens
<1> QED
  BY <1>4, <1>5, <1>6, <1>7 DEF SmsgInv

LEMMA BeginDisableKeeps ==
    ASSUME SmsgInv, NEW n \in Nodes, BeginDisable(n)
    PROVE  SmsgInv'
<1>1. /\ fSecMsgEnabled' = [fSecMsgEnabled EXCEPT ![n] = FALSE]
      /\ disabling' = [disabling EXCEPT ![n] = TRUE]
      /\ UNCHANGED <<store, threads, peers, old, unsent, history>>
  BY DEF BeginDisable
<1>2. FlagsOK' /\ OffOK'
  <2>1. events' \in 0 .. MaxEvents
    BY EventCounts DEF BeginDisable, SmsgInv
  <2> QED
    BY <1>1, <2>1 DEF SmsgInv, FlagsOK, OffOK, threads, history
<1>3. StoreOK' /\ PeersOK' /\ NetOK' /\ HandlerOK'
  BY <1>1 DEF SmsgInv, StoreOK, PeersOK, NetOK, HandlerOK, store, threads, peers
<1>4. HashIsCurrent' /\ PeersAreTold' /\ SentOK'
  BY <1>1 DEF SmsgInv, HashIsCurrent, PeersAreTold, SentOK, Tokens, Receiving, store, threads, peers
<1>5. TokensAreStored'
  BY <1>1 DEF SmsgInv, FlagsOK, TokensAreStored, Tokens, store, history
<1> QED
  BY <1>2, <1>3, <1>4, <1>5 DEF SmsgInv

LEMMA AgeKeeps ==
    ASSUME SmsgInv, NEW n \in Nodes, NEW b \in Buckets, Age(n, b)
    PROVE  SmsgInv'
<1>1. /\ old' = [old EXCEPT ![n] = @ \cup {b}]
      /\ UNCHANGED <<fSecMsgEnabled, disabling, store, threads, peers, unsent, history>>
  BY DEF Age
<1>2. FlagsOK' /\ OffOK'
  <2>1. events' \in 0 .. MaxEvents
    BY EventCounts DEF Age, SmsgInv
  <2> QED
    BY <1>1, <2>1 DEF SmsgInv, FlagsOK, OffOK, threads, history
<1>3. StoreOK' /\ PeersOK' /\ NetOK' /\ HandlerOK'
  BY <1>1 DEF SmsgInv, StoreOK, PeersOK, NetOK, HandlerOK, store, threads, peers
<1>4. HashIsCurrent' /\ TokensAreStored' /\ PeersAreTold' /\ SentOK'
  BY <1>1 DEF SmsgInv, HashIsCurrent, TokensAreStored, PeersAreTold, SentOK, Tokens, Receiving,
     store, threads, peers, history
<1> QED
  BY <1>2, <1>3, <1>4 DEF SmsgInv

(* The buckets of a node are read anew.                                    *)
AllBuckets(n, f) == smsgBuckets' = [smsgBuckets EXCEPT ![n] = f]

LEMMA AllBucketsChange ==
    ASSUME StoreOK, NEW n \in Nodes, NEW f \in [Buckets -> Bucket], AllBuckets(n, f)
    PROVE  /\ smsgBuckets' \in [Nodes -> [Buckets -> Bucket]] /\ smsgBuckets'[n] = f
           /\ \A x \in Nodes \ {n} : smsgBuckets'[x] = smsgBuckets[x]
BY DEF StoreOK, AllBuckets

(* Messaging is off and the buckets are empty.                             *)
LEMMA EndDisableKeeps ==
    ASSUME SmsgInv, NEW n \in Nodes, EndDisable(n)
    PROVE  SmsgInv'
<1> DEFINE Kept(q) == [smsgData[n][q] EXCEPT !.fEnabled = FALSE]
           Sent(q) == IF smsgData[n][q].fEnabled THEN Append(net[n][q], [type |-> "smsgDisabled"])
                      ELSE net[n][q]
           kept == [q \in Peers(n) |-> Kept(q)]
           sent == [q \in Peers(n) |-> Sent(q)]
           empty == [b \in Buckets |-> NoBucket]
           locked == {b \in Buckets : IsLocked(n, b)}
<1>1. /\ disabling[n] /\ ticker[n] = Asleep
      /\ disabling' = [disabling EXCEPT ![n] = FALSE]
      /\ overdue' = [overdue EXCEPT ![n] = @ \cup locked]
      /\ UNCHANGED <<fSecMsgEnabled, smsgStore, threads, old, unsent, events, scanned, missed>>
  BY DEF EndDisable
<1>2. AllKept(n, kept) /\ AllSent(n, sent) /\ AllBuckets(n, empty)
  BY DEF EndDisable, AllKept, AllSent, AllBuckets
<1>3. ASSUME NEW q \in Peers(n)
      PROVE  /\ Kept(q) \in PeerData /\ Kept(q).due = smsgData[n][q].due
             /\ Kept(q).told = smsgData[n][q].told
             /\ Sent(q) \in Seq(Message)
  <2>1. smsgData[n][q] \in PeerData /\ net[n][q] \in Seq(Message)
    BY DEF SmsgInv, PeersOK, NetOK
  <2>2. [type |-> "smsgDisabled"] \in Message
    BY SimpleMessages
  <2> QED
    BY <2>1, <2>2, PeerFields, AppendKeeps
<1> HIDE DEF Kept, Sent
<1>4. PeersOK' /\ SameTold /\ NetOK'
  <2>1. kept \in [Peers(n) -> PeerData] /\ sent \in [Peers(n) -> Seq(Message)]
    BY <1>3
  <2>2. \A q \in Peers(n) :
           kept[q].due = smsgData[n][q].due /\ kept[q].told = smsgData[n][q].told
    BY <1>3
  <2> HIDE DEF kept, sent
  <2> QED
    BY <1>2, <2>1, <2>2, AllPeersChange, AllNetChange DEF SmsgInv
<1> HIDE DEF kept, sent
<1>5. /\ smsgBuckets' \in [Nodes -> [Buckets -> Bucket]] /\ smsgBuckets'[n] = empty
      /\ \A x \in Nodes \ {n} : smsgBuckets'[x] = smsgBuckets[x]
  <2>1. empty \in [Buckets -> Bucket] /\ StoreOK
    BY NoBucketIsBucket DEF SmsgInv
  <2> HIDE DEF empty
  <2> QED
    BY <1>2, <2>1, AllBucketsChange
<1>6. \A b \in Buckets : smsgBuckets'[n][b].setTokens = {} /\ smsgBuckets'[n][b].hash = {}
  BY <1>5, NoBucketIsBucket
<1> HIDE DEF empty
<1>7. FlagsOK' /\ OffOK'
  <2>1. locked \in SUBSET Buckets
    OBVIOUS
  <2> HIDE DEF locked
  <2> QED
    BY <1>1, <2>1 DEF SmsgInv, FlagsOK, OffOK, Asleep, threads
<1>8. StoreOK' /\ HandlerOK'
  BY <1>1, <1>5 DEF SmsgInv, StoreOK, HandlerOK, threads
<1>9. \A x \in Nodes : \A c \in Buckets :
         smsgBuckets'[x][c].hash \in {{}, smsgBuckets[x][c].hash}
  BY <1>5, <1>6
<1>10. PeersAreTold'
  BY <1>4, <1>9 DEF SmsgInv, PeersAreTold, SameTold
<1>11. SentOK'
  <2>1. ASSUME NEW x \in Nodes, handler[x].op = "end", NEW c \in Buckets \ handler[x].since
        PROVE  smsgBuckets'[x][c].hash \in {{}, smsgData'[x][handler[x].peer].told[c]}
    <3>1. handler[x].peer \in Peers(x)
      BY <2>1 DEF SmsgInv, HandlerOK
    <3>2. smsgData'[x][handler[x].peer].told = smsgData[x][handler[x].peer].told
      BY <1>4, <3>1 DEF SameTold
    <3>3. smsgBuckets[x][c].hash \in {{}, smsgData[x][handler[x].peer].told[c]}
      BY <2>1 DEF SmsgInv, SentOK
    <3> QED
      BY <1>9, <3>2, <3>3
  <2> QED
    BY <1>1, <2>1 DEF SentOK, threads
<1>12. HashIsCurrent'
  <2>1. ASSUME NEW x \in Nodes, NEW c \in Buckets, ~Receiving(x, c)
        PROVE  smsgBuckets'[x][c].hash = smsgBuckets'[x][c].setTokens
    BY <1>5, <1>6, <2>1 DEF SmsgInv, HashIsCurrent, Tokens
  <2> QED
    BY <1>1, <2>1 DEF HashIsCurrent, Tokens, Receiving, threads
<1>13. TokensAreStored'
  <2>1. ~fSecMsgEnabled[n]
    BY <1>1 DEF SmsgInv, OffOK
  <2> QED
    BY <1>1, <1>5, <1>6, <2>1 DEF SmsgInv, TokensAreStored, Tokens
<1> QED
  BY <1>4, <1>7, <1>8, <1>10, <1>11, <1>12, <1>13 DEF SmsgInv

(* A bucket that is read from its file.                                    *)
Read(files, b) == [NoBucket EXCEPT !.setTokens = files \cap In(b), !.hash = files \cap In(b)]

LEMMA ReadBuckets ==
    ASSUME NEW files \in SUBSET Msgs, NEW b \in Buckets
    PROVE  /\ Read(files, b) \in Bucket
           /\ Read(files, b).setTokens = files \cap In(b) /\ Read(files, b).hash = files \cap In(b)
<1>1. Read(files, b) = Hashed(NoBucket, files \cap In(b))
  BY DEF Read, Hashed
<1> QED
  BY <1>1, NoBucketIsBucket, BucketFields

(* The buckets are read from the files, and all of them are due.           *)
LEMMA EnableKeeps ==
    ASSUME SmsgInv, NEW n \in Nodes, SecureMsgEnable(n)
    PROVE  SmsgInv'
<1> DEFINE files == {m \in smsgStore[n] : BucketOf[m] \notin old[n]}
           fresh == [b \in Buckets |-> Read(files, b)]
           Sent(q) == net[n][q] \o <<[type |-> "smsgPing"], [type |-> "smsgPong"]>>
           sent == [q \in Peers(n) |-> Sent(q)]
<1>1. /\ ~disabling[n]
      /\ fSecMsgEnabled' = [fSecMsgEnabled EXCEPT ![n] = TRUE]
      /\ smsgStore' = [smsgStore EXCEPT ![n] = files]
      /\ Changed(n, Buckets) /\ KeepSince(n, Buckets)
      /\ overdue' = [overdue EXCEPT ![n] = @ \cup {b \in Buckets : IsLocked(n, b)}]
      /\ UNCHANGED <<disabling, sendQueue, pow, ticker, old, unsent, events, scanned, missed>>
  BY DEF SecureMsgEnable, SecureMsgBuildBucketSet
<1>2. AllSent(n, sent) /\ AllBuckets(n, fresh)
  BY DEF SecureMsgEnable, SecureMsgBuildBucketSet, AllSent, AllBuckets, Read
<1>3. files \in SUBSET Msgs
  BY DEF SmsgInv, StoreOK
<1> HIDE DEF files
<1>4. \A b \in Buckets :
         /\ fresh[b] \in Bucket
         /\ fresh[b].setTokens = files \cap In(b) /\ fresh[b].hash = files \cap In(b)
  BY <1>3, ReadBuckets
<1>5. fresh \in [Buckets -> Bucket]
  BY <1>3, ReadBuckets
<1> HIDE DEF fresh
<1>6. /\ smsgBuckets' \in [Nodes -> [Buckets -> Bucket]] /\ smsgBuckets'[n] = fresh
      /\ \A x \in Nodes \ {n} : smsgBuckets'[x] = smsgBuckets[x]
  BY <1>2, <1>5, AllBucketsChange DEF SmsgInv
<1>7. NetOK'
  <2>1. \A q \in Peers(n) : Sent(q) \in Seq(Message)
    <3>1. [type |-> "smsgPing"] \in Message /\ [type |-> "smsgPong"] \in Message
      BY SimpleMessages
    <3>2. \A q \in Peers(n) : net[n][q] \in Seq(Message)
      BY DEF SmsgInv, NetOK
    <3> QED
      BY <3>1, <3>2
  <2> HIDE DEF Sent
  <2>2. sent \in [Peers(n) -> Seq(Message)]
    BY <2>1
  <2> HIDE DEF sent
  <2> QED
    BY <1>2, <2>2, AllNetChange DEF SmsgInv
<1> HIDE DEF Sent, sent
<1>8. FlagsOK' /\ OffOK'
  BY <1>1 DEF SmsgInv, FlagsOK, OffOK
<1>9. /\ smsgStore' \in [Nodes -> SUBSET Msgs] /\ smsgStore'[n] = files
      /\ \A x \in Nodes \ {n} : smsgStore'[x] = smsgStore[x]
  BY <1>1, <1>3 DEF SmsgInv, StoreOK
<1>10. StoreOK'
  BY <1>6, <1>9 DEF StoreOK
<1>11. /\ HandlerOK' /\ SinceKept(n, Buckets)
       /\ \A x \in Nodes : handler[x].op = "receive" \/ handler'[x].op = "receive" =>
             handler'[x] = handler[x]
  <2>1. HandlerOK /\ Buckets \in SUBSET Buckets
    BY DEF SmsgInv
  <2> QED
    BY <1>1, <2>1, SinceGrows
<1>12. PeersOK' /\ PeersAreTold' /\ SentOK'
  <2>1. \A x \in Nodes : \A c \in Buckets :
           (x = n /\ c \in Buckets) \/ smsgBuckets'[x][c].hash \in {{}, smsgBuckets[x][c].hash}
    BY <1>6
  <2>2. Buckets \in SUBSET Buckets
    OBVIOUS
  <2> QED
    BY <1>1, <1>11, <2>1, <2>2, HashesChange
<1>13. HashIsCurrent'
  <2>1. ASSUME NEW x \in Nodes, NEW c \in Buckets, ~Receiving(x, c)'
        PROVE  smsgBuckets'[x][c].hash = smsgBuckets'[x][c].setTokens
    <3>1. CASE x = n
      BY <1>4, <1>6, <3>1
    <3>2. CASE x # n
      <4>1. ~Receiving(x, c)
        BY <1>11, <2>1 DEF Receiving
      <4> QED
        BY <1>6, <3>2, <4>1 DEF SmsgInv, HashIsCurrent, Tokens
    <3> QED
      BY <3>1, <3>2
  <2> QED
    BY <2>1 DEF HashIsCurrent, Tokens
<1>14. TokensAreStored'
  <2>1. ASSUME NEW x \in Nodes, NEW c \in Buckets \ scanned[x]
        PROVE  /\ smsgBuckets'[x][c].setTokens \subseteq smsgStore'[x]
               /\ fSecMsgEnabled'[x] => smsgBuckets'[x][c].setTokens = smsgStore'[x] \cap In(c)
    <3>1. CASE x = n
      BY <1>4, <1>6, <1>9, <3>1
    <3>2. CASE x # n
      <4>1. /\ smsgBuckets[x][c].setTokens \subseteq smsgStore[x]
            /\ fSecMsgEnabled[x] => smsgBuckets[x][c].setTokens = smsgStore[x] \cap In(c)
        BY <2>1 DEF SmsgInv, TokensAreStored, Tokens
      <4>2. fSecMsgEnabled'[x] = fSecMsgEnabled[x]
        BY <1>1, <3>2 DEF SmsgInv, FlagsOK
      <4> QED
        BY <1>6, <1>9, <3>2, <4>1, <4>2
    <3> QED
      BY <3>1, <3>2
  <2> QED
    BY <1>1, <2>1 DEF TokensAreStored, Tokens
<1> QED
  BY <1>7, <1>8, <1>10, <1>11, <1>12, <1>13, <1>14 DEF SmsgInv

(* New connections: the peers are as at first contact.                     *)
Cut(n, ps, x, y) == (x = n /\ y \in ps) \/ (y = n /\ x \in ps)

LEMMA ConnectChange ==
    ASSUME SmsgInv, NEW n \in Nodes, NEW ps, Connect(n, ps)
    PROVE  /\ events' \in 0 .. MaxEvents /\ NetOK' /\ PeersOK'
           /\ \A x \in Nodes : \A y \in Peers(x) :
                 smsgData'[x][y] = IF Cut(n, ps, x, y) THEN NewPeer ELSE smsgData[x][y]
<1>1. events' \in 0 .. MaxEvents
  BY EventCounts DEF Connect, SmsgInv
<1>2. net' = [x \in Nodes |-> [y \in Peers(x) |-> IF Cut(n, ps, x, y) THEN << >> ELSE net[x][y]]]
  BY DEF Connect, Cut
<1>3. smsgData' = [x \in Nodes |-> [y \in Peers(x) |->
                     IF Cut(n, ps, x, y) THEN NewPeer ELSE smsgData[x][y]]]
  BY DEF Connect, Cut
<1>4. << >> \in Seq(Message) /\ NewPeer \in PeerData
  BY DEF NewPeer, PeerData
<1>5. NetOK'
  <2>1. \A x \in Nodes : \A y \in Peers(x) : net[x][y] \in Seq(Message)
    BY DEF SmsgInv, NetOK
  <2>2. \A x \in Nodes : net'[x] \in [Peers(x) -> Seq(Message)]
    BY <1>2, <1>4, <2>1
  <2>3. net' = [x \in Nodes |-> net'[x]]
    BY <1>2
  <2> QED
    BY <2>2, <2>3 DEF NetOK
<1>6. PeersOK'
  <2>1. \A x \in Nodes : \A y \in Peers(x) : smsgData[x][y] \in PeerData
    BY DEF SmsgInv, PeersOK
  <2>2. \A x \in Nodes : smsgData'[x] \in [Peers(x) -> PeerData]
    BY <1>3, <1>4, <2>1
  <2>3. smsgData' = [x \in Nodes |-> smsgData'[x]]
    BY <1>3
  <2> QED
    BY <2>2, <2>3 DEF PeersOK
<1>7. \A x \in Nodes : \A y \in Peers(x) :
         smsgData'[x][y] = IF Cut(n, ps, x, y) THEN NewPeer ELSE smsgData[x][y]
  BY <1>3
<1> QED
  BY <1>1, <1>5, <1>6, <1>7

LEMMA OrphanedBucket ==
    ASSUME StoreOK, NEW x \in Nodes, NEW y
    PROVE  /\ Orphaned(x, y) \in [Buckets -> Bucket]
           /\ \A b \in Buckets : /\ Orphaned(x, y)[b].setTokens = smsgBuckets[x][b].setTokens
                                 /\ Orphaned(x, y)[b].hash = smsgBuckets[x][b].hash
<1> DEFINE Freed(b) == [smsgBuckets[x][b] EXCEPT !.nLockPeerId = None]
           Next(b) == IF smsgBuckets[x][b].nLockPeerId = y THEN Freed(b) ELSE smsgBuckets[x][b]
<1>1. Orphaned(x, y) = [b \in Buckets |-> Next(b)]
  BY DEF Orphaned
<1>2. ASSUME NEW b \in Buckets
      PROVE  /\ Next(b) \in Bucket /\ Next(b).setTokens = smsgBuckets[x][b].setTokens
             /\ Next(b).hash = smsgBuckets[x][b].hash
  <2>1. smsgBuckets[x][b] \in Bucket
    BY DEF StoreOK
  <2>2. /\ Freed(b) \in Bucket /\ Freed(b).setTokens = smsgBuckets[x][b].setTokens
        /\ Freed(b).hash = smsgBuckets[x][b].hash
    BY <2>1 DEF Bucket
  <2> HIDE DEF Freed
  <2> QED
    BY <2>1, <2>2
<1> HIDE DEF Next
<1> QED
  BY <1>1, <1>2

LEMMA HandlerGoesOn ==
    ASSUME HandlerOK, NEW x \in Nodes, NEW y
    PROVE  /\ HandlerWithout(x, y) \in Doing
           /\ HandlerWithout(x, y).op \in {"begin", "end", "receive"} =>
                 HandlerWithout(x, y) = handler[x]
           /\ handler[x].op = "receive" => HandlerWithout(x, y) = handler[x]
           /\ HandlerWithout(x, y).op \in {"begin", "end"} => HandlerWithout(x, y).peer # y
           /\ HandlerWithout(x, y).op \in {"have", "want"} =>
                 /\ HandlerWithout(x, y).peer \in Peers(x) \cup {None}
                 /\ HandlerWithout(x, y).op = handler[x].op
                 /\ HandlerWithout(x, y).bucket = handler[x].bucket
           /\ handler[x].op \in {"have", "want"} /\ handler[x].peer # y =>
                 HandlerWithout(x, y) = handler[x]
<1>1. handler[x] \in Doing
  BY DEF HandlerOK
<1>2. CASE handler[x].op \in {"begin", "end"} /\ handler[x].peer = y
  BY <1>2 DEF HandlerWithout, Doing, Idle
<1>3. CASE handler[x].op \in {"have", "want"} /\ handler[x].peer = y
  <2>1. HandlerWithout(x, y) = [handler[x] EXCEPT !.peer = None]
    BY <1>3 DEF HandlerWithout
  <2>2. [handler[x] EXCEPT !.peer = None] \in Doing
    BY <1>1, <1>3 DEF Doing
  <2>3. /\ [handler[x] EXCEPT !.peer = None].op = handler[x].op
        /\ [handler[x] EXCEPT !.peer = None].peer = None
        /\ [handler[x] EXCEPT !.peer = None].bucket = handler[x].bucket
    BY <1>1, <1>3 DEF Doing
  <2> QED
    BY <1>3, <2>1, <2>2, <2>3
<1>4. CASE ~(handler[x].op \in {"begin", "end", "have", "want"} /\ handler[x].peer = y)
  BY <1>1, <1>4 DEF HandlerOK, HandlerWithout
<1> QED
  BY <1>2, <1>3, <1>4

(* After the connections of n with ps are new: what a node still tells a   *)
(* peer goes on as before, and the hashes did not change or are empty or   *)
(* due.                                                                    *)
LEMMA CutKeepsTold ==
    ASSUME SmsgInv, NEW n \in Nodes, NEW ps, Connect(n, ps), HandlerOK',
           \A x \in Nodes : handler'[x].op = "end" => handler'[x] = handler[x],
           \A x \in Nodes : handler'[x].op = "end" => ~Cut(n, ps, x, handler'[x].peer),
           \A x \in Nodes : \A c \in Buckets :
              \/ smsgBuckets'[x][c].hash = smsgBuckets[x][c].hash
              \/ x = n /\ ps = Peers(n)
    PROVE  PeersAreTold' /\ SentOK'
<1>1. \A x \in Nodes : \A y \in Peers(x) :
         smsgData'[x][y] = IF Cut(n, ps, x, y) THEN NewPeer ELSE smsgData[x][y]
  BY ConnectChange
<1>2. NewPeer.due = Buckets
  BY DEF NewPeer
<1>3. ASSUME NEW x \in Nodes, NEW y \in Peers(x), NEW c \in Buckets \ smsgData'[x][y].due
      PROVE  smsgBuckets'[x][c].hash \in {{}, smsgData'[x][y].told[c]}
  <2>1. ~Cut(n, ps, x, y)
    BY <1>1, <1>2, <1>3
  <2>2. smsgData'[x][y] = smsgData[x][y] /\ smsgBuckets'[x][c].hash = smsgBuckets[x][c].hash
    BY <1>1, <2>1 DEF Cut
  <2> QED
    BY <1>3, <2>2 DEF SmsgInv, PeersAreTold
<1>4. ASSUME NEW x \in Nodes, handler'[x].op = "end", NEW c \in Buckets \ handler'[x].since
      PROVE  smsgBuckets'[x][c].hash \in {{}, smsgData'[x][handler'[x].peer].told[c]}
  <2>1. handler'[x] = handler[x]
    BY <1>4
  <2>2. ~Cut(n, ps, x, handler[x].peer) /\ handler[x].peer \in Peers(x)
    BY <1>4, <2>1 DEF HandlerOK
  <2>3. /\ smsgData'[x][handler[x].peer] = smsgData[x][handler[x].peer]
        /\ smsgBuckets'[x][c].hash = smsgBuckets[x][c].hash
    BY <1>1, <2>2 DEF Cut
  <2> QED
    BY <1>4, <2>1, <2>3 DEF SmsgInv, SentOK
<1> QED
  BY <1>3, <1>4 DEF PeersAreTold, SentOK

LEMMA ReconnectKeeps ==
    ASSUME SmsgInv, NEW n \in Nodes, NEW p \in Peers(n), Reconnect(n, p)
    PROVE  SmsgInv'
<1>1. p \in Nodes /\ p # n
  BY DEF Peers
<1>2. /\ events' \in 0 .. MaxEvents /\ NetOK' /\ PeersOK' /\ Connect(n, {p})
  BY ConnectChange DEF Reconnect
<1>3. UNCHANGED <<fSecMsgEnabled, disabling, smsgStore, sendQueue, pow, old, unsent, history>>
  BY DEF Reconnect
<1>4. /\ smsgBuckets' \in [Nodes -> [Buckets -> Bucket]] /\ SameTokens
  <2>1. smsgBuckets' = [smsgBuckets EXCEPT ![n] = Orphaned(n, p), ![p] = Orphaned(p, n)]
    BY DEF Reconnect
  <2>2. /\ smsgBuckets'[n] = Orphaned(n, p) /\ smsgBuckets'[p] = Orphaned(p, n)
        /\ \A x \in Nodes \ {n, p} : smsgBuckets'[x] = smsgBuckets[x]
    BY <1>1, <2>1 DEF SmsgInv, StoreOK
  <2>3. \A x \in Nodes : \A y : /\ Orphaned(x, y) \in [Buckets -> Bucket]
                                /\ \A b \in Buckets :
                                      /\ Orphaned(x, y)[b].setTokens = smsgBuckets[x][b].setTokens
                                      /\ Orphaned(x, y)[b].hash = smsgBuckets[x][b].hash
    BY OrphanedBucket DEF SmsgInv
  <2>4. smsgBuckets' \in [Nodes -> [Buckets -> Bucket]]
    BY <1>1, <2>1, <2>3 DEF SmsgInv, StoreOK
  <2>5. SameTokens
    BY <1>1, <2>2, <2>3 DEF SameTokens
  <2> QED
    BY <2>4, <2>5
<1>5. /\ handler' \in [Nodes -> Doing]
      /\ \A x \in Nodes : /\ handler'[x].op \in {"begin", "end"} => handler'[x] = handler[x]
                          /\ handler'[x].op \in {"have", "want"} =>
                                handler'[x].peer \in Peers(x) \cup {None}
      /\ \A x \in Nodes : handler[x].op = "receive" => handler'[x] = handler[x]
      /\ \A x \in Nodes : handler'[x].op = "end" => ~Cut(n, {p}, x, handler'[x].peer)
  <2>1. handler' = [handler EXCEPT ![n] = HandlerWithout(n, p), ![p] = HandlerWithout(p, n)]
    BY DEF Reconnect
  <2>2. /\ handler'[n] = HandlerWithout(n, p) /\ handler'[p] = HandlerWithout(p, n)
        /\ \A x \in Nodes \ {n, p} : handler'[x] = handler[x]
    BY <1>1, <2>1 DEF SmsgInv, HandlerOK
  <2>3. \A x \in Nodes : \A y :
           /\ HandlerWithout(x, y) \in Doing
           /\ HandlerWithout(x, y).op \in {"begin", "end", "receive"} =>
                 HandlerWithout(x, y) = handler[x]
           /\ handler[x].op = "receive" => HandlerWithout(x, y) = handler[x]
           /\ HandlerWithout(x, y).op \in {"begin", "end"} => HandlerWithout(x, y).peer # y
           /\ HandlerWithout(x, y).op \in {"have", "want"} =>
                 HandlerWithout(x, y).peer \in Peers(x) \cup {None}
    BY HandlerGoesOn DEF SmsgInv
  <2>4. handler' \in [Nodes -> Doing]
    BY <1>1, <2>1, <2>3 DEF SmsgInv, HandlerOK
  <2>5. \A x \in Nodes : handler'[x].op = "end" => ~Cut(n, {p}, x, handler'[x].peer)
    BY <1>1, <2>2, <2>3 DEF Cut
  <2>6. ASSUME NEW x \in Nodes
        PROVE  /\ handler'[x].op \in {"begin", "end"} => handler'[x] = handler[x]
               /\ handler'[x].op \in {"have", "want"} => handler'[x].peer \in Peers(x) \cup {None}
               /\ handler[x].op = "receive" => handler'[x] = handler[x]
    <3>1. CASE x = n
      BY <2>2, <2>3, <3>1
    <3>2. CASE x = p
      BY <2>2, <2>3, <3>2
    <3>3. CASE x \notin {n, p}
      BY <2>2, <3>3 DEF SmsgInv, HandlerOK
    <3> QED
      BY <3>1, <3>2, <3>3
  <2> QED
    BY <2>4, <2>5, <2>6
<1>6. HandlerOK'
  BY <1>5 DEF SmsgInv, HandlerOK, Idle
<1>7. FlagsOK' /\ OffOK'
  <2>1. /\ ticker' \in [Nodes -> [at : {"asleep", "awake", "report"}, timedOut : SUBSET Nodes]]
        /\ \A x \in Nodes : ticker'[x].at = ticker[x].at
    <3> DEFINE T == [at : {"asleep", "awake", "report"}, timedOut : SUBSET Nodes]
               Less(x, y) == [ticker[x] EXCEPT !.timedOut = @ \ {y}]
    <3>1. ticker \in [Nodes -> T]
      BY DEF SmsgInv, FlagsOK
    <3>2. ticker' = [ticker EXCEPT ![n] = Less(n, p), ![p] = Less(p, n)]
      BY <1>1, <3>1 DEF Reconnect
    <3>3. \A x \in Nodes : \A y : Less(x, y) \in T /\ Less(x, y).at = ticker[x].at
      BY <3>1
    <3> HIDE DEF T, Less
    <3>4. ticker' \in [Nodes -> T] /\ \A x \in Nodes : ticker'[x].at = ticker[x].at
      BY <1>1, <3>1, <3>2, <3>3
    <3> QED
      BY <3>4 DEF T
  <2> QED
    BY <1>2, <1>3, <2>1 DEF SmsgInv, FlagsOK, OffOK, history
<1>8. PeersAreTold' /\ SentOK'
  <2>1. PICK ps : ps = {p}
    OBVIOUS
  <2>2. Connect(n, ps) /\ \A x \in Nodes : handler'[x].op = "end" => ~Cut(n, ps, x, handler'[x].peer)
    BY <1>2, <1>5, <2>1
  <2>3. \A x \in Nodes : \A c \in Buckets :
           \/ smsgBuckets'[x][c].hash = smsgBuckets[x][c].hash
           \/ x = n /\ ps = Peers(n)
    BY <1>4 DEF SameTokens
  <2>4. \A x \in Nodes : handler'[x].op = "end" => handler'[x] = handler[x]
    BY <1>5
  <2> QED
    BY <1>6, <2>2, <2>3, <2>4, CutKeepsTold
<1>9. HashIsCurrent'
  <2>1. ASSUME NEW x \in Nodes, NEW c \in Buckets, ~Receiving(x, c)'
        PROVE  smsgBuckets'[x][c].hash = smsgBuckets'[x][c].setTokens
    <3>1. ~Receiving(x, c)
      BY <1>5, <2>1 DEF Receiving
    <3> QED
      BY <1>4, <3>1 DEF SmsgInv, HashIsCurrent, Tokens, SameTokens
  <2> QED
    BY <2>1 DEF HashIsCurrent, Tokens
<1>10. TokensAreStored' /\ StoreOK'
  BY <1>3, <1>4 DEF SmsgInv, StoreOK, SameTokens, TokensAreStored, Tokens, history
<1> QED
  BY <1>2, <1>6, <1>7, <1>8, <1>9, <1>10 DEF SmsgInv

(* The process of n begins again with what is in its files.                *)
LEMMA RestartKeeps ==
    ASSUME SmsgInv, NEW n \in Nodes, Restart(n)
    PROVE  SmsgInv'
<1> DEFINE files == {m \in smsgStore[n] : BucketOf[m] \notin old[n]}
           fresh == [b \in Buckets |-> Read(files, b)]
           Next(x) == IF x # n THEN Orphaned(x, n) ELSE fresh
<1>1. /\ events' \in 0 .. MaxEvents /\ NetOK' /\ PeersOK' /\ Connect(n, Peers(n))
  BY ConnectChange DEF Restart
<1>2. /\ fSecMsgEnabled' = [fSecMsgEnabled EXCEPT ![n] = TRUE]
      /\ disabling' = [disabling EXCEPT ![n] = FALSE]
      /\ smsgStore' = [smsgStore EXCEPT ![n] = files]
      /\ pow' = [pow EXCEPT ![n] = None]
      /\ handler' = [x \in Nodes |-> IF x = n THEN Idle ELSE HandlerWithout(x, n)]
      /\ UNCHANGED <<sendQueue, old, unsent, history>>
  BY DEF Restart
<1>3. smsgBuckets' = [x \in Nodes |-> Next(x)]
  BY DEF Restart, Read
<1>4. files \in SUBSET Msgs
  BY DEF SmsgInv, StoreOK
<1> HIDE DEF files
<1>5. /\ fresh \in [Buckets -> Bucket]
      /\ \A b \in Buckets :
            fresh[b].setTokens = files \cap In(b) /\ fresh[b].hash = files \cap In(b)
  BY <1>4, ReadBuckets
<1> HIDE DEF fresh
<1>6. \A x \in Nodes \ {n} :
         /\ Orphaned(x, n) \in [Buckets -> Bucket]
         /\ \A b \in Buckets : /\ Orphaned(x, n)[b].setTokens = smsgBuckets[x][b].setTokens
                               /\ Orphaned(x, n)[b].hash = smsgBuckets[x][b].hash
  BY OrphanedBucket DEF SmsgInv
<1>7. /\ smsgBuckets' \in [Nodes -> [Buckets -> Bucket]] /\ smsgBuckets'[n] = fresh
      /\ \A x \in Nodes \ {n} : smsgBuckets'[x] = Orphaned(x, n)
  BY <1>3, <1>5, <1>6
<1>8. /\ handler' \in [Nodes -> Doing]
      /\ \A x \in Nodes : /\ handler'[x].op \in {"begin", "end"} => handler'[x] = handler[x]
                          /\ handler'[x].op \in {"have", "want"} =>
                                handler'[x].peer \in Peers(x) \cup {None}
      /\ \A x \in Nodes \ {n} : handler[x].op = "receive" => handler'[x] = handler[x]
      /\ \A x \in Nodes : handler'[x].op = "end" => ~Cut(n, Peers(n), x, handler'[x].peer)
  <2>1. \A x \in Nodes :
           /\ HandlerWithout(x, n) \in Doing
           /\ HandlerWithout(x, n).op \in {"begin", "end", "receive"} =>
                 HandlerWithout(x, n) = handler[x]
           /\ handler[x].op = "receive" => HandlerWithout(x, n) = handler[x]
           /\ HandlerWithout(x, n).op \in {"begin", "end"} => HandlerWithout(x, n).peer # n
           /\ HandlerWithout(x, n).op \in {"have", "want"} =>
                 HandlerWithout(x, n).peer \in Peers(x) \cup {None}
    BY HandlerGoesOn DEF SmsgInv
  <2>2. Idle \in Doing /\ Idle.op = "idle"
    BY DEF Idle, Doing
  <2>3. handler' \in [Nodes -> Doing]
    BY <1>2, <2>1, <2>2
  <2>4. handler'[n] = Idle /\ \A x \in Nodes \ {n} : handler'[x] = HandlerWithout(x, n)
    BY <1>2
  <2>5. \A x \in Nodes : handler'[x].op = "end" => ~Cut(n, Peers(n), x, handler'[x].peer)
    BY <2>1, <2>2, <2>4 DEF Cut
  <2>6. ASSUME NEW x \in Nodes
        PROVE  /\ handler'[x].op \in {"begin", "end"} => handler'[x] = handler[x]
               /\ handler'[x].op \in {"have", "want"} => handler'[x].peer \in Peers(x) \cup {None}
               /\ x # n /\ handler[x].op = "receive" => handler'[x] = handler[x]
    <3>1. CASE x = n
      BY <2>2, <2>4, <3>1
    <3>2. CASE x # n
      BY <2>1, <2>4, <3>2
    <3> QED
      BY <3>1, <3>2
  <2> QED
    BY <2>3, <2>5, <2>6
<1>9. HandlerOK'
  BY <1>8 DEF SmsgInv, HandlerOK, Idle
<1>10. FlagsOK' /\ OffOK'
  <2> DEFINE T == [at : {"asleep", "awake", "report"}, timedOut : SUBSET Nodes]
             Less(x) == [ticker[x] EXCEPT !.timedOut = @ \ {n}]
  <2>1. ticker \in [Nodes -> T]
    BY DEF SmsgInv, FlagsOK
  <2>2. ticker' = [x \in Nodes |-> IF x = n THEN Asleep ELSE Less(x)]
    BY DEF Restart
  <2>3. \A x \in Nodes : Less(x) \in T /\ Less(x).at = ticker[x].at
    BY <2>1
  <2>4. Asleep \in T /\ Asleep.at = "asleep"
    BY DEF Asleep
  <2> HIDE DEF T, Less
  <2>5. /\ ticker' \in [Nodes -> T] /\ ticker'[n].at = "asleep"
        /\ \A x \in Nodes \ {n} : ticker'[x].at = ticker[x].at
    BY <2>1, <2>2, <2>3, <2>4
  <2>6. FlagsOK'
    BY <1>1, <1>2, <2>5 DEF SmsgInv, FlagsOK, history, T
  <2>7. OffOK'
    BY <1>2, <2>5 DEF SmsgInv, FlagsOK, OffOK
  <2> QED
    BY <2>6, <2>7
<1>11. PeersAreTold' /\ SentOK'
  <2>1. PICK ps : ps = Peers(n)
    OBVIOUS
  <2>2. Connect(n, ps) /\ \A x \in Nodes : handler'[x].op = "end" => ~Cut(n, ps, x, handler'[x].peer)
    BY <1>1, <1>8, <2>1
  <2>3. \A x \in Nodes : \A c \in Buckets :
           \/ smsgBuckets'[x][c].hash = smsgBuckets[x][c].hash
           \/ x = n /\ ps = Peers(n)
    BY <1>6, <1>7, <2>1
  <2>4. \A x \in Nodes : handler'[x].op = "end" => handler'[x] = handler[x]
    BY <1>8
  <2> QED
    BY <1>9, <2>2, <2>3, <2>4, CutKeepsTold
<1>12. HashIsCurrent'
  <2>1. ASSUME NEW x \in Nodes, NEW c \in Buckets, ~Receiving(x, c)'
        PROVE  smsgBuckets'[x][c].hash = smsgBuckets'[x][c].setTokens
    <3>1. CASE x = n
      BY <1>5, <1>7, <3>1
    <3>2. CASE x # n
      <4>1. ~Receiving(x, c)
        BY <1>8, <2>1, <3>2 DEF Receiving
      <4> QED
        BY <1>6, <1>7, <3>2, <4>1 DEF SmsgInv, HashIsCurrent, Tokens
    <3> QED
      BY <3>1, <3>2
  <2> QED
    BY <2>1 DEF HashIsCurrent, Tokens
<1>13. /\ smsgStore' \in [Nodes -> SUBSET Msgs] /\ smsgStore'[n] = files
       /\ \A x \in Nodes \ {n} : smsgStore'[x] = smsgStore[x]
  BY <1>2, <1>4 DEF SmsgInv, StoreOK
<1>14. TokensAreStored'
  <2>1. ASSUME NEW x \in Nodes, NEW c \in Buckets \ scanned[x]
        PROVE  /\ smsgBuckets'[x][c].setTokens \subseteq smsgStore'[x]
               /\ fSecMsgEnabled'[x] => smsgBuckets'[x][c].setTokens = smsgStore'[x] \cap In(c)
    <3>1. CASE x = n
      BY <1>5, <1>7, <1>13, <3>1
    <3>2. CASE x # n
      <4>1. /\ smsgBuckets[x][c].setTokens \subseteq smsgStore[x]
            /\ fSecMsgEnabled[x] => smsgBuckets[x][c].setTokens = smsgStore[x] \cap In(c)
        BY <2>1 DEF SmsgInv, TokensAreStored, Tokens
      <4>2. fSecMsgEnabled'[x] = fSecMsgEnabled[x]
        BY <1>2, <3>2 DEF SmsgInv, FlagsOK
      <4> QED
        BY <1>6, <1>7, <1>13, <3>2, <4>1, <4>2
    <3> QED
      BY <3>1, <3>2
  <2> QED
    BY <1>2, <2>1 DEF TokensAreStored, Tokens, history
<1>15. StoreOK'
  BY <1>7, <1>13 DEF StoreOK
<1> QED
  BY <1>1, <1>9, <1>10, <1>11, <1>12, <1>14, <1>15 DEF SmsgInv

-----------------------------------------------------------------------------
(* Every step keeps the invariant.                                         *)

LEMMA HandlerKeeps ==
    ASSUME SmsgInv, NEW n \in Nodes, Handler(n)
    PROVE  SmsgInv'
<1>1. ASSUME NEW p \in Peers(n), Receive(n, p)
      PROVE  SmsgInv'
  BY <1>1, DiscardKeeps, PingKeeps, PongKeeps, DisabledKeeps, IgnoreKeeps, InvKeeps, ShowKeeps,
     ReceiveHaveKeeps, WantKeeps, ReceiveMsgKeeps DEF Receive
<1>2. ASSUME NEW p \in Peers(n), SendPing(n, p) \/ BeginSend(n, p)
      PROVE  SmsgInv'
  BY <1>2, SendPingKeeps, BeginSendKeeps
<1>3. CASE SendInv(n) \/ EndSend(n) \/ SiftHave(n) \/ LockBucket(n) \/ StoreMsg(n) \/ EndReceive(n)
  BY <1>3, SendInvKeeps, EndSendKeeps, SiftHaveKeeps, LockBucketKeeps, StoreMsgKeeps,
     EndReceiveKeeps
<1> QED
  BY <1>1, <1>2, <1>3 DEF Handler

LEMMA NextKeeps == SmsgInv /\ [SmsgNext]_smsgVars => SmsgInv'
<1> SUFFICES ASSUME SmsgInv, [SmsgNext]_smsgVars
             PROVE  SmsgInv'
  OBVIOUS
<1>1. ASSUME NEW n \in Nodes, Handler(n)
      PROVE  SmsgInv'
  BY <1>1, HandlerKeeps
<1>2. ASSUME NEW n \in Nodes, ThreadSecureMsg(n)
      PROVE  SmsgInv'
  BY <1>2, WakeKeeps, TickKeeps, ReportKeeps DEF ThreadSecureMsg
<1>3. ASSUME NEW n \in Nodes, ThreadSecureMsgPow(n)
      PROVE  SmsgInv'
  BY <1>3, EraseQueuedKeeps, StoreQueuedKeeps DEF ThreadSecureMsgPow
<1>4. ASSUME NEW n \in Nodes, Clock(n)
      PROVE  SmsgInv'
  BY <1>4, IgnoreEndsKeeps DEF Clock
<1>5. ASSUME NEW n \in Nodes,
             \/ SecureMsgScanBuckets(n) \/ BeginDisable(n) \/ EndDisable(n) \/ SecureMsgEnable(n)
             \/ \E b \in Buckets : Age(n, b)
      PROVE  SmsgInv'
  BY <1>5, ScanKeeps, BeginDisableKeeps, EndDisableKeeps, EnableKeeps, AgeKeeps
<1>6. ASSUME NEW n \in Nodes, NEW p \in Peers(n), Reconnect(n, p)
      PROVE  SmsgInv'
  BY <1>6, ReconnectKeeps
<1>7. ASSUME NEW n \in Nodes, Restart(n)
      PROVE  SmsgInv'
  BY <1>7, RestartKeeps
<1>8. ASSUME NEW m \in Msgs, SecureMsgSend(m)
      PROVE  SmsgInv'
  BY <1>8, SecureMsgSendKeeps
<1>9. CASE UNCHANGED smsgVars
  <2>1. UNCHANGED <<fSecMsgEnabled, disabling, smsgBuckets, smsgStore, sendQueue, pow, ticker,
                    handler, smsgData, net, old, unsent, events, overdue, scanned, missed>>
    BY <1>9 DEF smsgVars, store, threads, peers, history
  <2>2. FlagsOK' /\ StoreOK' /\ PeersOK' /\ NetOK' /\ HandlerOK' /\ OffOK'
    BY <2>1 DEF SmsgInv, FlagsOK, StoreOK, PeersOK, NetOK, HandlerOK, OffOK
  <2>3. HashIsCurrent' /\ TokensAreStored' /\ PeersAreTold' /\ SentOK'
    BY <2>1 DEF SmsgInv, HashIsCurrent, TokensAreStored, PeersAreTold, SentOK, Tokens, Receiving
  <2> QED
    BY <2>2, <2>3 DEF SmsgInv
<1> QED
  BY <1>1, <1>2, <1>3, <1>4, <1>5, <1>6, <1>7, <1>8, <1>9 DEF SmsgNext

LEMMA SmsgInvHolds == SmsgSpec => []SmsgInv
<1> QED
  BY InitHolds, NextKeeps, PTL DEF SmsgSpec

(* Every variable has its type: no lock lasts longer than it may, and none *)
(* goes below zero.                                                        *)
THEOREM SmsgTypes == SmsgSpec => []SmsgTypeOK
<1>1. SmsgInv => SmsgTypeOK
  BY DEF SmsgInv, FlagsOK, StoreOK, PeersOK, Bucket, PeerData, SmsgTypeOK
<1> QED
  BY <1>1, SmsgInvHolds, PTL

(* hashBucket: the hash that a node announces of a bucket, and compares    *)
(* what it is told with, is that of the messages in the bucket, unless the *)
(* handler is storing a bunch in it.                                       *)
THEOREM HashesAreCurrent == SmsgSpec => []HashIsCurrent
<1>1. SmsgInv => HashIsCurrent
  BY DEF SmsgInv
<1> QED
  BY <1>1, SmsgInvHolds, PTL

(* The bucket files and the buckets hold the same messages while messaging *)
(* is on, and none that is in a bucket is missing from its file, whatever  *)
(* stops, starts, grows old or restarts; but for smsgscanbuckets.          *)
THEOREM BucketsAreOnDisk == SmsgSpec => []TokensAreStored
<1>1. SmsgInv => TokensAreStored
  BY DEF SmsgInv
<1> QED
  BY <1>1, SmsgInvHolds, PTL

(* lastMatched: a bucket that a node will not announce to a peer again is  *)
(* empty or as the peer was told of it, although the loop that tells and   *)
(* the assignment of lastMatched are apart and other threads run between.  *)
THEOREM NothingIsLeftUntold == SmsgSpec => []PeersAreTold
<1>1. SmsgInv => PeersAreTold
  BY DEF SmsgInv
<1> QED
  BY <1>1, SmsgInvHolds, PTL

-----------------------------------------------------------------------------
(* A lock covers its request.                                              *)

(* Message i from x to y is a request of m for messages of b, or is the    *)
(* answer to one.                                                          *)
AskAt(nt, m, b, x, y, i) ==
    /\ i \in DOMAIN nt[x][y]
    /\ \/ nt[x][y][i].type = "smsgWant" /\ x = m
       \/ nt[x][y][i].type = "smsgMsg" /\ y = m
    /\ nt[x][y][i].bucket = b

Asked(nt, m, b) == \E x \in Nodes : \E y \in Peers(x) : \E i \in Nat : AskAt(nt, m, b, x, y, i)

AskedOnce(nt, m, b) ==
    \A x, v \in Nodes : \A y \in Peers(x), w \in Peers(v) : \A i, j \in Nat :
        AskAt(nt, m, b, x, y, i) /\ AskAt(nt, m, b, v, w, j) => x = v /\ y = w /\ i = j

(* The handler has sifted through the bucket and is about to lock it.      *)
Wanting(n, b) == handler[n].op = "want" /\ handler[n].bucket = b

Covered(n, b) ==
    /\ Asked(net, n, b) => IsLocked(n, b)
    /\ AskedOnce(net, n, b)
    /\ Receiving(n, b) => IsLocked(n, b) /\ ~Asked(net, n, b)
    /\ Wanting(n, b) => ~Asked(net, n, b)

(* While the handler is about to lock a bucket that it has found unlocked, *)
(* nobody else asks for messages of it.                                    *)
LockInv == \A n \in Nodes : \A b \in Buckets \ (overdue[n] \cup old[n]) : Covered(n, b)

LEMMA Channels ==
    ASSUME NetOK, NEW x \in Nodes, NEW y \in Peers(x)
    PROVE  /\ net[x][y] \in Seq(Message) /\ DOMAIN net[x][y] = 1 .. Len(net[x][y])
           /\ Len(net[x][y]) \in Nat /\ y \in Nodes /\ x \in Peers(y) /\ x # y
<1>1. net[x][y] \in Seq(Message)
  BY DEF NetOK
<1>2. y \in Nodes /\ x \in Peers(y) /\ x # y
  BY DEF Peers
<1> QED
  BY <1>1, <1>2

(* The requests under way, as LockCoversRequest counts them.               *)
LEMMA RequestsAreAsks ==
    ASSUME NetOK, NEW n \in Nodes, NEW b \in Buckets
    PROVE  /\ Requests(n, b) # {} => Asked(net, n, b)
           /\ AskedOnce(net, n, b) => Cardinality(Requests(n, b)) <= 1
<1>1. ASSUME NEW r \in Requests(n, b)
      PROVE  \E p \in Peers(n), i \in Nat :
                \/ r = <<p, "want", i>> /\ AskAt(net, n, b, n, p, i)
                \/ r = <<p, "msg", i>> /\ AskAt(net, n, b, p, n, i)
  <2>1. PICK p \in Peers(n) :
          \/ \E i \in DOMAIN net[n][p] : /\ r = <<p, "want", i>> /\ net[n][p][i].type = "smsgWant"
                                         /\ net[n][p][i].bucket = b
          \/ \E i \in DOMAIN net[p][n] : /\ r = <<p, "msg", i>> /\ net[p][n][i].type = "smsgMsg"
                                         /\ net[p][n][i].bucket = b
    BY DEF Requests
  <2>2. DOMAIN net[n][p] \subseteq Nat /\ DOMAIN net[p][n] \subseteq Nat
    BY Channels DEF Peers
  <2> QED
    BY <2>1, <2>2 DEF AskAt
<1>2. Requests(n, b) # {} => Asked(net, n, b)
  <2> SUFFICES ASSUME NEW r \in Requests(n, b)
               PROVE  Asked(net, n, b)
    OBVIOUS
  <2>1. PICK p \in Peers(n), i \in Nat : AskAt(net, n, b, n, p, i) \/ AskAt(net, n, b, p, n, i)
    BY <1>1
  <2>2. p \in Nodes /\ n \in Peers(p)
    BY DEF Peers
  <2> QED
    BY <2>1, <2>2 DEF Asked
<1>3. ASSUME AskedOnce(net, n, b), NEW r \in Requests(n, b), NEW s \in Requests(n, b)
      PROVE  r = s
  <2>1. PICK p \in Peers(n), i \in Nat :
                \/ r = <<p, "want", i>> /\ AskAt(net, n, b, n, p, i)
                \/ r = <<p, "msg", i>> /\ AskAt(net, n, b, p, n, i)
    BY <1>1
  <2>2. PICK q \in Peers(n), j \in Nat :
                \/ s = <<q, "want", j>> /\ AskAt(net, n, b, n, q, j)
                \/ s = <<q, "msg", j>> /\ AskAt(net, n, b, q, n, j)
    BY <1>1
  <2>3. p \in Nodes /\ n \in Peers(p) /\ q \in Nodes /\ n \in Peers(q) /\ p # n /\ q # n
    BY DEF Peers
  <2>4. ASSUME NEW x \in Nodes, NEW v \in Nodes, NEW y \in Peers(x), NEW w \in Peers(v),
               AskAt(net, n, b, x, y, i), AskAt(net, n, b, v, w, j)
        PROVE  x = v /\ y = w /\ i = j
    BY <1>3, <2>4 DEF AskedOnce
  <2>5. CASE AskAt(net, n, b, n, p, i) /\ r = <<p, "want", i>>
    <3>1. CASE AskAt(net, n, b, n, q, j) /\ s = <<q, "want", j>>
      BY <2>4, <2>5, <3>1
    <3>2. CASE AskAt(net, n, b, q, n, j)
      BY <2>3, <2>4, <2>5, <3>2
    <3> QED
      BY <2>2, <3>1, <3>2
  <2>6. CASE AskAt(net, n, b, p, n, i) /\ r = <<p, "msg", i>>
    <3>1. CASE AskAt(net, n, b, n, q, j)
      BY <2>3, <2>4, <2>6, <3>1
    <3>2. CASE AskAt(net, n, b, q, n, j) /\ s = <<q, "msg", j>>
      BY <2>3, <2>4, <2>6, <3>2
    <3> QED
      BY <2>2, <3>1, <3>2
  <2> QED
    BY <2>1, <2>5, <2>6
<1>4. ASSUME AskedOnce(net, n, b)
      PROVE  Cardinality(Requests(n, b)) <= 1
  <2>1. CASE Requests(n, b) = {}
    <3>1. Cardinality({}) = 0
      BY FS_EmptySet
    <3> QED
      BY <2>1, <3>1
  <2>2. CASE Requests(n, b) # {}
    <3>1. PICK r : Requests(n, b) = {r}
      BY <1>3, <1>4, <2>2
    <3>2. Cardinality({r}) = 1
      BY FS_Singleton
    <3> QED
      BY <3>1, <3>2
  <2> QED
    BY <2>1, <2>2
<1> QED
  BY <1>2, <1>4

(* What is under way is taken, lost or added to, but for requests.         *)
Fewer(nt, now, m, b) ==
    \A x \in Nodes : \A y \in Peers(x) : \E k \in Nat : \A i \in Nat :
        AskAt(now, m, b, x, y, i) => AskAt(nt, m, b, x, y, i + k)

LEMMA FewerAsks ==
    ASSUME NEW nt, NEW now, NEW m, NEW b, Fewer(nt, now, m, b)
    PROVE  /\ Asked(now, m, b) => Asked(nt, m, b)
           /\ AskedOnce(nt, m, b) => AskedOnce(now, m, b)
<1>1. Asked(now, m, b) => Asked(nt, m, b)
  <2> SUFFICES ASSUME NEW x \in Nodes, NEW y \in Peers(x), NEW i \in Nat, AskAt(now, m, b, x, y, i)
               PROVE  Asked(nt, m, b)
    BY DEF Asked
  <2>1. PICK k \in Nat : AskAt(nt, m, b, x, y, i + k)
    BY DEF Fewer
  <2>2. i + k \in Nat
    OBVIOUS
  <2> QED
    BY <2>1, <2>2 DEF Asked
<1>2. ASSUME AskedOnce(nt, m, b), NEW x \in Nodes, NEW v \in Nodes, NEW y \in Peers(x),
             NEW w \in Peers(v), NEW i \in Nat, NEW j \in Nat,
             AskAt(now, m, b, x, y, i), AskAt(now, m, b, v, w, j)
      PROVE  x = v /\ y = w /\ i = j
  <2>1. PICK k \in Nat : \A a \in Nat : AskAt(now, m, b, x, y, a) => AskAt(nt, m, b, x, y, a + k)
    BY DEF Fewer
  <2>2. PICK l \in Nat : AskAt(nt, m, b, v, w, j + l)
    BY <1>2 DEF Fewer
  <2>3. i + k \in Nat /\ j + l \in Nat /\ j + k \in Nat
    OBVIOUS
  <2>4. x = v /\ y = w
    BY <1>2, <2>1, <2>2, <2>3 DEF AskedOnce
  <2>5. i + k = j + k
    BY <1>2, <2>1, <2>3, <2>4 DEF AskedOnce
  <2> QED
    BY <2>4, <2>5
<1>3. AskedOnce(nt, m, b) => AskedOnce(now, m, b)
  BY <1>2 DEF AskedOnce
<1> QED
  BY <1>1, <1>3

(* The one request under way is the one at i from x to y.                  *)
Alone(nt, m, b, x, y, i) ==
    \A v \in Nodes : \A w \in Peers(v) : \A j \in Nat :
        AskAt(nt, m, b, v, w, j) => v = x /\ w = y /\ j = i

LEMMA AloneIsOnce ==
    ASSUME NEW nt, NEW m, NEW b, NEW x, NEW y, NEW i, Alone(nt, m, b, x, y, i)
    PROVE  AskedOnce(nt, m, b)
BY DEF Alone, AskedOnce

-----------------------------------------------------------------------------
(* What a step does to the requests under way.                             *)

(* A message that is no request and no answer to one.                      *)
Plain(msgs) == \A j \in DOMAIN msgs : msgs[j].type \notin {"smsgWant", "smsgMsg"}

LEMMA PlainIsNoAsk ==
    ASSUME NEW s \in Seq(Message), NEW msgs \in Seq(Message), Plain(msgs)
    PROVE  \A i \in DOMAIN (s \o msgs) :
              (s \o msgs)[i].type \in {"smsgWant", "smsgMsg"}
              => i \in DOMAIN s /\ (s \o msgs)[i] = s[i]
<1> SUFFICES ASSUME NEW i \in DOMAIN (s \o msgs), (s \o msgs)[i].type \in {"smsgWant", "smsgMsg"}
             PROVE  i \in DOMAIN s /\ (s \o msgs)[i] = s[i]
  OBVIOUS
<1>1. Len(s) \in Nat /\ Len(msgs) \in Nat /\ i \in 1 .. Len(s) + Len(msgs)
  OBVIOUS
<1>2. CASE i \in 1 .. Len(s)
  BY <1>1, <1>2
<1>3. CASE i \notin 1 .. Len(s)
  <2>1. i - Len(s) \in DOMAIN msgs /\ (s \o msgs)[i] = msgs[i - Len(s)]
    BY <1>1, <1>3
  <2> QED
    BY <2>1 DEF Plain
<1> QED
  BY <1>2, <1>3

(* What a node is sent in place of s.                                      *)
After(s, t) ==
    \/ t = s \/ t = << >>
    \/ s # << >> /\ t = Tail(s)
    \/ \E msgs \in Seq(Message) : Plain(msgs) /\ t = s \o msgs

LEMMA AfterFewer ==
    ASSUME NetOK, NetOK', \A x \in Nodes : \A y \in Peers(x) : After(net[x][y], net'[x][y])
    PROVE  \A m \in Nodes, b \in Buckets : Fewer(net, net', m, b)
<1> SUFFICES ASSUME NEW m \in Nodes, NEW b \in Buckets, NEW x \in Nodes, NEW y \in Peers(x)
             PROVE  \E k \in Nat : \A i \in Nat :
                        AskAt(net', m, b, x, y, i) => AskAt(net, m, b, x, y, i + k)
  BY DEF Fewer
<1>1. net[x][y] \in Seq(Message) /\ net'[x][y] \in Seq(Message)
  BY DEF NetOK
<1>2. CASE net'[x][y] = net[x][y]
  <2>1. \A i \in Nat : AskAt(net', m, b, x, y, i) => AskAt(net, m, b, x, y, i + 0)
    BY <1>2 DEF AskAt
  <2> QED
    BY <2>1
<1>3. CASE net'[x][y] = << >>
  <2>1. \A i \in Nat : ~AskAt(net', m, b, x, y, i)
    BY <1>3 DEF AskAt
  <2> QED
    BY <2>1
<1>4. CASE net[x][y] # << >> /\ net'[x][y] = Tail(net[x][y])
  <2>1. \A i \in DOMAIN net'[x][y] : i + 1 \in DOMAIN net[x][y] /\ net'[x][y][i] = net[x][y][i + 1]
    BY <1>1, <1>4
  <2>2. \A i \in Nat : AskAt(net', m, b, x, y, i) => AskAt(net, m, b, x, y, i + 1)
    BY <2>1 DEF AskAt
  <2> QED
    BY <2>2
<1>5. ASSUME NEW msgs \in Seq(Message), Plain(msgs), net'[x][y] = net[x][y] \o msgs
      PROVE  \E k \in Nat : \A i \in Nat :
                        AskAt(net', m, b, x, y, i) => AskAt(net, m, b, x, y, i + k)
  <2>1. \A i \in DOMAIN net'[x][y] : net'[x][y][i].type \in {"smsgWant", "smsgMsg"}
           => i \in DOMAIN net[x][y] /\ net'[x][y][i] = net[x][y][i]
    BY <1>1, <1>5, PlainIsNoAsk
  <2>2. \A i \in Nat : AskAt(net', m, b, x, y, i) => AskAt(net, m, b, x, y, i + 0)
    BY <2>1 DEF AskAt
  <2> QED
    BY <2>2
<1> QED
  BY <1>2, <1>3, <1>4, <1>5 DEF After

LEMMA ReplyChange ==
    ASSUME NetOK, NEW n \in Nodes, NEW p \in Peers(n), net[p][n] # << >>,
           NEW msgs \in Seq(Message), Reply(n, p, msgs)
    PROVE  /\ net'[p][n] = Tail(net[p][n]) /\ net'[n][p] = net[n][p] \o msgs
           /\ \A x \in Nodes : \A y \in Peers(x) :
                 ~(x = p /\ y = n) /\ ~(x = n /\ y = p) => net'[x][y] = net[x][y]
<1>1. /\ p \in Nodes /\ n # p /\ n \in Peers(p)
      /\ net[n] \in [Peers(n) -> Seq(Message)] /\ net[p] \in [Peers(p) -> Seq(Message)]
  BY DEF NetOK, Peers
<1>2. net' = [net EXCEPT ![p] = [net[p] EXCEPT ![n] = Tail(net[p][n])],
                         ![n] = [net[n] EXCEPT ![p] = net[n][p] \o msgs]]
  BY <1>1 DEF Reply, NetOK
<1>3. /\ net'[p] = [net[p] EXCEPT ![n] = Tail(net[p][n])]
      /\ net'[n] = [net[n] EXCEPT ![p] = net[n][p] \o msgs]
      /\ \A x \in Nodes \ {n, p} : net'[x] = net[x]
  BY <1>1, <1>2 DEF NetOK
<1> QED
  BY <1>1, <1>3

LEMMA ReplyFewer ==
    ASSUME NetOK, NEW n \in Nodes, NEW p \in Peers(n), net[p][n] # << >>,
           NEW msgs \in Seq(Message), Plain(msgs), Reply(n, p, msgs)
    PROVE  \A m \in Nodes, b \in Buckets : Fewer(net, net', m, b)
<1>1. NetOK'
  BY ReplyKeeps
<1>2. \A x \in Nodes : \A y \in Peers(x) : After(net[x][y], net'[x][y])
  BY ReplyChange DEF After
<1> QED
  BY <1>1, <1>2, AfterFewer

LEMMA PushFewer ==
    ASSUME NetOK, NEW n \in Nodes, NEW p \in Peers(n), NEW msgs \in Seq(Message), Plain(msgs),
           Push(n, p, msgs)
    PROVE  \A m \in Nodes, b \in Buckets : Fewer(net, net', m, b)
<1>1. NetOK'
  BY PushKeeps
<1>2. net' = [net EXCEPT ![n] = [net[n] EXCEPT ![p] = net[n][p] \o msgs]]
  BY DEF Push, NetOK
<1>3. /\ net'[n] = [net[n] EXCEPT ![p] = net[n][p] \o msgs]
      /\ \A x \in Nodes \ {n} : net'[x] = net[x]
  BY <1>2 DEF NetOK
<1>4. net[n] \in [Peers(n) -> Seq(Message)]
  BY DEF NetOK
<1>5. \A x \in Nodes : \A y \in Peers(x) : After(net[x][y], net'[x][y])
  BY <1>3, <1>4 DEF After
<1> QED
  BY <1>1, <1>5, AfterFewer

(* n sends plain messages to all its peers.                                *)
LEMMA AllSentFewer ==
    ASSUME NetOK, NEW n \in Nodes, NEW f \in [Peers(n) -> Seq(Message)], AllSent(n, f),
           \A q \in Peers(n) : After(net[n][q], f[q])
    PROVE  \A m \in Nodes, b \in Buckets : Fewer(net, net', m, b)
<1>1. NetOK'
  BY AllNetChange
<1>2. net'[n] = f /\ \A x \in Nodes \ {n} : net'[x] = net[x]
  BY DEF NetOK, AllSent
<1>3. \A x \in Nodes : \A y \in Peers(x) : After(net[x][y], net'[x][y])
  BY <1>2 DEF After
<1> QED
  BY <1>1, <1>3, AfterFewer

LEMMA SameNetFewer ==
    ASSUME NetOK, net' = net
    PROVE  \A m \in Nodes, b \in Buckets : Fewer(net, net', m, b)
<1>1. NetOK'
  BY DEF NetOK
<1> QED
  BY <1>1, AfterFewer DEF After

LEMMA PlainSeqs ==
    /\ << >> \in Seq(Message) /\ Plain(<< >>)
    /\ \A msg \in Message : <<msg>> \in Seq(Message)
    /\ \A msg \in Message : msg.type \notin {"smsgWant", "smsgMsg"} => Plain(<<msg>>)
BY DEF Plain

-----------------------------------------------------------------------------
(* What a step may do to the locks.                                        *)

FewerAll == \A m \in Nodes, b \in Buckets : Fewer(net, net', m, b)

(* It locks and unlocks nothing.                                           *)
SameLocks == \A n \in Nodes, b \in Buckets : smsgBuckets'[n][b].nLockCount = smsgBuckets[n][b].nLockCount

(* It begins to receive nothing, and to want nothing.                      *)
NoReceipt ==
    \A n \in Nodes, b \in Buckets : /\ Receiving(n, b)' => Receiving(n, b)
                                    /\ Wanting(n, b)' => Wanting(n, b)

(* What has become overdue or too old stays so.                            *)
Gone(n) == overdue[n] \cup old[n]
GoneGrows == \A n \in Nodes : Gone(n) \subseteq Gone(n)'

(* A lock ends only when it is overdue, or its bucket is too old.          *)
LocksHold == \A n \in Nodes : \A b \in Buckets \ Gone(n)' : IsLocked(n, b) => IsLocked(n, b)'

LEMMA CoverKeeps ==
    ASSUME NEW n \in Nodes, NEW b \in Buckets, Covered(n, b), Fewer(net, net', n, b),
           Receiving(n, b)' => Receiving(n, b), Wanting(n, b)' => Wanting(n, b),
           IsLocked(n, b) /\ (Asked(net', n, b) \/ Receiving(n, b)') => IsLocked(n, b)'
    PROVE  Covered(n, b)'
<1>1. /\ Asked(net', n, b) => Asked(net, n, b)
      /\ AskedOnce(net, n, b) => AskedOnce(net', n, b)
  BY FewerAsks
<1> QED
  BY <1>1 DEF Covered

LEMMA SameLocksKeep ==
    ASSUME SameLocks, NEW n \in Nodes, NEW b \in Buckets
    PROVE  IsLocked(n, b)' <=> IsLocked(n, b)
BY DEF SameLocks, IsLocked

(* A step that asks for nothing, and receives nothing new.                 *)
LEMMA HoldKeeps ==
    ASSUME LockInv, FewerAll, LocksHold, NoReceipt, GoneGrows
    PROVE  LockInv'
<1> SUFFICES ASSUME NEW n \in Nodes, NEW b \in Buckets \ Gone(n)'
             PROVE  Covered(n, b)'
  BY DEF LockInv, Gone
<1>1. b \in Buckets /\ Covered(n, b)
  BY DEF LockInv, Gone, GoneGrows
<1> QED
  BY <1>1, CoverKeeps DEF FewerAll, NoReceipt, LocksHold

LEMMA EasyKeeps ==
    ASSUME LockInv, FewerAll, SameLocks, NoReceipt, GoneGrows
    PROVE  LockInv'
<1>1. LocksHold
  BY SameLocksKeep DEF LocksHold
<1> QED
  BY <1>1, HoldKeeps

LEMMA SameBuckets ==
    ASSUME UNCHANGED smsgBuckets
    PROVE  SameLocks
BY DEF SameLocks

LEMMA SameHandler ==
    ASSUME UNCHANGED handler
    PROVE  NoReceipt
BY DEF NoReceipt, Receiving, Wanting

LEMMA SameGone ==
    ASSUME UNCHANGED <<old, overdue>>
    PROVE  GoneGrows
BY DEF GoneGrows, Gone

(* The handler turns to something else than an answer.                     *)
LEMMA OtherHandler ==
    ASSUME HandlerOK, NEW n \in Nodes, NEW h, handler' = [handler EXCEPT ![n] = h],
           h.op = "receive" => handler[n].op = "receive" /\ h.bucket = handler[n].bucket,
           h.op # "want"
    PROVE  NoReceipt
<1>1. handler'[n] = h /\ \A x \in Nodes \ {n} : handler'[x] = handler[x]
  BY DEF HandlerOK
<1> QED
  BY <1>1 DEF NoReceipt, Receiving, Wanting

(* Whoever sends and receives plain messages, and locks nothing.           *)
LEMMA PlainKeeps ==
    ASSUME LockInv, FewerAll, NoReceipt,
           UNCHANGED <<fSecMsgEnabled, disabling, smsgBuckets, old, overdue>>
    PROVE  LockInv'
<1>1. SameLocks /\ GoneGrows
  BY SameBuckets, SameGone
<1> QED
  BY <1>1, EasyKeeps

LEMMA PlainReply ==
    ASSUME SmsgInv, LockInv, NEW n \in Nodes, NEW p \in Peers(n), net[p][n] # << >>,
           NEW msgs \in Seq(Message), Plain(msgs), Reply(n, p, msgs), UNCHANGED <<Rest, smsgBuckets>>
    PROVE  LockInv'
<1>1. FewerAll
  BY ReplyFewer DEF SmsgInv, FewerAll
<1>2. NoReceipt
  BY SameHandler DEF Rest, threads
<1> QED
  BY <1>1, <1>2, PlainKeeps DEF Rest

(* What moves neither message nor lock.                                    *)
LEMMA QuietKeeps ==
    ASSUME SmsgInv, LockInv, NoReceipt,
           UNCHANGED <<net, fSecMsgEnabled, disabling, smsgBuckets, old, overdue>>
    PROVE  LockInv'
<1>1. FewerAll
  BY SameNetFewer DEF SmsgInv, FewerAll
<1> QED
  BY <1>1, PlainKeeps

-----------------------------------------------------------------------------
LEMMA LockInit == SmsgInit => LockInv
<1> SUFFICES ASSUME SmsgInit
             PROVE  LockInv
  OBVIOUS
<1>1. \A n \in Nodes : \A p \in Peers(n) : net[n][p] = << >>
  BY DEF SmsgInit
<1>2. ASSUME NEW n \in Nodes, NEW b \in Buckets
      PROVE  Covered(n, b)
  <2>1. \A x \in Nodes : \A y \in Peers(x) : \A i \in Nat : ~AskAt(net, n, b, x, y, i)
    BY <1>1 DEF AskAt
  <2>2. ~Receiving(n, b) /\ ~Wanting(n, b)
    BY DEF SmsgInit, Receiving, Wanting, Idle
  <2> QED
    BY <2>1, <2>2 DEF Covered, Asked, AskedOnce
<1> QED
  BY <1>2 DEF LockInv

(* First contact, announcements and flags.                                 *)
LEMMA LockSendPing ==
    ASSUME SmsgInv, LockInv, NEW n \in Nodes, NEW p \in Peers(n), SendPing(n, p)
    PROVE  LockInv'
<1>1. [type |-> "smsgPing"] \in Message
  BY SimpleMessages
<1>2. <<[type |-> "smsgPing"]>> \in Seq(Message) /\ Plain(<<[type |-> "smsgPing"]>>)
  BY <1>1, PlainSeqs
<1>3. FewerAll
  BY <1>2, PushFewer DEF SendPing, SmsgInv, FewerAll
<1>4. NoReceipt
  BY SameHandler DEF SendPing, threads
<1> QED
  BY <1>3, <1>4, PlainKeeps DEF SendPing, store, history

LEMMA LockBeginSend ==
    ASSUME SmsgInv, LockInv, NEW n \in Nodes, NEW p \in Peers(n), BeginSend(n, p)
    PROVE  LockInv'
<1>1. PICK again : handler' = [handler EXCEPT ![n] =
                       [op |-> "begin", peer |-> p, since |-> again, again |-> again]]
  BY DEF BeginSend
<1>2. NoReceipt
  <2> DEFINE h == [op |-> "begin", peer |-> p, since |-> again, again |-> again]
  <2>1. handler' = [handler EXCEPT ![n] = h] /\ h.op = "begin"
    BY <1>1
  <2> HIDE DEF h
  <2> QED
    BY <2>1, OtherHandler DEF SmsgInv
<1> QED
  BY <1>2, QuietKeeps DEF BeginSend, store, peers, history

LEMMA LockSendInv ==
    ASSUME SmsgInv, LockInv, NEW n \in Nodes, SendInv(n)
    PROVE  LockInv'
<1> DEFINE p == handler[n].peer
           shown == {b \in smsgData[n][p].due : Tokens(n, b) # {}}
           inv == [b \in shown |-> [nMessages |-> Cardinality(Tokens(n, b)),
                                    hash |-> smsgBuckets[n][b].hash]]
           msg == [type |-> "smsgInv", inv |-> inv]
<1>1. /\ handler[n].op = "begin"
      /\ UNCHANGED <<fSecMsgEnabled, disabling, store, old, history>>
      /\ handler' = [handler EXCEPT ![n].op = "end"]
      /\ Push(n, p, IF shown = {} THEN << >> ELSE <<msg>>)
  BY DEF SendInv
<1>2. /\ handler[n] \in [op : {"begin", "end"}, peer : Nodes, since : SUBSET Buckets,
                         again : SUBSET Buckets]
      /\ p \in Peers(n)
  BY <1>1, Sending DEF SmsgInv
<1>3. msg \in Message
  <2>1. shown \subseteq Buckets
    BY <1>2 DEF SmsgInv, PeersOK, PeerData
  <2>2. \A b \in Buckets : Tokens(n, b) \in SUBSET Msgs /\ smsgBuckets[n][b].hash \in SUBSET Msgs
    BY DEF SmsgInv, StoreOK, Bucket, Tokens
  <2>3. inv \in [shown -> Announced]
    BY <2>1, <2>2 DEF Announced
  <2> HIDE DEF shown, inv
  <2> QED
    BY <2>1, <2>3, Made
<1>4. msg.type = "smsgInv"
  OBVIOUS
<1>5. FewerAll
  <2> HIDE DEF shown, msg
  <2>1. <<msg>> \in Seq(Message) /\ Plain(<<msg>>) /\ << >> \in Seq(Message) /\ Plain(<< >>)
    BY <1>3, <1>4, PlainSeqs
  <2> QED
    BY <1>1, <1>2, <2>1, PushFewer DEF SmsgInv, FewerAll
<1>6. NoReceipt
  <2>1. handler' = [handler EXCEPT ![n] = [handler[n] EXCEPT !.op = "end"]]
    BY <1>1
  <2>2. [handler[n] EXCEPT !.op = "end"].op = "end"
    BY <1>2
  <2> HIDE DEF msg, shown
  <2> QED
    BY <2>1, <2>2, OtherHandler DEF SmsgInv
<1> QED
  BY <1>1, <1>5, <1>6, PlainKeeps DEF store, history

LEMMA LockEndSend ==
    ASSUME SmsgInv, LockInv, NEW n \in Nodes, EndSend(n)
    PROVE  LockInv'
<1>1. NoReceipt
  <2>1. handler' = [handler EXCEPT ![n] = Idle] /\ Idle.op = "idle"
    BY DEF EndSend, Idle
  <2> QED
    BY <2>1, OtherHandler DEF SmsgInv
<1> QED
  BY <1>1, QuietKeeps DEF EndSend, store, history

-----------------------------------------------------------------------------
(* What the message handler finds.                                         *)

LEMMA LockDiscard ==
    ASSUME SmsgInv, LockInv, NEW n \in Nodes, NEW p \in Peers(n), Discard(n, p)
    PROVE  LockInv'
BY PlainSeqs, PlainReply DEF Discard, store

LEMMA LockReceiveSimple ==
    ASSUME SmsgInv, LockInv, NEW n \in Nodes, NEW p \in Peers(n),
           \/ ReceivePing(n, p) \/ ReceivePong(n, p) \/ ReceiveDisabled(n, p) \/ ReceiveIgnore(n, p)
    PROVE  LockInv'
<1>1. net[p][n] # << >> /\ UNCHANGED <<Rest, smsgBuckets>>
  BY DEF ReceivePing, ReceivePong, ReceiveDisabled, ReceiveIgnore, Arrives, store
<1>2. [type |-> "smsgPong"] \in Message
  BY SimpleMessages
<1>3. <<[type |-> "smsgPong"]>> \in Seq(Message) /\ Plain(<<[type |-> "smsgPong"]>>)
  BY <1>2, PlainSeqs
<1>4. Reply(n, p, << >>) \/ Reply(n, p, <<[type |-> "smsgPong"]>>)
  BY DEF ReceivePing, ReceivePong, ReceiveDisabled, ReceiveIgnore
<1> QED
  BY <1>1, <1>3, <1>4, PlainSeqs, PlainReply

LEMMA LockReceiveInv ==
    ASSUME SmsgInv, LockInv, NEW n \in Nodes, NEW p \in Peers(n), ReceiveInv(n, p)
    PROVE  LockInv'
<1> DEFINE inv == Head(net[p][n]).inv
           open == {b \in DOMAIN inv \ old[n] : ~IsLocked(n, b)}
           show == {b \in open : Lacks(n, b, inv[b])}
           msg == [type |-> "smsgShow", show |-> show]
<1>1. net[p][n] # << >> /\ Head(net[p][n]) \in Message /\ Head(net[p][n]).type = "smsgInv"
  BY HeadIsMessage DEF ReceiveInv, Arrives, SmsgInv
<1>2. show \subseteq Buckets
  BY <1>1, MessageCarries
<1>3. msg \in Message /\ msg.type = "smsgShow"
  BY <1>2, Made
<1>4. Reply(n, p, << >>) \/ Reply(n, p, <<msg>>)
  BY DEF ReceiveInv
<1>5. UNCHANGED <<Rest, smsgBuckets>>
  BY DEF ReceiveInv, store
<1> HIDE DEF msg
<1>6. <<msg>> \in Seq(Message) /\ Plain(<<msg>>)
  BY <1>3, PlainSeqs
<1> QED
  BY <1>1, <1>4, <1>5, <1>6, PlainSeqs, PlainReply

LEMMA LockReceiveShow ==
    ASSUME SmsgInv, LockInv, NEW n \in Nodes, NEW p \in Peers(n), ReceiveShow(n, p)
    PROVE  LockInv'
<1> DEFINE has == {b \in Head(net[p][n]).show : Tokens(n, b) # {}}
           answers == {[type |-> "smsgHave", bucket |-> b, have |-> Tokens(n, b)] : b \in has}
<1>1. net[p][n] # << >> /\ Head(net[p][n]) \in Message /\ Head(net[p][n]).type = "smsgShow"
  BY HeadIsMessage DEF ReceiveShow, Arrives, SmsgInv
<1>2. has \subseteq Buckets
  BY <1>1, MessageCarries
<1>3. answers \subseteq Message /\ \A msg \in answers : msg.type = "smsgHave"
  <2>1. \A b \in has : b \in Buckets /\ Tokens(n, b) \in SUBSET Msgs
    BY <1>2 DEF SmsgInv, StoreOK, Bucket, Tokens
  <2>2. answers \subseteq Message
    BY <2>1, Made
  <2>3. \A msg \in answers : msg.type = "smsgHave"
    OBVIOUS
  <2> QED
    BY <2>2, <2>3
<1>4. IsFiniteSet(answers)
  <2>1. IsFiniteSet(has)
    BY <1>2, SmsgAssumption, FS_Subset DEF SmsgAssumption
  <2> DEFINE f == [b \in has |-> [type |-> "smsgHave", bucket |-> b, have |-> Tokens(n, b)]]
  <2>2. f \in Surjection(has, answers)
    BY DEF Surjection
  <2> HIDE DEF has, answers, f
  <2> QED
    BY <2>1, <2>2, FS_Surjection
<1>5. SetToSeq(answers) \in Seq(Message) /\ Plain(SetToSeq(answers))
  <2> HIDE DEF answers
  <2>1. SetToSeq(answers) \in Seq(answers)
    BY <1>4, SetToSeqOfFinite
  <2>2. \A j \in DOMAIN SetToSeq(answers) : SetToSeq(answers)[j] \in answers
    BY <2>1
  <2>3. Plain(SetToSeq(answers))
    BY <1>3, <2>2 DEF Plain
  <2> QED
    BY <1>3, <2>1, <2>3
<1>6. Reply(n, p, SetToSeq(answers)) /\ UNCHANGED <<Rest, smsgBuckets>>
  BY DEF ReceiveShow, store
<1> HIDE DEF answers
<1> QED
  BY <1>1, <1>5, <1>6, PlainReply

(* What is under way of the requests of m after a reply: what was, and     *)
(* what the reply holds.                                                   *)
LEMMA ReplyAsks ==
    ASSUME NetOK, NEW n \in Nodes, NEW p \in Peers(n), net[p][n] # << >>,
           NEW msgs \in Seq(Message), Reply(n, p, msgs), NEW m \in Nodes, NEW b \in Buckets,
           NEW x \in Nodes, NEW y \in Peers(x), NEW i \in Nat, AskAt(net', m, b, x, y, i)
    PROVE  \/ x = p /\ y = n /\ i + 1 # 1 /\ AskAt(net, m, b, x, y, i + 1)
           \/ ~(x = p /\ y = n) /\ AskAt(net, m, b, x, y, i)
           \/ /\ x = n /\ y = p
              /\ \E j \in DOMAIN msgs : i = Len(net[n][p]) + j
              /\ \E j \in DOMAIN msgs : /\ \/ msgs[j].type = "smsgWant" /\ x = m
                                           \/ msgs[j].type = "smsgMsg" /\ y = m
                                        /\ msgs[j].bucket = b
<1>1. /\ net'[p][n] = Tail(net[p][n]) /\ net'[n][p] = net[n][p] \o msgs
      /\ ~(x = p /\ y = n) /\ ~(x = n /\ y = p) => net'[x][y] = net[x][y]
  BY ReplyChange
<1>2. /\ p \in Nodes /\ n # p /\ n \in Peers(p)
      /\ net[n][p] \in Seq(Message) /\ net[p][n] \in Seq(Message)
  BY DEF NetOK, Peers
<1>3. CASE x = p /\ y = n
  <2>1. i \in DOMAIN Tail(net[p][n])
    BY <1>1, <1>3 DEF AskAt
  <2>2. i + 1 # 1 /\ i + 1 \in DOMAIN net[p][n] /\ Tail(net[p][n])[i] = net[p][n][i + 1]
    BY <1>2, <2>1
  <2> QED
    BY <1>1, <1>3, <2>2 DEF AskAt
<1>4. CASE x = n /\ y = p
  <2>1. i \in 1 .. Len(net[n][p]) + Len(msgs) /\ Len(net[n][p]) \in Nat /\ Len(msgs) \in Nat
    BY <1>1, <1>2, <1>4 DEF AskAt
  <2>2. CASE i \in 1 .. Len(net[n][p])
    <3>1. i \in DOMAIN net[n][p] /\ net'[n][p][i] = net[n][p][i]
      BY <1>1, <1>2, <2>1, <2>2
    <3> QED
      BY <1>2, <1>4, <3>1 DEF AskAt
  <2>3. CASE i \notin 1 .. Len(net[n][p])
    <3> DEFINE j == i - Len(net[n][p])
    <3>1. j \in DOMAIN msgs /\ net'[n][p][i] = msgs[j] /\ i = Len(net[n][p]) + j
      BY <1>1, <1>2, <2>1, <2>3
    <3>2. /\ \/ msgs[j].type = "smsgWant" /\ x = m
             \/ msgs[j].type = "smsgMsg" /\ y = m
          /\ msgs[j].bucket = b
      BY <1>4, <3>1 DEF AskAt
    <3>3. \E l \in DOMAIN msgs : i = Len(net[n][p]) + l
      BY <3>1
    <3>4. \E l \in DOMAIN msgs : /\ \/ msgs[l].type = "smsgWant" /\ x = m
                                    \/ msgs[l].type = "smsgMsg" /\ y = m
                                 /\ msgs[l].bucket = b
      BY <3>1, <3>2
    <3> QED
      BY <1>4, <3>3, <3>4
  <2> QED
    BY <2>2, <2>3
<1>5. CASE ~(x = p /\ y = n) /\ ~(x = n /\ y = p)
  BY <1>1, <1>5 DEF AskAt
<1> QED
  BY <1>3, <1>4, <1>5

(* What the reply holds is no request of m, nor an answer to one.          *)
NotFor(msgs, m, b, n, p) ==
    \A j \in DOMAIN msgs : ~ /\ \/ msgs[j].type = "smsgWant" /\ n = m
                                \/ msgs[j].type = "smsgMsg" /\ p = m
                             /\ msgs[j].bucket = b

LEMMA ReplyNotFor ==
    ASSUME NetOK, NEW n \in Nodes, NEW p \in Peers(n), net[p][n] # << >>,
           NEW msgs \in Seq(Message), Reply(n, p, msgs), NEW m \in Nodes, NEW b \in Buckets,
           NotFor(msgs, m, b, n, p)
    PROVE  Fewer(net, net', m, b)
<1> SUFFICES ASSUME NEW x \in Nodes, NEW y \in Peers(x)
             PROVE  \E k \in Nat : \A i \in Nat :
                        AskAt(net', m, b, x, y, i) => AskAt(net, m, b, x, y, i + k)
  BY DEF Fewer
<1>1. CASE x = p /\ y = n
  <2>1. \A i \in Nat : AskAt(net', m, b, x, y, i) => AskAt(net, m, b, x, y, i + 1)
    BY <1>1, ReplyAsks DEF NotFor, Peers
  <2> QED
    BY <2>1
<1>2. CASE ~(x = p /\ y = n)
  <2>1. \A i \in Nat : AskAt(net', m, b, x, y, i) => AskAt(net, m, b, x, y, i + 0)
    BY <1>2, ReplyAsks DEF NotFor
  <2> QED
    BY <2>1
<1> QED
  BY <1>1, <1>2

(* A reply of one message.                                                 *)
StillAsked(m, b, n, p) ==
    \A x \in Nodes : \A y \in Peers(x) : \A i \in Nat : AskAt(net', m, b, x, y, i) =>
        \/ x = p /\ y = n /\ i # 0 /\ AskAt(net, m, b, x, y, i + 1)
        \/ ~(x = p /\ y = n) /\ AskAt(net, m, b, x, y, i)
        \/ x = n /\ y = p /\ i = Len(net[n][p]) + 1

LEMMA ReplyOne ==
    ASSUME NetOK, NEW n \in Nodes, NEW p \in Peers(n), net[p][n] # << >>,
           NEW msg \in Message, Reply(n, p, <<msg>>), NEW m \in Nodes, NEW b \in Buckets
    PROVE  StillAsked(m, b, n, p)
<1> SUFFICES ASSUME NEW x \in Nodes, NEW y \in Peers(x), NEW i \in Nat, AskAt(net', m, b, x, y, i)
             PROVE  \/ x = p /\ y = n /\ i # 0 /\ AskAt(net, m, b, x, y, i + 1)
                    \/ ~(x = p /\ y = n) /\ AskAt(net, m, b, x, y, i)
                    \/ x = n /\ y = p /\ i = Len(net[n][p]) + 1
  BY DEF StillAsked
<1>1. PICK msgs \in Seq(Message) : msgs = <<msg>> /\ DOMAIN msgs = {1}
  <2>1. <<msg>> \in Seq(Message) /\ DOMAIN <<msg>> = {1}
    OBVIOUS
  <2> QED
    BY <2>1
<1>2. Reply(n, p, msgs)
  BY <1>1
<1>3. \/ x = p /\ y = n /\ i + 1 # 1 /\ AskAt(net, m, b, x, y, i + 1)
      \/ ~(x = p /\ y = n) /\ AskAt(net, m, b, x, y, i)
      \/ x = n /\ y = p /\ \E j \in DOMAIN msgs : i = Len(net[n][p]) + j
  BY <1>2, ReplyAsks
<1> QED
  BY <1>1, <1>3

LEMMA LockReceiveHave ==
    ASSUME SmsgInv, LockInv, NEW n \in Nodes, NEW p \in Peers(n), ReceiveHave(n, p)
    PROVE  LockInv'
<1>1. /\ net[p][n] # << >> /\ Reply(n, p, << >>)
      /\ UNCHANGED <<fSecMsgEnabled, disabling, smsgBuckets, old, overdue>>
  BY DEF ReceiveHave, Arrives, store, history
<1>2. FewerAll
  BY <1>1, PlainSeqs, ReplyFewer DEF SmsgInv, FewerAll
<1>3. NoReceipt
  <2> DEFINE h == [op |-> "have", peer |-> p, bucket |-> Head(net[p][n]).bucket,
                   have |-> Head(net[p][n]).have]
  <2>1. handler' = handler \/ handler' = [handler EXCEPT ![n] = h]
    BY DEF ReceiveHave
  <2>2. h.op = "have" /\ HandlerOK
    BY DEF SmsgInv
  <2> HIDE DEF h
  <2>3. CASE handler' = handler
    BY <2>3, SameHandler
  <2>4. CASE handler' = [handler EXCEPT ![n] = h]
    BY <2>2, <2>4, OtherHandler
  <2> QED
    BY <2>1, <2>3, <2>4
<1> QED
  BY <1>1, <1>2, <1>3, PlainKeeps

(* It goes on with a bucket only if that is not locked, so that nothing of *)
(* it is under way.                                                        *)
LEMMA LockSiftHave ==
    ASSUME SmsgInv, LockInv, NEW n \in Nodes, SiftHave(n)
    PROVE  LockInv'
<1>1. PICK b \in Buckets : b = handler[n].bucket
  BY Having DEF SiftHave, SmsgInv
<1> DEFINE want == [op |-> "want", peer |-> handler[n].peer, bucket |-> b, want |-> Missing(n)]
<1>2. /\ handler[n].op = "have" /\ HandlerOK /\ NetOK
      /\ UNCHANGED <<net, fSecMsgEnabled, disabling, smsgBuckets, old, overdue>>
      /\ \/ handler' = [handler EXCEPT ![n] = Idle]
         \/ ~IsLocked(n, b) /\ handler' = [handler EXCEPT ![n] = want]
  BY <1>1 DEF SiftHave, SmsgInv, HandlerOK, peers, store
<1>3. CASE handler' = [handler EXCEPT ![n] = Idle]
  <2>1. NoReceipt
    BY <1>2, <1>3, OtherHandler DEF Idle
  <2> QED
    BY <1>2, <2>1, QuietKeeps
<1>4. CASE ~IsLocked(n, b) /\ handler' = [handler EXCEPT ![n] = want]
  <2>1. want.op = "want" /\ want.bucket = b
    OBVIOUS
  <2> HIDE DEF want
  <2>2. /\ handler'[n].op = "want" /\ handler'[n].bucket = b
        /\ \A x \in Nodes \ {n} : handler'[x] = handler[x]
    BY <1>2, <1>4, <2>1 DEF HandlerOK
  <2>3. SameLocks /\ GoneGrows /\ FewerAll
    BY <1>2, SameBuckets, SameGone, SameNetFewer DEF FewerAll
  <2>4. ASSUME NEW m \in Nodes, NEW c \in Buckets \ Gone(m)'
        PROVE  Covered(m, c)'
    <3>1. c \in Buckets /\ Covered(m, c)
      BY <2>3 DEF LockInv, Gone, GoneGrows
    <3>2. CASE m # n \/ c # b
      <4>1. (Receiving(m, c)' => Receiving(m, c)) /\ (Wanting(m, c)' => Wanting(m, c))
        BY <2>2, <3>2 DEF Receiving, Wanting
      <4> QED
        BY <2>3, <3>1, <4>1, CoverKeeps, SameLocksKeep DEF FewerAll
    <3>3. CASE m = n /\ c = b
      <4>1. ~Asked(net, n, b) /\ AskedOnce(net, n, b)
        BY <1>4, <3>1, <3>3 DEF Covered
      <4>2. ~Receiving(n, b)'
        BY <2>2 DEF Receiving
      <4> QED
        BY <1>2, <3>3, <4>1, <4>2 DEF Covered
    <3> QED
      BY <3>2, <3>3
  <2> QED
    BY <2>4 DEF LockInv, Gone
<1> QED
  BY <1>2, <1>3, <1>4

(* A node sends one message.                                               *)
LEMMA PushOne ==
    ASSUME NetOK, NEW n \in Nodes, NEW p \in Peers(n), NEW msg \in Message, Push(n, p, <<msg>>)
    PROVE  /\ net'[n][p] = Append(net[n][p], msg)
           /\ \A x \in Nodes : \A y \in Peers(x) : x # n \/ y # p => net'[x][y] = net[x][y]
<1>1. net[n] \in [Peers(n) -> Seq(Message)] /\ net[n][p] \in Seq(Message)
  BY DEF NetOK
<1>2. net' = [net EXCEPT ![n] = [net[n] EXCEPT ![p] = net[n][p] \o <<msg>>]]
  BY DEF Push, NetOK
<1>3. /\ net'[n] = [net[n] EXCEPT ![p] = net[n][p] \o <<msg>>]
      /\ \A x \in Nodes \ {n} : net'[x] = net[x]
  BY <1>2 DEF NetOK
<1>4. net[n][p] \o <<msg>> = Append(net[n][p], msg)
  BY <1>1
<1> QED
  BY <1>1, <1>3, <1>4

(* It locks the bucket and asks: nothing of it was under way.              *)
LEMMA LockLockBucket ==
    ASSUME SmsgInv, LockInv, NEW n \in Nodes, LockBucket(n)
    PROVE  LockInv'
<1>1. PICK b \in Buckets, p \in Peers(n) \cup {None}, want \in SUBSET Msgs :
         b = handler[n].bucket /\ p = handler[n].peer /\ want = handler[n].want
  BY Having DEF LockBucket, SmsgInv
<1> DEFINE ask == [type |-> "smsgWant", bucket |-> b, want |-> want]
<1>2. ask \in Message /\ ask.type = "smsgWant" /\ ask.bucket = b
  BY Made
<1>3. /\ handler[n].op = "want" /\ handler' = [handler EXCEPT ![n] = Idle]
      /\ smsgBuckets' = [smsgBuckets EXCEPT ![n][b].nLockCount = LockTicks,
                                            ![n][b].nLockPeerId = p]
      /\ net' = IF p = None THEN net ELSE [net EXCEPT ![n][p] = Append(@, ask)]
      /\ UNCHANGED <<old, overdue>>
      /\ NetOK /\ HandlerOK /\ StoreOK
  BY <1>1 DEF LockBucket, SmsgInv, history
<1>4. /\ IsLocked(n, b)'
      /\ \A x \in Nodes : \A c \in Buckets :
            x # n \/ c # b => smsgBuckets'[x][c] = smsgBuckets[x][c]
  <2>1. smsgBuckets[n][b] \in Bucket /\ smsgBuckets[n] \in [Buckets -> Bucket]
    BY <1>3 DEF StoreOK
  <2>2. BucketIs(n, b, Locked(smsgBuckets[n][b], LockTicks, p))
    BY <1>3, <2>1 DEF BucketIs, Locked, Bucket, StoreOK
  <2>3. LockTicks \in 0 .. LockTicks /\ LockTicks > 0 /\ p \in Nodes \cup {None}
    BY SmsgAssumption DEF SmsgAssumption, Peers
  <2>4. Locked(smsgBuckets[n][b], LockTicks, p) \in Bucket
    BY <2>1, <2>3, BucketFields
  <2>5. Locked(smsgBuckets[n][b], LockTicks, p).nLockCount = LockTicks
    BY <2>1 DEF Locked, Bucket
  <2>6. /\ smsgBuckets'[n][b] = Locked(smsgBuckets[n][b], LockTicks, p)
        /\ \A x \in Nodes : \A c \in Buckets :
              x # n \/ c # b => smsgBuckets'[x][c] = smsgBuckets[x][c]
    BY <1>3, <2>2, <2>4, BucketChange
  <2> QED
    BY <2>3, <2>5, <2>6 DEF IsLocked
<1>5. handler'[n].op = "idle" /\ \A x \in Nodes \ {n} : handler'[x] = handler[x]
  BY <1>3 DEF HandlerOK, Idle
<1> HIDE DEF ask
<1>6. /\ p = None => \A x \in Nodes : \A y \in Peers(x) : net'[x][y] = net[x][y]
      /\ p # None => /\ p \in Peers(n) /\ net[n][p] \in Seq(Message)
                     /\ net'[n][p] = Append(net[n][p], ask)
                     /\ \A x \in Nodes : \A y \in Peers(x) :
                           x # n \/ y # p => net'[x][y] = net[x][y]
  <2>1. CASE p = None
    BY <1>3, <2>1
  <2>2. CASE p # None
    <3>1. p \in Peers(n) /\ net[n][p] \in Seq(Message)
      BY <1>3, <2>2 DEF NetOK
    <3>2. Append(net[n][p], ask) = net[n][p] \o <<ask>>
      BY <1>2, <3>1
    <3>3. Push(n, p, <<ask>>)
      BY <1>3, <2>2, <3>2 DEF Push
    <3>4. /\ net'[n][p] = Append(net[n][p], ask)
          /\ \A x \in Nodes : \A y \in Peers(x) : x # n \/ y # p => net'[x][y] = net[x][y]
      BY <1>2, <1>3, <3>1, <3>3, PushOne
    <3> QED
      BY <2>2, <3>1, <3>4
  <2> QED
    BY <2>1, <2>2
<1>7. ASSUME NEW m \in Nodes, NEW c \in Buckets, NEW x \in Nodes, NEW y \in Peers(x), NEW i \in Nat,
             AskAt(net', m, c, x, y, i)
      PROVE  \/ AskAt(net, m, c, x, y, i)
             \/ m = n /\ c = b /\ x = n /\ y = p /\ i = Len(net[n][p]) + 1
  <2>1. CASE net'[x][y] = net[x][y]
    BY <1>7, <2>1 DEF AskAt
  <2>2. CASE x = n /\ y = p /\ p # None
    <3>1. net[n][p] \in Seq(Message) /\ net'[n][p] = Append(net[n][p], ask)
      BY <1>6, <2>2
    <3>2. CASE i \in DOMAIN net[n][p]
      <4>1. net'[n][p][i] = net[n][p][i]
        BY <1>2, <3>1, <3>2
      <4> QED
        BY <1>7, <2>2, <3>2, <4>1 DEF AskAt
    <3>3. CASE i \notin DOMAIN net[n][p]
      <4>1. i \in DOMAIN net'[n][p]
        BY <1>7, <2>2 DEF AskAt
      <4>2. i = Len(net[n][p]) + 1 /\ net'[n][p][i] = ask
        BY <1>2, <3>1, <3>3, <4>1
      <4> QED
        BY <1>2, <1>7, <2>2, <4>2 DEF AskAt
    <3> QED
      BY <3>2, <3>3
  <2> QED
    BY <1>6, <2>1, <2>2
<1>8. ASSUME NEW m \in Nodes, NEW c \in Buckets \ Gone(m)', m # n \/ c # b
      PROVE  Covered(m, c)'
  <2>1. c \in Buckets /\ Covered(m, c)
    BY <1>3, <1>8 DEF LockInv, Gone
  <2>2. Fewer(net, net', m, c)
    <3> SUFFICES ASSUME NEW x \in Nodes, NEW y \in Peers(x)
                 PROVE  \E k \in Nat : \A i \in Nat :
                            AskAt(net', m, c, x, y, i) => AskAt(net, m, c, x, y, i + k)
      BY DEF Fewer
    <3>1. \A i \in Nat : AskAt(net', m, c, x, y, i) => AskAt(net, m, c, x, y, i + 0)
      BY <1>7, <1>8, <2>1
    <3> QED
      BY <3>1
  <2>3. IsLocked(m, c)' <=> IsLocked(m, c)
    BY <1>4, <1>8, <2>1 DEF IsLocked
  <2>4. (Receiving(m, c)' => Receiving(m, c)) /\ (Wanting(m, c)' => Wanting(m, c))
    BY <1>5 DEF Receiving, Wanting
  <2> QED
    BY <2>1, <2>2, <2>3, <2>4, CoverKeeps
<1>9. ASSUME b \notin Gone(n)'
      PROVE  Covered(n, b)'
  <2>1. ~Asked(net, n, b)
    BY <1>1, <1>3, <1>9 DEF LockInv, Gone, Covered, Wanting
  <2>2. ~Receiving(n, b)' /\ ~Wanting(n, b)'
    BY <1>5 DEF Receiving, Wanting
  <2>3. Alone(net', n, b, n, p, Len(net[n][p]) + 1)
    BY <1>7, <2>1 DEF Alone, Asked
  <2> QED
    BY <1>4, <2>2, <2>3, AloneIsOnce DEF Covered
<1> QED
  BY <1>8, <1>9 DEF LockInv, Gone

(* The answer takes the place of the request.                              *)
LEMMA LockReceiveWant ==
    ASSUME SmsgInv, LockInv, NEW n \in Nodes, NEW p \in Peers(n), ReceiveWant(n, p)
    PROVE  LockInv'
<1>1. net[p][n] # << >> /\ Head(net[p][n]) \in Message /\ Head(net[p][n]).type = "smsgWant"
  BY HeadIsMessage DEF ReceiveWant, Arrives, SmsgInv
<1>2. PICK b \in Buckets : b = Head(net[p][n]).bucket
  BY <1>1, MessageCarries
<1> DEFINE Answer(bunch) == [type |-> "smsgMsg", bucket |-> b, bunch |-> bunch]
<1>9. p \in Nodes /\ n \in Peers(p) /\ p # n
  BY DEF Peers
<1>3. PICK bunch \in Bunches(n, b, Head(net[p][n]).want \cap Tokens(n, b)) :
        Reply(n, p, IF bunch = {} THEN << >> ELSE <<Answer(bunch)>>)
  BY <1>2 DEF ReceiveWant
<1>4. bunch \in SUBSET Msgs /\ bunch \subseteq In(b)
  BY DEF Bunches, SmsgInv, StoreOK, In
<1> DEFINE msg == Answer(bunch)
<1>5. msg \in Message /\ msg.type = "smsgMsg" /\ msg.bucket = b
  BY <1>2, <1>9, <1>4, Made
<1>6. UNCHANGED <<Rest, smsgBuckets>> /\ NetOK
  BY DEF ReceiveWant, store, SmsgInv
<1>7. CASE bunch = {}
  BY <1>1, <1>3, <1>6, <1>7, PlainSeqs, PlainReply
<1>8. CASE bunch # {}
  <2>1. Reply(n, p, <<msg>>)
    BY <1>3, <1>8
  <2>2. SameLocks /\ NoReceipt /\ GoneGrows
    BY <1>6, SameBuckets, SameHandler, SameGone DEF Rest, threads
  <2>3. AskAt(net, p, b, p, n, 1)
    <3>1. net[p][n] \in Seq(Message)
      BY <1>2, <1>9, <1>6, Channels
    <3>2. 1 \in DOMAIN net[p][n] /\ net[p][n][1] = Head(net[p][n])
      BY <1>1, <3>1
    <3> QED
      BY <1>1, <1>2, <3>2 DEF AskAt
  <2> HIDE DEF msg
  <2>4. <<msg>> \in Seq(Message) /\ DOMAIN <<msg>> = {1} /\ <<msg>>[1] = msg
    BY <1>5
  <2>5. ASSUME NEW m \in Nodes, NEW c \in Buckets \ Gone(m)', m # p \/ c # b
        PROVE  Covered(m, c)'
    <3>1. c \in Buckets /\ Covered(m, c)
      BY <2>2 DEF LockInv, Gone, GoneGrows
    <3>2. NotFor(<<msg>>, m, c, n, p)
      BY <1>5, <2>4, <2>5 DEF NotFor
    <3>3. Fewer(net, net', m, c)
      BY <1>1, <1>6, <2>1, <2>4, <3>1, <3>2, ReplyNotFor
    <3> QED
      BY <2>2, <3>1, <3>3, CoverKeeps, SameLocksKeep DEF NoReceipt
  <2>6. ASSUME b \notin Gone(p)'
        PROVE  Covered(p, b)'
    <3>1. Covered(p, b)
      BY <1>2, <1>9, <2>2, <2>6 DEF LockInv, Gone, GoneGrows
    <3>2. Asked(net, p, b)
      BY <1>2, <1>9, <2>3 DEF Asked
    <3>3. IsLocked(p, b)' /\ ~Receiving(p, b)' /\ ~Wanting(p, b)'
      BY <1>2, <1>9, <2>2, <3>1, <3>2, SameLocksKeep DEF Covered, NoReceipt
    <3>4. Alone(net', p, b, n, p, Len(net[n][p]) + 1)
      <4> SUFFICES ASSUME NEW x \in Nodes, NEW y \in Peers(x), NEW i \in Nat, AskAt(net', p, b, x, y, i)
                   PROVE  x = n /\ y = p /\ i = Len(net[n][p]) + 1
        BY DEF Alone
      <4>1. i + 1 \in Nat
        OBVIOUS
      <4>2. \A j \in Nat : AskAt(net, p, b, x, y, j) => x = p /\ y = n /\ j = 1
        BY <1>2, <1>9, <2>3, <3>1 DEF Covered, AskedOnce
      <4>3. StillAsked(p, b, n, p)
        BY <1>1, <1>2, <1>5, <1>6, <1>9, <2>1, ReplyOne
      <4> QED
        BY <1>9, <4>1, <4>2, <4>3 DEF StillAsked
    <3> QED
      BY <3>3, <3>4, AloneIsOnce DEF Covered
  <2> QED
    BY <2>2, <2>5, <2>6 DEF LockInv, Gone
<1> QED
  BY <1>7, <1>8

(* The handler takes the answer: what was under way is now being received. *)
LEMMA LockReceiveMsg ==
    ASSUME SmsgInv, LockInv, NEW n \in Nodes, NEW p \in Peers(n), ReceiveMsg(n, p)
    PROVE  LockInv'
<1>1. /\ net[p][n] # << >> /\ Head(net[p][n]) \in Message /\ Head(net[p][n]).type = "smsgMsg"
      /\ p \in Nodes /\ n \in Peers(p) /\ p # n /\ NetOK /\ HandlerOK
  BY HeadIsMessage DEF ReceiveMsg, Arrives, SmsgInv, Peers
<1>2. PICK b \in Buckets : b = Head(net[p][n]).bucket
  BY <1>1, MessageCarries
<1>3. /\ Reply(n, p, << >>)
      /\ UNCHANGED <<fSecMsgEnabled, disabling, smsgBuckets, old, overdue>>
  BY DEF ReceiveMsg, store, history
<1>4. SameLocks /\ GoneGrows /\ FewerAll
  BY <1>1, <1>3, SameBuckets, SameGone, PlainSeqs, ReplyFewer DEF FewerAll
<1>5. CASE b \in old[n]
  <2>1. NoReceipt
    BY <1>2, <1>5, SameHandler DEF ReceiveMsg
  <2> QED
    BY <1>4, <2>1, EasyKeeps
<1>6. CASE b \notin old[n]
  <2>1. PICK h : /\ handler' = [handler EXCEPT ![n] = h] /\ h.op = "receive" /\ h.bucket = b
    <3> DEFINE h == [op |-> "receive", bucket |-> b, bunch |-> Head(net[p][n]).bunch]
    <3>1. handler' = [handler EXCEPT ![n] = h]
      BY <1>2, <1>6 DEF ReceiveMsg
    <3>2. h.op = "receive" /\ h.bucket = b
      OBVIOUS
    <3> HIDE DEF h
    <3> QED
      BY <3>1, <3>2
  <2>2. /\ handler'[n].op = "receive" /\ handler'[n].bucket = b
        /\ \A x \in Nodes \ {n} : handler'[x] = handler[x]
    BY <1>1, <2>1 DEF HandlerOK
  <2>3. AskAt(net, n, b, p, n, 1)
    <3>1. net[p][n] \in Seq(Message)
      BY <1>1, Channels
    <3>2. 1 \in DOMAIN net[p][n] /\ net[p][n][1] = Head(net[p][n])
      BY <1>1, <3>1
    <3> QED
      BY <1>1, <1>2, <3>2 DEF AskAt
  <2>4. ASSUME NEW m \in Nodes, NEW c \in Buckets \ Gone(m)', m # n \/ c # b
        PROVE  Covered(m, c)'
    <3>1. c \in Buckets /\ Covered(m, c)
      BY <1>4 DEF LockInv, Gone, GoneGrows
    <3>2. (Receiving(m, c)' => Receiving(m, c)) /\ (Wanting(m, c)' => Wanting(m, c))
      BY <2>2, <2>4 DEF Receiving, Wanting
    <3> QED
      BY <1>4, <3>1, <3>2, CoverKeeps, SameLocksKeep DEF FewerAll
  <2>5. ASSUME b \notin Gone(n)'
        PROVE  Covered(n, b)'
    <3>1. Covered(n, b)
      BY <1>2, <1>4, <2>5 DEF LockInv, Gone, GoneGrows
    <3>2. IsLocked(n, b)'
      <4>1. Asked(net, n, b)
        BY <1>1, <2>3 DEF Asked
      <4> QED
        BY <1>2, <1>4, <3>1, <4>1, SameLocksKeep DEF Covered
    <3>3. ~Asked(net', n, b)
      <4> SUFFICES ASSUME NEW x \in Nodes, NEW y \in Peers(x), NEW i \in Nat, AskAt(net', n, b, x, y, i)
                   PROVE  FALSE
        BY DEF Asked
      <4>1. i + 1 \in Nat
        OBVIOUS
      <4>2. \A j \in Nat : AskAt(net, n, b, x, y, j) => x = p /\ y = n /\ j = 1
        BY <1>1, <2>3, <3>1 DEF Covered, AskedOnce
      <4>3. /\ net'[p][n] = Tail(net[p][n]) /\ net'[n][p] = net[n][p] \o << >>
            /\ ~(x = p /\ y = n) /\ ~(x = n /\ y = p) => net'[x][y] = net[x][y]
        BY <1>1, <1>3, PlainSeqs, ReplyChange
      <4>4. net[n][p] \in Seq(Message) /\ net[p][n] \in Seq(Message)
        BY <1>1, Channels
      <4>5. CASE x = p /\ y = n
        <5>1. i \in DOMAIN Tail(net[p][n])
          BY <4>3, <4>5 DEF AskAt
        <5>2. i + 1 # 1 /\ i + 1 \in DOMAIN net[p][n] /\ Tail(net[p][n])[i] = net[p][n][i + 1]
          BY <4>4, <5>1
        <5>3. AskAt(net, n, b, x, y, i + 1)
          BY <4>3, <4>5, <5>2 DEF AskAt
        <5> QED
          BY <4>1, <4>2, <5>2, <5>3
      <4>6. CASE ~(x = p /\ y = n)
        <5>1. net'[x][y] = net[x][y]
          BY <4>3, <4>4, <4>6
        <5>2. AskAt(net, n, b, x, y, i)
          BY <5>1 DEF AskAt
        <5> QED
          BY <4>2, <4>6, <5>2
      <4> QED
        BY <4>5, <4>6
    <3>4. AskedOnce(net', n, b) /\ ~Wanting(n, b)'
      BY <2>2, <3>3 DEF AskedOnce, Asked, Wanting
    <3> QED
      BY <3>2, <3>3, <3>4 DEF Covered
  <2> QED
    BY <1>4, <2>4, <2>5 DEF LockInv, Gone
<1> QED
  BY <1>5, <1>6

LEMMA LockReceive ==
    ASSUME SmsgInv, LockInv, NEW n \in Nodes, NEW p \in Peers(n), Receive(n, p)
    PROVE  LockInv'
BY LockDiscard, LockReceiveSimple, LockReceiveInv, LockReceiveShow, LockReceiveHave, LockReceiveWant,
   LockReceiveMsg DEF Receive

-----------------------------------------------------------------------------
(* What lies between the answer and the end of SecureMsgReceive.           *)

(* Some buckets of one node change, but for their locks.                   *)
LEMMA LocksStay ==
    ASSUME StoreOK, NEW n \in Nodes, NEW b \in Buckets, NEW new, BucketIs(n, b, new),
           new.nLockCount = smsgBuckets[n][b].nLockCount
    PROVE  SameLocks
<1>1. smsgBuckets[n] \in [Buckets -> Bucket]
  BY DEF StoreOK
<1>2. /\ smsgBuckets'[n][b] = new
      /\ \A x \in Nodes : \A c \in Buckets :
            x # n \/ c # b => smsgBuckets'[x][c] = smsgBuckets[x][c]
  BY <1>1 DEF StoreOK, BucketIs
<1> QED
  BY <1>2 DEF SameLocks

LEMMA LockStoreMsg ==
    ASSUME SmsgInv, LockInv, NEW n \in Nodes, StoreMsg(n)
    PROVE  LockInv'
<1>1. /\ handler[n].op = "receive"
      /\ UNCHANGED <<fSecMsgEnabled, disabling, net, old, overdue>>
  BY DEF StoreMsg, peers
<1>2. /\ handler[n] \in [op : {"receive"}, bucket : Buckets, bunch : SUBSET Msgs]
      /\ handler[n].bunch \subseteq In(handler[n].bucket)
  BY <1>1, Receives DEF SmsgInv
<1>3. PICK m \in handler[n].bunch :
        /\ \/ handler' = [handler EXCEPT ![n].bunch = @ \ {m}]
           \/ handler' = [handler EXCEPT ![n].bunch = {}]
        /\ Put(n, m) \/ UNCHANGED store
  BY DEF StoreMsg
<1>4. NoReceipt
  <2>1. PICK bunch : handler' = [handler EXCEPT ![n] = [handler[n] EXCEPT !.bunch = bunch]]
    BY <1>3
  <2>2. /\ [handler[n] EXCEPT !.bunch = bunch].op = "receive"
        /\ [handler[n] EXCEPT !.bunch = bunch].bucket = handler[n].bucket
    BY <1>2
  <2> QED
    BY <1>1, <2>1, <2>2, OtherHandler DEF SmsgInv
<1>5. SameLocks
  <2>1. CASE UNCHANGED store
    BY <2>1, SameBuckets DEF store
  <2>2. CASE Put(n, m)
    <3>1. m \in Msgs /\ BucketOf[m] \in Buckets
      BY <1>2, SmsgAssumption DEF SmsgAssumption
    <3>2. smsgBuckets[n][BucketOf[m]] \in Bucket /\ StoreOK
      BY <3>1 DEF SmsgInv, StoreOK
    <3>3. BucketIs(n, BucketOf[m], Holding(smsgBuckets[n][BucketOf[m]], Tokens(n, BucketOf[m]) \cup {m}))
      BY <2>2 DEF Put, BucketIs, Holding, Tokens
    <3>4. Holding(smsgBuckets[n][BucketOf[m]], Tokens(n, BucketOf[m]) \cup {m}).nLockCount
          = smsgBuckets[n][BucketOf[m]].nLockCount
      BY <3>2 DEF Holding, Bucket
    <3> QED
      BY <3>1, <3>2, <3>3, <3>4, LocksStay
  <2> QED
    BY <1>3, <2>1, <2>2
<1>6. FewerAll /\ GoneGrows
  BY <1>1, SameNetFewer, SameGone DEF SmsgInv, FewerAll
<1> QED
  BY <1>4, <1>5, <1>6, EasyKeeps

(* Nothing of the bucket is under way when its lock is released.           *)
LEMMA LockEndReceive ==
    ASSUME SmsgInv, LockInv, NEW n \in Nodes, EndReceive(n)
    PROVE  LockInv'
<1>1. /\ handler[n].op = "receive"
      /\ UNCHANGED <<fSecMsgEnabled, disabling, net, old, overdue>>
      /\ handler' = [handler EXCEPT ![n] = Idle]
  BY DEF EndReceive, history
<1>2. PICK b \in Buckets : b = handler[n].bucket
  BY <1>1, Receives DEF SmsgInv
<1>3. PICK new \in Bucket : new.nLockCount = 0 /\ BucketIs(n, b, new)
  <2>1. [NoBucket EXCEPT !.setTokens = Tokens(n, b), !.hash = Tokens(n, b)]
        = Hashed(NoBucket, Tokens(n, b))
    BY DEF Hashed
  <2>2. Tokens(n, b) \in SUBSET Msgs
    BY DEF SmsgInv, StoreOK, Bucket, Tokens
  <2>3. Hashed(NoBucket, Tokens(n, b)) \in Bucket
    BY <2>2, NoBucketIsBucket, BucketFields
  <2>4. Hashed(NoBucket, Tokens(n, b)).nLockCount = 0
    BY DEF Hashed, NoBucket
  <2>5. BucketIs(n, b, Hashed(NoBucket, Tokens(n, b)))
    BY <1>2, <2>1 DEF EndReceive, BucketIs, SmsgInv, StoreOK
  <2> QED
    BY <2>3, <2>4, <2>5
<1>4. /\ smsgBuckets'[n][b] = new
      /\ \A x \in Nodes : \A c \in Buckets :
            x # n \/ c # b => smsgBuckets'[x][c] = smsgBuckets[x][c]
  BY <1>3, BucketChange DEF SmsgInv
<1>5. ~Receiving(n, b)' /\ NoReceipt
  <2>1. handler'[n] = Idle
    BY <1>1 DEF SmsgInv, HandlerOK
  <2>2. Idle.op = "idle" /\ HandlerOK
    BY DEF Idle, SmsgInv
  <2>3. NoReceipt
    BY <1>1, <2>2, OtherHandler
  <2> QED
    BY <2>1, <2>2, <2>3 DEF Receiving
<1>6. FewerAll /\ GoneGrows
  BY <1>1, SameNetFewer, SameGone DEF SmsgInv, FewerAll
<1>7. ASSUME NEW x \in Nodes, NEW c \in Buckets \ Gone(x)'
      PROVE  Covered(x, c)'
  <2>1. c \in Buckets /\ Covered(x, c)
    BY <1>6 DEF LockInv, Gone, GoneGrows
  <2>2. CASE x = n /\ c = b
    <3>1. Receiving(n, b)
      BY <1>1, <1>2 DEF Receiving
    <3>2. ~Asked(net', n, b)
      BY <1>1, <2>1, <2>2, <3>1 DEF Covered
    <3> QED
      BY <1>5, <1>6, <2>1, <2>2, <3>2, CoverKeeps DEF FewerAll, NoReceipt
  <2>3. CASE x # n \/ c # b
    <3>1. IsLocked(x, c)' <=> IsLocked(x, c)
      BY <1>4, <2>1, <2>3 DEF IsLocked
    <3> QED
      BY <1>5, <1>6, <2>1, <3>1, CoverKeeps DEF FewerAll, NoReceipt
  <2> QED
    BY <2>2, <2>3
<1> QED
  BY <1>7 DEF LockInv, Gone

-----------------------------------------------------------------------------
(* The other threads.                                                      *)

LEMMA LockWake ==
    ASSUME SmsgInv, LockInv, NEW n \in Nodes, Wake(n)
    PROVE  LockInv'
<1>1. NoReceipt
  BY SameHandler DEF Wake
<1> QED
  BY <1>1, QuietKeeps DEF Wake, store, peers, history

(* A lock that runs out is overdue.                                        *)
LEMMA LockTick ==
    ASSUME SmsgInv, LockInv, NEW n \in Nodes, Tick(n)
    PROVE  LockInv'
<1>1. UNCHANGED <<fSecMsgEnabled, disabling, handler, net, old>>
  BY DEF Tick, peers
<1>2. /\ smsgBuckets'[n] = [b \in Buckets |-> AfterTurn(n, b)]
      /\ \A x \in Nodes \ {n} : smsgBuckets'[x] = smsgBuckets[x]
  <2>1. smsgBuckets' = [smsgBuckets EXCEPT ![n] = [b \in Buckets |-> AfterTurn(n, b)]]
    BY DEF Tick
  <2> QED
    BY <2>1 DEF SmsgInv, StoreOK
<1>3. /\ overdue'[n] = overdue[n] \cup Ending(n)
      /\ \A x \in Nodes \ {n} : overdue'[x] = overdue[x]
  BY DEF Tick, SmsgInv, FlagsOK
<1>4. FewerAll /\ NoReceipt /\ GoneGrows
  BY <1>1, <1>3, SameNetFewer, SameHandler DEF SmsgInv, FewerAll, GoneGrows, Gone
<1>5. ASSUME NEW b \in Buckets
      PROVE  /\ IsLocked(n, b) => b \in Ending(n) \cup old[n] \/ IsLocked(n, b)'
             /\ ~IsLocked(n, b) => ~IsLocked(n, b)'
  <2>1. smsgBuckets[n][b] \in Bucket /\ smsgBuckets[n][b].nLockCount \in Nat
    <3>1. smsgBuckets[n][b] \in Bucket /\ LockTicks \in Nat
      BY SmsgAssumption DEF SmsgInv, StoreOK, SmsgAssumption
    <3> QED
      BY <3>1 DEF Bucket
  <2>2. CASE b \in old[n]
    <3>1. AfterTurn(n, b) = NoBucket /\ NoBucket.nLockCount = 0
      BY <2>2 DEF AfterTurn, NoBucket
    <3>2. smsgBuckets'[n][b].nLockCount = 0
      BY <1>2, <3>1
    <3> QED
      BY <2>2, <3>2 DEF IsLocked
  <2>3. CASE b \notin old[n]
    <3> DEFINE left == [smsgBuckets[n][b] EXCEPT !.nLockCount = TurnsLeft(n, b)]
               id == IF b \in Ending(n) THEN None ELSE smsgBuckets[n][b].nLockPeerId
    <3>1. smsgBuckets'[n][b] = [left EXCEPT !.nLockPeerId = id]
      BY <1>2, <2>3 DEF AfterTurn
    <3>2. left.nLockCount = TurnsLeft(n, b) /\ left \in [setTokens : SUBSET Msgs, hash : SUBSET Msgs,
                nLockCount : {TurnsLeft(n, b)}, nLockPeerId : Nodes \cup {None}]
      BY <2>1 DEF Bucket
    <3> HIDE DEF left, id
    <3>3. smsgBuckets'[n][b].nLockCount = TurnsLeft(n, b)
      BY <3>1, <3>2
    <3> QED
      BY <2>1, <2>3, <3>3 DEF TurnsLeft, IsLocked, Ending
  <2> QED
    BY <2>2, <2>3
<1>6. LocksHold
  <2>1. ASSUME NEW x \in Nodes, NEW b \in Buckets \ Gone(x)', IsLocked(x, b)
        PROVE  IsLocked(x, b)'
    <3>1. CASE x = n
      BY <1>1, <1>3, <1>5, <2>1, <3>1 DEF Gone
    <3>2. CASE x # n
      BY <1>2, <2>1, <3>2 DEF IsLocked
    <3> QED
      BY <3>1, <3>2
  <2> QED
    BY <2>1 DEF LocksHold
<1> QED
  BY <1>4, <1>6, HoldKeeps

LEMMA LockReport ==
    ASSUME SmsgInv, LockInv, NEW n \in Nodes, Report(n)
    PROVE  LockInv'
<1> DEFINE gone == ticker[n].timedOut
           ignore == [type |-> "smsgIgnore"]
           Sent(q) == IF q \in gone THEN Append(net[n][q], ignore) ELSE net[n][q]
           sent == [q \in Peers(n) |-> Sent(q)]
<1>1. UNCHANGED <<fSecMsgEnabled, disabling, smsgBuckets, handler, old, overdue>> /\ AllSent(n, sent)
  BY DEF Report, store, history, AllSent
<1>2. ignore \in Message /\ <<ignore>> \in Seq(Message) /\ Plain(<<ignore>>)
  BY SimpleMessages, PlainSeqs
<1>3. ASSUME NEW q \in Peers(n)
      PROVE  Sent(q) \in Seq(Message) /\ After(net[n][q], Sent(q))
  <2>1. net[n][q] \in Seq(Message)
    BY DEF SmsgInv, NetOK
  <2> HIDE DEF ignore
  <2>2. Append(net[n][q], ignore) = net[n][q] \o <<ignore>>
    BY <1>2, <2>1
  <2>3. Append(net[n][q], ignore) \in Seq(Message)
    BY <1>2, <2>1
  <2>4. After(net[n][q], net[n][q] \o <<ignore>>)
    BY <1>2 DEF After
  <2>5. After(net[n][q], net[n][q])
    BY DEF After
  <2> QED
    BY <2>1, <2>2, <2>3, <2>4, <2>5
<1> HIDE DEF Sent
<1>4. FewerAll
  <2>1. sent \in [Peers(n) -> Seq(Message)] /\ \A q \in Peers(n) : After(net[n][q], sent[q])
    BY <1>3
  <2> HIDE DEF sent
  <2> QED
    BY <1>1, <2>1, AllSentFewer DEF SmsgInv, FewerAll
<1>5. NoReceipt
  BY <1>1, SameHandler
<1> QED
  BY <1>1, <1>4, <1>5, PlainKeeps

LEMMA LockEraseQueued ==
    ASSUME SmsgInv, LockInv, NEW n \in Nodes, NEW m \in Msgs, EraseQueued(n, m)
    PROVE  LockInv'
<1>1. NoReceipt
  BY SameHandler DEF EraseQueued
<1> QED
  BY <1>1, QuietKeeps DEF EraseQueued, store, peers, history

(* The handler is as it was, or inside SecureMsgSendData.                  *)
LEMMA SinceNoReceipt ==
    ASSUME HandlerOK, NEW n \in Nodes, NEW bs \in SUBSET Buckets, KeepSince(n, bs)
    PROVE  NoReceipt
<1>1. \A x \in Nodes : handler'[x].op \notin {"begin", "end"} => handler'[x] = handler[x]
  BY SinceGrows
<1> QED
  BY <1>1 DEF NoReceipt, Receiving, Wanting

LEMMA LockStoreQueued ==
    ASSUME SmsgInv, LockInv, NEW n \in Nodes, StoreQueued(n)
    PROVE  LockInv'
<1>1. pow[n] # None /\ UNCHANGED <<fSecMsgEnabled, disabling, net, old, overdue>>
  BY DEF StoreQueued, history
<1>2. PICK m \in Msgs, b \in Buckets : m = pow[n] /\ b = BucketOf[m]
  BY <1>1, SmsgAssumption DEF SmsgInv, FlagsOK, SmsgAssumption
<1>3. CASE UNCHANGED <<store, handler>>
  <2>1. NoReceipt
    BY <1>3, SameHandler
  <2> QED
    BY <1>1, <1>3, <2>1, QuietKeeps DEF store
<1>4. CASE /\ KeepSince(n, {b})
           /\ smsgBuckets' = [smsgBuckets EXCEPT ![n][b].setTokens = Tokens(n, b) \cup {m},
                                                 ![n][b].hash = Tokens(n, b) \cup {m}]
  <2>1. smsgBuckets[n][b] \in Bucket /\ StoreOK
    BY DEF SmsgInv, StoreOK
  <2>2. BucketIs(n, b, Hashed(smsgBuckets[n][b], Tokens(n, b) \cup {m}))
    BY <1>4 DEF BucketIs, Hashed, SmsgInv, StoreOK
  <2>3. Hashed(smsgBuckets[n][b], Tokens(n, b) \cup {m}).nLockCount = smsgBuckets[n][b].nLockCount
    BY <2>1 DEF Hashed, Bucket
  <2>4. SameLocks
    BY <2>1, <2>2, <2>3, LocksStay
  <2>5. NoReceipt
    BY <1>4, SinceNoReceipt DEF SmsgInv
  <2>6. FewerAll /\ GoneGrows
    BY <1>1, SameNetFewer, SameGone DEF SmsgInv, FewerAll
  <2> QED
    BY <2>4, <2>5, <2>6, EasyKeeps
<1> QED
  BY <1>2, <1>3, <1>4 DEF StoreQueued

-----------------------------------------------------------------------------
(* Users, clocks and failures.                                             *)

LEMMA LockSend ==
    ASSUME SmsgInv, LockInv, NEW m \in Msgs, SecureMsgSend(m)
    PROVE  LockInv'
<1>1. NoReceipt
  BY SameHandler DEF SecureMsgSend
<1> QED
  BY <1>1, QuietKeeps DEF SecureMsgSend, store, peers, history

LEMMA LockScan ==
    ASSUME SmsgInv, LockInv, NEW n \in Nodes, SecureMsgScanBuckets(n)
    PROVE  LockInv'
<1>1. NoReceipt
  BY SameHandler DEF SecureMsgScanBuckets, threads
<1> QED
  BY <1>1, QuietKeeps DEF SecureMsgScanBuckets, peers

LEMMA LockIgnoreEnds ==
    ASSUME SmsgInv, LockInv, NEW n \in Nodes, NEW p \in Peers(n), IgnoreEnds(n, p)
    PROVE  LockInv'
<1>1. NoReceipt
  BY SameHandler DEF IgnoreEnds, threads
<1> QED
  BY <1>1, QuietKeeps DEF IgnoreEnds, store, history

LEMMA LockAge ==
    ASSUME SmsgInv, LockInv, NEW n \in Nodes, NEW b \in Buckets, Age(n, b)
    PROVE  LockInv'
<1>1. /\ old' = [old EXCEPT ![n] = @ \cup {b}]
      /\ UNCHANGED <<fSecMsgEnabled, disabling, smsgBuckets, handler, net, overdue>>
  BY DEF Age, store, threads, peers, history
<1>2. FewerAll /\ NoReceipt /\ SameLocks
  BY <1>1, SameNetFewer, SameHandler, SameBuckets DEF SmsgInv, FewerAll
<1>3. GoneGrows
  BY <1>1 DEF GoneGrows, Gone, SmsgInv, FlagsOK
<1> QED
  BY <1>2, <1>3, EasyKeeps

LEMMA LockBeginDisable ==
    ASSUME SmsgInv, LockInv, NEW n \in Nodes, BeginDisable(n)
    PROVE  LockInv'
<1>1. UNCHANGED <<smsgBuckets, handler, net, old, overdue>>
  BY DEF BeginDisable, store, threads, peers, history
<1>2. FewerAll /\ NoReceipt /\ SameLocks /\ GoneGrows
  BY <1>1, SameNetFewer, SameHandler, SameBuckets, SameGone DEF SmsgInv, FewerAll
<1> QED
  BY <1>2, EasyKeeps

(* What was locked is overdue.                                             *)
LEMMA LockEndDisable ==
    ASSUME SmsgInv, LockInv, NEW n \in Nodes, EndDisable(n)
    PROVE  LockInv'
<1> DEFINE off == [type |-> "smsgDisabled"]
           Sent(q) == IF smsgData[n][q].fEnabled THEN Append(net[n][q], off) ELSE net[n][q]
           sent == [q \in Peers(n) |-> Sent(q)]
           empty == [b \in Buckets |-> NoBucket]
<1>1. /\ disabling' = [disabling EXCEPT ![n] = FALSE]
      /\ overdue' = [overdue EXCEPT ![n] = @ \cup {b \in Buckets : IsLocked(n, b)}]
      /\ UNCHANGED <<fSecMsgEnabled, handler, old>>
      /\ AllSent(n, sent) /\ AllBuckets(n, empty)
  BY DEF EndDisable, threads, AllSent, AllBuckets
<1>2. off \in Message /\ <<off>> \in Seq(Message) /\ Plain(<<off>>)
  BY SimpleMessages, PlainSeqs
<1>3. ASSUME NEW q \in Peers(n)
      PROVE  Sent(q) \in Seq(Message) /\ After(net[n][q], Sent(q))
  <2>1. net[n][q] \in Seq(Message)
    BY DEF SmsgInv, NetOK
  <2> HIDE DEF off
  <2>2. Append(net[n][q], off) = net[n][q] \o <<off>>
    BY <1>2, <2>1
  <2>3. Append(net[n][q], off) \in Seq(Message)
    BY <1>2, <2>1
  <2>4. After(net[n][q], net[n][q] \o <<off>>) /\ After(net[n][q], net[n][q])
    BY <1>2 DEF After
  <2> QED
    BY <2>1, <2>2, <2>3, <2>4
<1> HIDE DEF Sent
<1>4. FewerAll
  <2>1. sent \in [Peers(n) -> Seq(Message)] /\ \A q \in Peers(n) : After(net[n][q], sent[q])
    BY <1>3
  <2> HIDE DEF sent
  <2> QED
    BY <1>1, <2>1, AllSentFewer DEF SmsgInv, FewerAll
<1>5. /\ smsgBuckets'[n] = empty
      /\ \A x \in Nodes \ {n} : smsgBuckets'[x] = smsgBuckets[x]
  <2>1. empty \in [Buckets -> Bucket] /\ StoreOK
    BY NoBucketIsBucket DEF SmsgInv
  <2> HIDE DEF empty
  <2> QED
    BY <1>1, <2>1, AllBucketsChange
<1>6. /\ overdue'[n] = overdue[n] \cup {b \in Buckets : IsLocked(n, b)}
      /\ \A x \in Nodes \ {n} : overdue'[x] = overdue[x]
  BY <1>1 DEF SmsgInv, FlagsOK
<1>7. GoneGrows /\ NoReceipt
  BY <1>1, <1>6, SameHandler DEF GoneGrows, Gone
<1>8. LocksHold
  <2>1. ASSUME NEW x \in Nodes, NEW b \in Buckets \ Gone(x)', IsLocked(x, b)
        PROVE  IsLocked(x, b)'
    <3>1. x # n
      BY <1>6, <2>1 DEF Gone
    <3> QED
      BY <1>5, <2>1, <3>1 DEF IsLocked
  <2> QED
    BY <2>1 DEF LocksHold
<1> QED
  BY <1>4, <1>7, <1>8, HoldKeeps

(* What is locked, by a handler that was not waited for, is overdue.       *)
LEMMA LockEnable ==
    ASSUME SmsgInv, LockInv, NEW n \in Nodes, SecureMsgEnable(n)
    PROVE  LockInv'
<1> DEFINE files == {m \in smsgStore[n] : BucketOf[m] \notin old[n]}
           fresh == [b \in Buckets |-> Read(files, b)]
           hello == <<[type |-> "smsgPing"], [type |-> "smsgPong"]>>
           sent == [q \in Peers(n) |-> net[n][q] \o hello]
<1>1. /\ KeepSince(n, Buckets)
      /\ overdue' = [overdue EXCEPT ![n] = @ \cup {b \in Buckets : IsLocked(n, b)}]
      /\ UNCHANGED old
      /\ AllSent(n, sent) /\ AllBuckets(n, fresh)
  BY DEF SecureMsgEnable, SecureMsgBuildBucketSet, AllSent, AllBuckets, Read
<1>2. files \in SUBSET Msgs
  BY DEF SmsgInv, StoreOK
<1> HIDE DEF files
<1>3. /\ smsgBuckets'[n] = fresh
      /\ \A x \in Nodes \ {n} : smsgBuckets'[x] = smsgBuckets[x]
  <2>1. fresh \in [Buckets -> Bucket] /\ StoreOK
    BY <1>2, ReadBuckets DEF SmsgInv
  <2> HIDE DEF fresh
  <2> QED
    BY <1>1, <2>1, AllBucketsChange
<1>4. /\ overdue'[n] = overdue[n] \cup {b \in Buckets : IsLocked(n, b)}
      /\ \A x \in Nodes \ {n} : overdue'[x] = overdue[x]
  BY <1>1 DEF SmsgInv, FlagsOK
<1>5. FewerAll
  <2>1. hello \in Seq(Message) /\ Plain(hello)
    <3>1. [type |-> "smsgPing"] \in Message /\ [type |-> "smsgPong"] \in Message
      BY SimpleMessages
    <3> QED
      BY <3>1 DEF Plain
  <2> HIDE DEF hello
  <2>2. \A q \in Peers(n) : net[n][q] \in Seq(Message)
    BY DEF SmsgInv, NetOK
  <2>3. \A q \in Peers(n) : net[n][q] \o hello \in Seq(Message)
    BY <2>1, <2>2
  <2>4. sent \in [Peers(n) -> Seq(Message)] /\ \A q \in Peers(n) : After(net[n][q], sent[q])
    BY <2>1, <2>3 DEF After
  <2> HIDE DEF sent
  <2> QED
    BY <1>1, <2>4, AllSentFewer DEF SmsgInv, FewerAll
<1>6. NoReceipt
  BY <1>1, SinceNoReceipt DEF SmsgInv
<1>7. GoneGrows
  BY <1>1, <1>4 DEF GoneGrows, Gone
<1>8. LocksHold
  <2>1. ASSUME NEW x \in Nodes, NEW b \in Buckets \ Gone(x)', IsLocked(x, b)
        PROVE  IsLocked(x, b)'
    <3>1. x # n
      BY <1>4, <2>1 DEF Gone
    <3> QED
      BY <1>3, <2>1, <3>1 DEF IsLocked
  <2> QED
    BY <2>1 DEF LocksHold
<1> QED
  BY <1>5, <1>6, <1>7, <1>8, HoldKeeps

(* The locks that x holds for y lose their holder, but last.               *)
LEMMA OrphansStayLocked ==
    ASSUME StoreOK, NEW x \in Nodes, NEW y, NEW b \in Buckets
    PROVE  Orphaned(x, y)[b].nLockCount = smsgBuckets[x][b].nLockCount
<1> DEFINE freed == [smsgBuckets[x][b] EXCEPT !.nLockPeerId = None]
<1>1. Orphaned(x, y)[b] = IF smsgBuckets[x][b].nLockPeerId = y THEN freed ELSE smsgBuckets[x][b]
  BY DEF Orphaned
<1>2. smsgBuckets[x][b] \in Bucket
  BY DEF StoreOK
<1>3. freed.nLockCount = smsgBuckets[x][b].nLockCount
  BY <1>2 DEF Bucket
<1> HIDE DEF freed
<1> QED
  BY <1>1, <1>3

(* What was under way on the connections is lost.                          *)
LEMMA ConnectFewer ==
    ASSUME SmsgInv, NEW n \in Nodes, NEW ps, Connect(n, ps)
    PROVE  FewerAll
<1>1. NetOK'
  BY ConnectChange
<1>2. \A x \in Nodes : \A y \in Peers(x) : net'[x][y] \in {<< >>, net[x][y]}
  BY DEF Connect
<1>3. \A x \in Nodes : \A y \in Peers(x) : After(net[x][y], net'[x][y])
  BY <1>2 DEF After
<1> QED
  BY <1>1, <1>3, AfterFewer DEF SmsgInv, FewerAll

LEMMA LockReconnect ==
    ASSUME SmsgInv, LockInv, NEW n \in Nodes, NEW p \in Peers(n), Reconnect(n, p)
    PROVE  LockInv'
<1>1. /\ p \in Nodes /\ p # n
      /\ UNCHANGED <<fSecMsgEnabled, disabling, old, overdue>>
  BY DEF Reconnect, history, Peers
<1>2. FewerAll /\ GoneGrows
  BY <1>1, ConnectFewer, SameGone DEF Reconnect
<1>3. SameLocks
  <2>1. /\ smsgBuckets'[n] = Orphaned(n, p) /\ smsgBuckets'[p] = Orphaned(p, n)
        /\ \A x \in Nodes \ {n, p} : smsgBuckets'[x] = smsgBuckets[x]
    BY <1>1 DEF Reconnect, SmsgInv, StoreOK
  <2>2. \A x \in Nodes : \A y : \A b \in Buckets :
           Orphaned(x, y)[b].nLockCount = smsgBuckets[x][b].nLockCount
    BY OrphansStayLocked DEF SmsgInv
  <2>3. ASSUME NEW x \in Nodes, NEW b \in Buckets
        PROVE  smsgBuckets'[x][b].nLockCount = smsgBuckets[x][b].nLockCount
    <3>1. CASE x = n
      BY <2>1, <2>2, <3>1
    <3>2. CASE x = p
      BY <2>1, <2>2, <3>2
    <3>3. CASE x \notin {n, p}
      BY <2>1, <3>3
    <3> QED
      BY <3>1, <3>2, <3>3
  <2> QED
    BY <2>3 DEF SameLocks
<1>4. NoReceipt
  <2>1. \A x \in Nodes : \A y :
           /\ HandlerWithout(x, y).op = "receive" => HandlerWithout(x, y) = handler[x]
           /\ HandlerWithout(x, y).op = "want" =>
                 /\ handler[x].op = "want"
                 /\ HandlerWithout(x, y).bucket = handler[x].bucket
    BY HandlerGoesOn DEF SmsgInv
  <2>2. /\ handler'[n] = HandlerWithout(n, p) /\ handler'[p] = HandlerWithout(p, n)
        /\ \A x \in Nodes \ {n, p} : handler'[x] = handler[x]
    BY <1>1 DEF Reconnect, SmsgInv, HandlerOK
  <2>3. ASSUME NEW x \in Nodes
        PROVE  /\ handler'[x].op = "receive" => handler'[x] = handler[x]
               /\ handler'[x].op = "want" => /\ handler[x].op = "want"
                                             /\ handler'[x].bucket = handler[x].bucket
    <3>1. CASE x = n
      BY <2>1, <2>2, <3>1
    <3>2. CASE x = p
      BY <2>1, <2>2, <3>2
    <3>3. CASE x \notin {n, p}
      BY <2>2, <3>3
    <3> QED
      BY <3>1, <3>2, <3>3
  <2> QED
    BY <2>3 DEF NoReceipt, Receiving, Wanting
<1> QED
  BY <1>2, <1>3, <1>4, EasyKeeps

(* n begins with nothing locked, and nothing of n is under way.            *)
LEMMA LockRestart ==
    ASSUME SmsgInv, LockInv, NEW n \in Nodes, Restart(n)
    PROVE  LockInv'
<1>1. /\ UNCHANGED <<old, overdue>>
      /\ \A x \in Nodes \ {n} : smsgBuckets'[x] = Orphaned(x, n)
      /\ handler' = [x \in Nodes |-> IF x = n THEN Idle ELSE HandlerWithout(x, n)]
      /\ \A x \in Nodes : \A y \in Peers(x) :
            net'[x][y] = IF (x = n /\ y \in Peers(n)) \/ (y = n /\ x \in Peers(n)) THEN << >>
                         ELSE net[x][y]
  BY DEF Restart, history, Connect
<1>2. FewerAll /\ GoneGrows
  BY <1>1, ConnectFewer, SameGone DEF Restart
<1>3. NoReceipt /\ \A b \in Buckets : ~Receiving(n, b)'
  <2>1. \A x \in Nodes : \A y :
           /\ HandlerWithout(x, y).op = "receive" => HandlerWithout(x, y) = handler[x]
           /\ HandlerWithout(x, y).op = "want" =>
                 /\ handler[x].op = "want"
                 /\ HandlerWithout(x, y).bucket = handler[x].bucket
    BY HandlerGoesOn DEF SmsgInv
  <2>2. Idle.op = "idle"
    BY DEF Idle
  <2>3. /\ handler'[n].op = "idle"
        /\ \A x \in Nodes \ {n} : handler'[x] = HandlerWithout(x, n)
    BY <1>1, <2>2
  <2> QED
    BY <2>1, <2>3 DEF NoReceipt, Receiving, Wanting
<1>4. \A b \in Buckets : ~Asked(net', n, b)
  <2> SUFFICES ASSUME NEW b \in Buckets, NEW x \in Nodes, NEW y \in Peers(x), NEW i \in Nat,
                      AskAt(net', n, b, x, y, i)
               PROVE  FALSE
    BY DEF Asked
  <2>1. x = n \/ y = n
    BY DEF AskAt
  <2>2. net'[x][y] = << >>
    BY <1>1, <2>1 DEF Peers
  <2> QED
    BY <2>2 DEF AskAt
<1>5. \A x \in Nodes \ {n}, b \in Buckets : IsLocked(x, b)' <=> IsLocked(x, b)
  <2>1. \A x \in Nodes : \A y : \A b \in Buckets :
           Orphaned(x, y)[b].nLockCount = smsgBuckets[x][b].nLockCount
    BY OrphansStayLocked DEF SmsgInv
  <2> QED
    BY <1>1, <2>1 DEF IsLocked
<1>6. ASSUME NEW x \in Nodes, NEW b \in Buckets \ Gone(x)'
      PROVE  Covered(x, b)'
  <2>1. b \in Buckets /\ Covered(x, b)
    BY <1>2 DEF LockInv, Gone, GoneGrows
  <2>2. IsLocked(x, b) /\ (Asked(net', x, b) \/ Receiving(x, b)') => IsLocked(x, b)'
    BY <1>3, <1>4, <1>5, <2>1
  <2> QED
    BY <1>2, <1>3, <2>1, <2>2, CoverKeeps DEF FewerAll, NoReceipt
<1> QED
  BY <1>6 DEF LockInv, Gone

-----------------------------------------------------------------------------
LEMMA LockNext == SmsgInv /\ LockInv /\ [SmsgNext]_smsgVars => LockInv'
<1> SUFFICES ASSUME SmsgInv, LockInv, [SmsgNext]_smsgVars
             PROVE  LockInv'
  OBVIOUS
<1>1. ASSUME NEW n \in Nodes, Handler(n)
      PROVE  LockInv'
  <2>1. ASSUME NEW p \in Peers(n), Receive(n, p) \/ SendPing(n, p) \/ BeginSend(n, p)
        PROVE  LockInv'
    BY <2>1, LockReceive, LockSendPing, LockBeginSend
  <2>2. CASE SendInv(n) \/ EndSend(n) \/ SiftHave(n) \/ LockBucket(n) \/ StoreMsg(n) \/ EndReceive(n)
    BY <2>2, LockSendInv, LockEndSend, LockSiftHave, LockLockBucket, LockStoreMsg, LockEndReceive
  <2> QED
    BY <1>1, <2>1, <2>2 DEF Handler
<1>2. ASSUME NEW n \in Nodes, ThreadSecureMsg(n)
      PROVE  LockInv'
  BY <1>2, LockWake, LockTick, LockReport DEF ThreadSecureMsg
<1>3. ASSUME NEW n \in Nodes, ThreadSecureMsgPow(n)
      PROVE  LockInv'
  BY <1>3, LockEraseQueued, LockStoreQueued DEF ThreadSecureMsgPow
<1>4. ASSUME NEW n \in Nodes, Clock(n)
      PROVE  LockInv'
  BY <1>4, LockIgnoreEnds DEF Clock
<1>5. ASSUME NEW n \in Nodes,
             \/ SecureMsgScanBuckets(n) \/ BeginDisable(n) \/ EndDisable(n) \/ SecureMsgEnable(n)
             \/ \E b \in Buckets : Age(n, b)
      PROVE  LockInv'
  BY <1>5, LockScan, LockBeginDisable, LockEndDisable, LockEnable, LockAge
<1>6. ASSUME NEW n \in Nodes, (\E p \in Peers(n) : Reconnect(n, p)) \/ Restart(n)
      PROVE  LockInv'
  BY <1>6, LockReconnect, LockRestart
<1>7. ASSUME NEW m \in Msgs, SecureMsgSend(m)
      PROVE  LockInv'
  BY <1>7, LockSend
<1>8. CASE UNCHANGED smsgVars
  <2>1. UNCHANGED <<net, fSecMsgEnabled, disabling, smsgBuckets, old, overdue, handler>>
    BY <1>8 DEF smsgVars, store, threads, peers, history
  <2>2. NoReceipt
    BY <2>1, SameHandler
  <2> QED
    BY <2>1, <2>2, QuietKeeps
<1> QED
  BY <1>1, <1>2, <1>3, <1>4, <1>5, <1>6, <1>7, <1>8 DEF SmsgNext

(* nLockCount is "set when smsgWant first sent, unset at end of smsgMsg":  *)
(* whatever is lost, stopped or begun again, unless a lock has run out     *)
(* before the answer came, a bucket with a request or an answer under way  *)
(* is locked, has no other, and none while a bunch is being stored in it.  *)
THEOREM LocksCoverRequests == SmsgSpec => []LockCoversRequest
<1>1. SmsgInv /\ LockInv => LockCoversRequest
  <2> SUFFICES ASSUME SmsgInv, LockInv, NEW n \in Nodes, NEW b \in Buckets \ (overdue[n] \cup old[n])
               PROVE  /\ Requests(n, b) # {} => IsLocked(n, b)
                      /\ Cardinality(Requests(n, b)) <= 1
                      /\ Receiving(n, b) => IsLocked(n, b) /\ Requests(n, b) = {}
    BY DEF LockCoversRequest
  <2>1. Covered(n, b) /\ b \in Buckets
    BY DEF LockInv
  <2>2. /\ Requests(n, b) # {} => Asked(net, n, b)
        /\ AskedOnce(net, n, b) => Cardinality(Requests(n, b)) <= 1
    BY <2>1, RequestsAreAsks DEF SmsgInv
  <2> QED
    BY <2>1, <2>2 DEF Covered
<1> QED
  BY <1>1, LockInit, LockNext, SmsgInvHolds, PTL DEF SmsgSpec

-----------------------------------------------------------------------------
(* Two peers that have nothing left to do have the same messages.          *)

Files(n, b) == smsgStore[n] \cap In(b)
OnWire(x, y) == Range(net[x][y])

(* A message of n's that leads the peer who handles it, and holds held, to *)
(* the messages ms of bucket b.                                            *)
Leads(msg, b, ms, held) ==
    \/ /\ msg.type = "smsgInv" /\ b \in DOMAIN msg.inv
       /\ msg.inv[b] = [nMessages |-> Cardinality(ms), hash |-> ms]
    \/ msg.type = "smsgHave" /\ msg.bucket = b /\ ms \subseteq msg.have
    \/ msg.type = "smsgMsg" /\ msg.bucket = b /\ ms \subseteq held \cup msg.bunch

(* A message of the peer's that asks for them.                             *)
Asks(msg, b, ms, held) ==
    \/ msg.type = "smsgShow" /\ b \in msg.show
    \/ msg.type = "smsgWant" /\ msg.bucket = b /\ ms \subseteq held \cup msg.want

(* n does not announce b to p unless it changes.                           *)
ToldOf(n, p, b) ==
    /\ fSecMsgEnabled[n]
    /\ \/ b \notin smsgData[n][p].due
       \/ handler[n].op = "end" /\ handler[n].peer = p /\ b \notin handler[n].since

(* Who holds ms, or more messages than they are, asks for nothing.         *)
Has(held, ms) == ms \subseteq held \/ Cardinality(held) > Cardinality(ms)

(* What p's handler is in the middle of leads p to them.                   *)
Gets(n, p, b, ms) ==
    \/ Receiving(p, b) /\ ms \subseteq Files(p, b) \cup handler[p].bunch
    \/ /\ handler[p].op = "have" /\ handler[p].bucket = b /\ handler[p].peer = n
       /\ ms \subseteq handler[p].have
    \/ /\ handler[p].op = "want" /\ handler[p].bucket = b /\ handler[p].peer = n
       /\ ms \subseteq Files(p, b) \cup handler[p].want

Busy(p, n) ==
    \/ handler[p].op = "receive"
    \/ handler[p].op \in {"have", "want"} /\ handler[p].peer = n

Comes(n, p, b, ms) ==
    \/ Has(Files(p, b), ms)
    \/ \E msg \in OnWire(n, p) : Leads(msg, b, ms, Files(p, b))
    \/ \E msg \in OnWire(p, n) : Asks(msg, b, ms, Files(p, b))
    \/ Gets(n, p, b, ms)

hashOf(n, b) == smsgBuckets[n][b].hash
Pursued(n, p, b) == ToldOf(n, p, b) => Comes(n, p, b, hashOf(n, b))

Away(n) == old[n] \cup scanned[n]

(* What a node will not announce again is on its way to the peer, or there *)
(* already.                                                                *)
AllPursued ==
    ~missed => \A n \in Nodes : \A p \in Peers(n) : \A b \in Buckets \ (Away(n) \cup Away(p)) :
        Pursued(n, p, b)

LEMMA FilesFinite ==
    ASSUME StoreOK, NEW n \in Nodes, NEW b \in Buckets
    PROVE  /\ IsFiniteSet(Files(n, b)) /\ Cardinality(Files(n, b)) \in Nat
           /\ IsFiniteSet(hashOf(n, b)) /\ Cardinality(hashOf(n, b)) \in Nat
           /\ IsFiniteSet(Tokens(n, b)) /\ Cardinality(Tokens(n, b)) \in Nat
<1>1. /\ Files(n, b) \subseteq Msgs /\ hashOf(n, b) \subseteq Msgs /\ Tokens(n, b) \subseteq Msgs
  BY DEF StoreOK, Files, hashOf, Tokens, Bucket
<1>2. \A S \in SUBSET Msgs : IsFiniteSet(S) /\ Cardinality(S) \in Nat
  BY SmsgAssumption, FS_Subset, FS_CardinalityType DEF SmsgAssumption
<1> QED
  BY <1>1, <1>2

LEMMA HasStays ==
    ASSUME NEW held, NEW more, NEW ms, held \subseteq more, IsFiniteSet(more), IsFiniteSet(ms),
           Has(held, ms)
    PROVE  Has(more, ms)
<1>1. CASE ms \subseteq held
  BY <1>1 DEF Has
<1>2. CASE Cardinality(held) > Cardinality(ms)
  <2>1. IsFiniteSet(held) /\ Cardinality(held) <= Cardinality(more)
    BY FS_Subset
  <2>2. Cardinality(held) \in Nat /\ Cardinality(more) \in Nat /\ Cardinality(ms) \in Nat
    BY <2>1, FS_CardinalityType
  <2> QED
    BY <1>2, <2>1, <2>2 DEF Has
<1> QED
  BY <1>1, <1>2 DEF Has

LEMMA GetsMore ==
    ASSUME NEW msg, NEW b, NEW ms, NEW held, NEW more, held \subseteq more
    PROVE  /\ Leads(msg, b, ms, held) => Leads(msg, b, ms, more)
           /\ Asks(msg, b, ms, held) => Asks(msg, b, ms, more)
BY DEF Leads, Asks

(* While the files of p grow, what leads to it or asks for it lasts until  *)
(* it is handled.                                                          *)
LEMMA PursuitGoesOn ==
    ASSUME StoreOK, StoreOK', NEW n \in Nodes, NEW p \in Peers(n), NEW b \in Buckets,
           Pursued(n, p, b),
           ToldOf(n, p, b)' => ToldOf(n, p, b) /\ hashOf(n, b)' = hashOf(n, b),
           Files(p, b) \subseteq Files(p, b)',
           \A msg \in OnWire(n, p) :
              \/ msg \in OnWire(n, p)'
              \/ ToldOf(n, p, b) /\ Leads(msg, b, hashOf(n, b), Files(p, b))
                 => Comes(n, p, b, hashOf(n, b))',
           \A msg \in OnWire(p, n) :
              \/ msg \in OnWire(p, n)'
              \/ ToldOf(n, p, b) /\ Asks(msg, b, hashOf(n, b), Files(p, b))
                 => Comes(n, p, b, hashOf(n, b))',
           ToldOf(n, p, b)' /\ Gets(n, p, b, hashOf(n, b)) => Comes(n, p, b, hashOf(n, b))'
    PROVE  Pursued(n, p, b)'
<1> SUFFICES ASSUME ToldOf(n, p, b)'
             PROVE  Comes(n, p, b, hashOf(n, b))'
  BY DEF Pursued
<1> DEFINE ms == hashOf(n, b)
<1>1. ToldOf(n, p, b) /\ hashOf(n, b)' = ms /\ Comes(n, p, b, ms)
  BY DEF Pursued
<1>2. p \in Nodes
  BY DEF Peers
<1>3. CASE Has(Files(p, b), ms)
  <2>1. IsFiniteSet(ms) /\ IsFiniteSet(Files(p, b)')
    <3>1. IsFiniteSet(ms)
      BY FilesFinite
    <3>2. Files(p, b)' \subseteq Msgs
      BY <1>2 DEF StoreOK, Files
    <3>3. IsFiniteSet(Files(p, b)')
      BY <3>2, SmsgAssumption, FS_Subset DEF SmsgAssumption
    <3> QED
      BY <3>1, <3>3
  <2>2. Has(Files(p, b)', ms)
    BY <1>3, <2>1, HasStays
  <2> QED
    BY <1>1, <2>2 DEF Comes
<1>4. ASSUME NEW msg \in OnWire(n, p), Leads(msg, b, ms, Files(p, b))
      PROVE  Comes(n, p, b, hashOf(n, b))'
  <2>1. Leads(msg, b, ms, Files(p, b)')
    BY <1>4, GetsMore
  <2>2. CASE msg \in OnWire(n, p)'
    BY <1>1, <2>1, <2>2 DEF Comes
  <2> QED
    BY <1>1, <1>4, <2>2
<1>5. ASSUME NEW msg \in OnWire(p, n), Asks(msg, b, ms, Files(p, b))
      PROVE  Comes(n, p, b, hashOf(n, b))'
  <2>1. Asks(msg, b, ms, Files(p, b)')
    BY <1>5, GetsMore
  <2>2. CASE msg \in OnWire(p, n)'
    BY <1>1, <2>1, <2>2 DEF Comes
  <2> QED
    BY <1>1, <1>5, <2>2
<1>6. CASE Gets(n, p, b, ms)
  BY <1>6
<1> QED
  BY <1>1, <1>3, <1>4, <1>5, <1>6 DEF Comes

(* What grows in a step that takes nothing from the wire.                  *)
FilesGrow ==
    /\ missed => missed'
    /\ \A x \in Nodes : Away(x) \subseteq Away(x)'
    /\ \A x \in Nodes : \A b \in Buckets \ Away(x)' : Files(x, b) \subseteq Files(x, b)'
WireGrows == \A x \in Nodes : \A y \in Peers(x) : OnWire(x, y) \subseteq OnWire(x, y)'
ReceiptsGoOn ==
    \A x \in Nodes : handler[x].op \in {"receive", "have", "want"} => handler'[x] = handler[x]

(* It announces nothing.                                                   *)
TellsNoMore ==
    \A n \in Nodes : \A p \in Peers(n) : \A b \in Buckets \ Away(n)' :
        ToldOf(n, p, b)' => ToldOf(n, p, b) /\ hashOf(n, b)' = hashOf(n, b)

LEMMA SteadyStep ==
    ASSUME StoreOK, StoreOK', FilesGrow, NEW n \in Nodes, NEW p \in Peers(n),
           NEW b \in Buckets \ (Away(n)' \cup Away(p)'), Pursued(n, p, b),
           ToldOf(n, p, b)' => ToldOf(n, p, b) /\ hashOf(n, b)' = hashOf(n, b),
           OnWire(n, p) \subseteq OnWire(n, p)', OnWire(p, n) \subseteq OnWire(p, n)',
           Busy(p, n) => handler'[p] = handler[p]
    PROVE  Pursued(n, p, b)'
<1>1. p \in Nodes
  BY DEF Peers
<1>2. Files(p, b) \subseteq Files(p, b)'
  BY <1>1 DEF FilesGrow
<1>3. ASSUME ToldOf(n, p, b)', Gets(n, p, b, hashOf(n, b))
      PROVE  Comes(n, p, b, hashOf(n, b))'
  <2>1. handler'[p] = handler[p]
    BY <1>3 DEF Gets, Busy, Receiving
  <2>2. hashOf(n, b)' = hashOf(n, b)
    BY <1>3
  <2>3. Gets(n, p, b, hashOf(n, b))'
    BY <1>2, <1>3, <2>1, <2>2 DEF Gets, Receiving
  <2> QED
    BY <2>3 DEF Comes
<1> QED
  BY <1>2, <1>3, PursuitGoesOn

LEMMA SteadyKeeps ==
    ASSUME SmsgInv, SmsgInv', AllPursued, FilesGrow, WireGrows, ReceiptsGoOn, TellsNoMore
    PROVE  AllPursued'
<1> SUFFICES ASSUME ~missed', NEW n \in Nodes, NEW p \in Peers(n),
                    NEW b \in Buckets \ (Away(n)' \cup Away(p)')
             PROVE  Pursued(n, p, b)'
  BY DEF AllPursued
<1>1. p \in Nodes /\ n \in Peers(p)
  BY DEF Peers
<1>2. Pursued(n, p, b)
  BY <1>1 DEF AllPursued, FilesGrow
<1>3. StoreOK /\ StoreOK'
  BY DEF SmsgInv
<1>4. Busy(p, n) => handler'[p] = handler[p]
  BY <1>1 DEF ReceiptsGoOn, Busy
<1> QED
  BY <1>1, <1>2, <1>3, <1>4, SteadyStep DEF WireGrows, TellsNoMore

(* What no step but a few touches.                                         *)
LEMMA SameFiles ==
    ASSUME UNCHANGED <<smsgStore, old, scanned>>, missed => missed'
    PROVE  FilesGrow
BY DEF FilesGrow, Files, Away

LEMMA SameWire ==
    ASSUME UNCHANGED net
    PROVE  WireGrows
BY DEF WireGrows, OnWire

LEMMA SameReceipts ==
    ASSUME UNCHANGED handler
    PROVE  ReceiptsGoOn
BY DEF ReceiptsGoOn

LEMMA SameTellsNoMore ==
    ASSUME UNCHANGED <<fSecMsgEnabled, handler>>, SameTold,
           \A x \in Nodes : \A c \in Buckets : smsgBuckets'[x][c].hash = smsgBuckets[x][c].hash
    PROVE  TellsNoMore
BY DEF TellsNoMore, ToldOf, SameTold, hashOf

(* What is sent is on the wire beside what was there.                      *)
LEMMA Appended ==
    ASSUME NEW s \in Seq(Message), NEW msgs \in Seq(Message)
    PROVE  Range(s) \subseteq Range(s \o msgs) /\ Range(msgs) \subseteq Range(s \o msgs)
<1>1. Len(s) \in Nat /\ Len(msgs) \in Nat
  OBVIOUS
<1>2. \A i \in DOMAIN s : i \in DOMAIN (s \o msgs) /\ (s \o msgs)[i] = s[i]
  BY <1>1
<1>3. \A i \in DOMAIN msgs :
         i + Len(s) \in DOMAIN (s \o msgs) /\ (s \o msgs)[i + Len(s)] = msgs[i]
  BY <1>1
<1>4. Range(s) \subseteq Range(s \o msgs)
  BY <1>2 DEF Range
<1>5. Range(msgs) \subseteq Range(s \o msgs)
  BY <1>3 DEF Range
<1> QED
  BY <1>4, <1>5

LEMMA PushWire ==
    ASSUME NetOK, NEW n \in Nodes, NEW p \in Peers(n), NEW msgs \in Seq(Message), Push(n, p, msgs)
    PROVE  WireGrows /\ Range(msgs) \subseteq OnWire(n, p)'
<1>1. net[n] \in [Peers(n) -> Seq(Message)]
  BY DEF NetOK
<1>2. net' = [net EXCEPT ![n] = [net[n] EXCEPT ![p] = net[n][p] \o msgs]]
  BY DEF Push, NetOK
<1>3. /\ net'[n][p] = net[n][p] \o msgs
      /\ \A x \in Nodes : \A y \in Peers(x) : x # n \/ y # p => net'[x][y] = net[x][y]
  BY <1>1, <1>2 DEF NetOK
<1>4. OnWire(n, p) \subseteq OnWire(n, p)' /\ Range(msgs) \subseteq OnWire(n, p)'
  BY <1>1, <1>3, Appended DEF OnWire
<1> QED
  BY <1>3, <1>4 DEF WireGrows, OnWire

LEMMA AllSentWire ==
    ASSUME NetOK, NEW n \in Nodes, NEW f, AllSent(n, f),
           \A q \in Peers(n) : \E msgs \in Seq(Message) : f[q] = net[n][q] \o msgs
    PROVE  WireGrows
<1>1. net'[n] = f /\ \A x \in Nodes \ {n} : net'[x] = net[x]
  BY DEF NetOK, AllSent
<1>2. ASSUME NEW q \in Peers(n)
      PROVE  OnWire(n, q) \subseteq OnWire(n, q)'
  <2>1. PICK msgs \in Seq(Message) : net'[n][q] = net[n][q] \o msgs
    BY <1>1
  <2>2. net[n][q] \in Seq(Message)
    BY DEF NetOK
  <2> QED
    BY <2>1, <2>2, Appended DEF OnWire
<1> QED
  BY <1>1, <1>2 DEF WireGrows, OnWire

-----------------------------------------------------------------------------
LEMMA PursuedSendPing ==
    ASSUME SmsgInv, SmsgInv', AllPursued, NEW n \in Nodes, NEW p \in Peers(n), SendPing(n, p)
    PROVE  AllPursued'
<1>1. WireGrows
  <2>1. <<[type |-> "smsgPing"]>> \in Seq(Message)
    BY SimpleMessages, ShortSeqs
  <2> QED
    BY <2>1, PushWire DEF SendPing, SmsgInv
<1>2. SameTold
  BY FlagOfPeer DEF SendPing
<1>3. FilesGrow /\ ReceiptsGoOn /\ TellsNoMore
  BY <1>2, SameFiles, SameReceipts, SameTellsNoMore DEF SendPing, store, threads, history
<1> QED
  BY <1>1, <1>3, SteadyKeeps

LEMMA PursuedBeginSend ==
    ASSUME SmsgInv, SmsgInv', AllPursued, NEW n \in Nodes, NEW p \in Peers(n), BeginSend(n, p)
    PROVE  AllPursued'
<1>1. /\ handler[n] = Idle /\ handler'[n].op = "begin"
      /\ \A x \in Nodes \ {n} : handler'[x] = handler[x]
  BY DEF BeginSend, SmsgInv, HandlerOK
<1>2. UNCHANGED <<fSecMsgEnabled, smsgBuckets, smsgStore, smsgData, net, old, scanned, missed>>
  BY DEF BeginSend, store, peers, history
<1>3. ReceiptsGoOn
  BY <1>1 DEF ReceiptsGoOn, Idle
<1>4. TellsNoMore
  BY <1>1, <1>2 DEF TellsNoMore, ToldOf, hashOf
<1> QED
  BY <1>2, <1>3, <1>4, SameFiles, SameWire, SteadyKeeps

(* What becomes told are the buckets that the loop has announced.          *)
LEMMA PursuedEndSend ==
    ASSUME SmsgInv, SmsgInv', AllPursued, NEW n \in Nodes, EndSend(n)
    PROVE  AllPursued'
<1> DEFINE p == handler[n].peer
           new == [smsgData[n][p] EXCEPT !.due = handler[n].since, !.again = handler[n].again]
<1>1. /\ handler[n].op = "end" /\ handler' = [handler EXCEPT ![n] = Idle]
      /\ UNCHANGED <<fSecMsgEnabled, smsgBuckets, smsgStore, net, old, scanned, missed>>
  BY DEF EndSend, store, history
<1>2. /\ handler[n] \in [op : {"begin", "end"}, peer : Nodes, since : SUBSET Buckets,
                         again : SUBSET Buckets]
      /\ p \in Peers(n)
  BY <1>1, Sending DEF SmsgInv
<1>3. smsgData[n][p] \in PeerData /\ smsgData[n] \in [Peers(n) -> PeerData]
  BY <1>2 DEF SmsgInv, PeersOK
<1>4. new \in PeerData /\ new.due = handler[n].since
  BY <1>2, <1>3 DEF PeerData
<1>5. KeepsOf(n, p, new)
  BY <1>2, <1>3 DEF EndSend, KeepsOf, PeerData
<1>6. /\ smsgData'[n][p] = new
      /\ \A x \in Nodes : \A y \in Peers(x) :
            x # n \/ y # p => smsgData'[x][y] = smsgData[x][y]
  <2> HIDE DEF new
  <2>1. PeersOK
    BY DEF SmsgInv
  <2> QED
    BY <1>2, <1>4, <1>5, <2>1, PeerChange
<1>7. handler'[n] = Idle /\ \A x \in Nodes \ {n} : handler'[x] = handler[x]
  BY <1>1 DEF SmsgInv, HandlerOK
<1> HIDE DEF new
<1>8. ReceiptsGoOn
  BY <1>1, <1>7 DEF ReceiptsGoOn
<1>9. TellsNoMore
  BY <1>1, <1>4, <1>6, <1>7 DEF TellsNoMore, ToldOf, hashOf, Idle
<1> QED
  BY <1>1, <1>8, <1>9, SameFiles, SameWire, SteadyKeeps

LEMMA PursuedQuietly ==
    ASSUME SmsgInv, SmsgInv', AllPursued,
           \/ \E n \in Nodes : Wake(n) \/ \E m \in Msgs : EraseQueued(n, m)
           \/ \E m \in Msgs : SecureMsgSend(m)
           \/ UNCHANGED smsgVars
    PROVE  AllPursued'
<1>1. UNCHANGED <<fSecMsgEnabled, smsgBuckets, smsgStore, handler, smsgData, net, old, scanned, missed>>
  BY DEF Wake, EraseQueued, SecureMsgSend, smsgVars, store, threads, peers, history
<1>2. SameTold
  BY <1>1 DEF SameTold
<1> QED
  BY <1>1, <1>2, SameFiles, SameWire, SameReceipts, SameTellsNoMore, SteadyKeeps

LEMMA PursuedIgnoreEnds ==
    ASSUME SmsgInv, SmsgInv', AllPursued, NEW n \in Nodes, NEW p \in Peers(n), IgnoreEnds(n, p)
    PROVE  AllPursued'
<1>1. UNCHANGED <<fSecMsgEnabled, smsgBuckets, smsgStore, handler, net, old, scanned, missed>>
  BY DEF IgnoreEnds, store, threads, history
<1>2. SameTold
  BY FlagOfPeer DEF IgnoreEnds
<1> QED
  BY <1>1, <1>2, SameFiles, SameWire, SameReceipts, SameTellsNoMore, SteadyKeeps

(* Hashes change where buckets become due.                                 *)
LEMMA ChangedTellsNoMore ==
    ASSUME SmsgInv, NEW n \in Nodes, NEW bs \in SUBSET Buckets, Changed(n, bs), SinceKept(n, bs),
           \A x \in Nodes : \/ fSecMsgEnabled'[x] => fSecMsgEnabled[x]
                            \/ x = n /\ bs = Buckets,
           \A x \in Nodes : \A c \in Buckets :
              (x = n /\ c \in bs) \/ smsgBuckets'[x][c].hash = smsgBuckets[x][c].hash
    PROVE  TellsNoMore
<1> SUFFICES ASSUME NEW x \in Nodes, NEW y \in Peers(x), NEW c \in Buckets, ToldOf(x, y, c)'
             PROVE  ToldOf(x, y, c) /\ hashOf(x, c)' = hashOf(x, c)
  BY DEF TellsNoMore
<1>1. /\ \A q \in Peers(n) : smsgData'[n][q].due = smsgData[n][q].due \cup bs
      /\ \A z \in Nodes \ {n} : smsgData'[z] = smsgData[z]
  BY ChangedKeeps DEF SmsgInv
<1>2. ~(x = n /\ c \in bs)
  BY <1>1 DEF ToldOf, SinceKept
<1>3. fSecMsgEnabled[x]
  BY <1>2 DEF ToldOf
<1>4. \/ c \notin smsgData[x][y].due
      \/ handler[x].op = "end" /\ handler[x].peer = y /\ c \notin handler[x].since
  BY <1>1 DEF ToldOf, SinceKept
<1> QED
  BY <1>2, <1>3, <1>4 DEF ToldOf, hashOf

LEMMA PursuedTick ==
    ASSUME SmsgInv, SmsgInv', AllPursued, NEW n \in Nodes, Tick(n)
    PROVE  AllPursued'
<1>1. /\ UNCHANGED <<fSecMsgEnabled, handler, smsgData, net, old, scanned>>
      /\ missed => missed'
  BY DEF Tick, peers
<1>2. /\ smsgBuckets'[n] = [b \in Buckets |-> AfterTurn(n, b)]
      /\ \A x \in Nodes \ {n} : smsgBuckets'[x] = smsgBuckets[x]
  BY DEF Tick, SmsgInv, StoreOK
<1>3. \A b \in Buckets \ old[n] : smsgBuckets'[n][b].hash = smsgBuckets[n][b].hash
  <2>1. ASSUME NEW b \in Buckets \ old[n]
        PROVE  AfterTurn(n, b).hash = smsgBuckets[n][b].hash
    <3>1. smsgBuckets[n][b] \in Bucket
      BY DEF SmsgInv, StoreOK
    <3> QED
      BY <3>1 DEF AfterTurn, Bucket
  <2> QED
    BY <1>2, <2>1
<1>4. /\ smsgStore'[n] = {m \in smsgStore[n] : BucketOf[m] \notin old[n]}
      /\ \A x \in Nodes \ {n} : smsgStore'[x] = smsgStore[x]
  BY DEF Tick, SmsgInv, StoreOK
<1>5. FilesGrow
  BY <1>1, <1>4 DEF FilesGrow, Files, Away, In
<1>6. TellsNoMore
  BY <1>1, <1>2, <1>3 DEF TellsNoMore, ToldOf, hashOf, Away
<1> QED
  BY <1>1, <1>5, <1>6, SameWire, SameReceipts, SteadyKeeps

LEMMA PursuedReport ==
    ASSUME SmsgInv, SmsgInv', AllPursued, NEW n \in Nodes, Report(n)
    PROVE  AllPursued'
<1> DEFINE gone == ticker[n].timedOut
           Kept(q) == IF q \in gone THEN [smsgData[n][q] EXCEPT !.ignoring = TRUE] ELSE smsgData[n][q]
           Sends(q) == IF q \in gone THEN Append(net[n][q], [type |-> "smsgIgnore"]) ELSE net[n][q]
           kept == [q \in Peers(n) |-> Kept(q)]
           sends == [q \in Peers(n) |-> Sends(q)]
<1>1. UNCHANGED <<fSecMsgEnabled, smsgBuckets, smsgStore, handler, old, scanned, missed>>
  BY DEF Report, store, history
<1>2. AllKept(n, kept) /\ AllSent(n, sends)
  BY DEF Report, AllKept, AllSent
<1>3. ASSUME NEW q \in Peers(n)
      PROVE  /\ Kept(q).due = smsgData[n][q].due
             /\ \E msgs \in Seq(Message) : Sends(q) = net[n][q] \o msgs
  <2>1. smsgData[n][q] \in PeerData /\ net[n][q] \in Seq(Message)
    BY DEF SmsgInv, PeersOK, NetOK
  <2>2. [type |-> "smsgIgnore"] \in Message
    BY SimpleMessages
  <2>3. /\ net[n][q] = net[n][q] \o << >>
        /\ Append(net[n][q], [type |-> "smsgIgnore"]) = net[n][q] \o <<[type |-> "smsgIgnore"]>>
    BY <2>1, <2>2
  <2>4. Kept(q).due = smsgData[n][q].due
    BY <2>1, PeerFields
  <2>5. << >> \in Seq(Message) /\ <<[type |-> "smsgIgnore"]>> \in Seq(Message)
    BY <2>2, ShortSeqs
  <2>6. CASE q \in gone
    BY <2>3, <2>4, <2>5, <2>6
  <2>7. CASE q \notin gone
    BY <2>3, <2>4, <2>5, <2>7
  <2> QED
    BY <2>6, <2>7
<1> HIDE DEF Kept, Sends
<1>4. WireGrows
  <2>1. \A q \in Peers(n) : \E msgs \in Seq(Message) : sends[q] = net[n][q] \o msgs
    BY <1>3
  <2> HIDE DEF sends
  <2> QED
    BY <1>2, <2>1, AllSentWire DEF SmsgInv
<1>5. smsgData'[n] = kept /\ \A x \in Nodes \ {n} : smsgData'[x] = smsgData[x]
  <2> HIDE DEF kept
  <2> QED
    BY <1>2 DEF SmsgInv, PeersOK, AllKept
<1>6. TellsNoMore
  BY <1>1, <1>3, <1>5 DEF TellsNoMore, ToldOf, hashOf
<1> QED
  BY <1>1, <1>4, <1>6, SameFiles, SameReceipts, SteadyKeeps

LEMMA PursuedStoreQueued ==
    ASSUME SmsgInv, SmsgInv', AllPursued, NEW n \in Nodes, StoreQueued(n)
    PROVE  AllPursued'
<1>1. UNCHANGED <<fSecMsgEnabled, net, old, scanned, missed>> /\ pow[n] # None
  BY DEF StoreQueued, history
<1>2. CASE UNCHANGED <<store, smsgData, handler>>
  <2>1. SameTold
    BY <1>2 DEF SameTold
  <2> QED
    BY <1>1, <1>2, <2>1, SameFiles, SameWire, SameReceipts, SameTellsNoMore, SteadyKeeps DEF store
<1>3. ASSUME NEW m \in Msgs, NEW b \in Buckets, NEW tokens \in SUBSET Msgs, BucketGets(n, b, tokens),
             FileGets(n, m), hashBucket(n, b, tokens), KeepSince(n, {b})
      PROVE  AllPursued'
  <2>1. PICK bs \in SUBSET {b} :
           Changed(n, bs) /\ (b \in bs \/ smsgBuckets[n][b].hash = tokens)
    BY <1>3 DEF hashBucket
  <2>2. SinceKept(n, {b}) /\ ReceiptsGoOn
    <3>1. HandlerOK /\ {b} \in SUBSET Buckets
      BY DEF SmsgInv
    <3> QED
      BY <1>3, <3>1, SinceGrows DEF ReceiptsGoOn
  <2>3. SinceKept(n, bs)
    BY <2>1, <2>2 DEF SinceKept
  <2>4. /\ smsgBuckets'[n][b].hash = tokens
        /\ \A x \in Nodes : \A c \in Buckets :
              x # n \/ c # b => smsgBuckets'[x][c].hash = smsgBuckets[x][c].hash
    BY <1>3 DEF BucketGets, SmsgInv, StoreOK, Bucket
  <2>5. TellsNoMore
    <3>1. \A x \in Nodes : \A c \in Buckets :
             (x = n /\ c \in bs) \/ smsgBuckets'[x][c].hash = smsgBuckets[x][c].hash
      BY <2>1, <2>4
    <3>2. bs \in SUBSET Buckets /\ \A x \in Nodes : fSecMsgEnabled'[x] => fSecMsgEnabled[x]
      BY <1>1
    <3> QED
      BY <2>1, <2>3, <3>1, <3>2, ChangedTellsNoMore
  <2>6. FilesGrow
    BY <1>1, <1>3 DEF FilesGrow, Files, Away, FileGets, SmsgInv, StoreOK
  <2> QED
    BY <1>1, <2>2, <2>5, <2>6, SameWire, SteadyKeeps
<1>4. pow[n] \in Msgs /\ BucketOf[pow[n]] \in Buckets
  BY <1>1, SmsgAssumption DEF SmsgInv, FlagsOK, SmsgAssumption
<1>5. Tokens(n, BucketOf[pow[n]]) \cup {pow[n]} \in SUBSET Msgs
  BY <1>4 DEF SmsgInv, StoreOK, Bucket, Tokens
<1> QED
  BY <1>2, <1>3, <1>4, <1>5 DEF StoreQueued, FileGets, BucketGets

LEMMA PursuedScan ==
    ASSUME SmsgInv, SmsgInv', AllPursued, NEW n \in Nodes, SecureMsgScanBuckets(n)
    PROVE  AllPursued'
<1>1. /\ scanned' = [scanned EXCEPT ![n] = @ \cup {BucketOf[m] : m \in smsgStore[n]}]
      /\ smsgStore' = [smsgStore EXCEPT ![n] = {}]
      /\ UNCHANGED <<fSecMsgEnabled, smsgBuckets, handler, smsgData, net, old, missed>>
  BY DEF SecureMsgScanBuckets, threads, peers
<1>2. SameTold
  BY <1>1 DEF SameTold
<1>3. FilesGrow
  <2>1. /\ scanned'[n] = scanned[n] \cup {BucketOf[m] : m \in smsgStore[n]}
        /\ \A x \in Nodes \ {n} : scanned'[x] = scanned[x] /\ smsgStore'[x] = smsgStore[x]
    BY <1>1 DEF SmsgInv, FlagsOK, StoreOK
  <2>2. \A b \in Buckets \ scanned'[n] : smsgStore[n] \cap In(b) = {}
    BY <2>1 DEF In
  <2> QED
    BY <1>1, <2>1, <2>2 DEF FilesGrow, Files, Away
<1> QED
  BY <1>1, <1>2, <1>3, SameWire, SameReceipts, SameTellsNoMore, SteadyKeeps

LEMMA PursuedBeginDisable ==
    ASSUME SmsgInv, SmsgInv', AllPursued, NEW n \in Nodes, BeginDisable(n)
    PROVE  AllPursued'
<1>1. /\ \A x \in Nodes : fSecMsgEnabled'[x] => fSecMsgEnabled[x]
      /\ UNCHANGED <<smsgBuckets, smsgStore, handler, smsgData, net, old, scanned, missed>>
  BY DEF BeginDisable, store, threads, peers, history, SmsgInv, FlagsOK
<1>2. TellsNoMore
  BY <1>1 DEF TellsNoMore, ToldOf, hashOf
<1> QED
  BY <1>1, <1>2, SameFiles, SameWire, SameReceipts, SteadyKeeps

LEMMA PursuedAge ==
    ASSUME SmsgInv, SmsgInv', AllPursued, NEW n \in Nodes, NEW b \in Buckets, Age(n, b)
    PROVE  AllPursued'
<1>1. /\ old' = [old EXCEPT ![n] = @ \cup {b}]
      /\ UNCHANGED <<fSecMsgEnabled, smsgBuckets, smsgStore, handler, smsgData, net, scanned, missed>>
  BY DEF Age, store, threads, peers, history
<1>2. SameTold
  BY <1>1 DEF SameTold
<1>3. FilesGrow
  BY <1>1 DEF FilesGrow, Files, Away, SmsgInv, FlagsOK
<1> QED
  BY <1>1, <1>2, <1>3, SameWire, SameReceipts, SameTellsNoMore, SteadyKeeps

LEMMA PursuedEndDisable ==
    ASSUME SmsgInv, SmsgInv', AllPursued, NEW n \in Nodes, EndDisable(n)
    PROVE  AllPursued'
<1> DEFINE Kept(q) == [smsgData[n][q] EXCEPT !.fEnabled = FALSE]
           Sends(q) == IF smsgData[n][q].fEnabled THEN Append(net[n][q], [type |-> "smsgDisabled"])
                       ELSE net[n][q]
           kept == [q \in Peers(n) |-> Kept(q)]
           sends == [q \in Peers(n) |-> Sends(q)]
<1>1. /\ ~fSecMsgEnabled[n]
      /\ UNCHANGED <<fSecMsgEnabled, smsgStore, handler, old, scanned, missed>>
  BY DEF EndDisable, threads, SmsgInv, OffOK
<1>2. AllKept(n, kept) /\ AllSent(n, sends)
  BY DEF EndDisable, AllKept, AllSent
<1>3. ASSUME NEW q \in Peers(n)
      PROVE  \E msgs \in Seq(Message) : Sends(q) = net[n][q] \o msgs
  <2>1. net[n][q] \in Seq(Message)
    BY DEF SmsgInv, NetOK
  <2>2. [type |-> "smsgDisabled"] \in Message
    BY SimpleMessages
  <2>3. /\ net[n][q] = net[n][q] \o << >>
        /\ Append(net[n][q], [type |-> "smsgDisabled"]) = net[n][q] \o <<[type |-> "smsgDisabled"]>>
    BY <2>1, <2>2
  <2>4. << >> \in Seq(Message) /\ <<[type |-> "smsgDisabled"]>> \in Seq(Message)
    BY <2>2, ShortSeqs
  <2> QED
    BY <2>3, <2>4
<1> HIDE DEF Kept, Sends
<1>4. WireGrows
  <2>1. \A q \in Peers(n) : \E msgs \in Seq(Message) : sends[q] = net[n][q] \o msgs
    BY <1>3
  <2> HIDE DEF sends
  <2> QED
    BY <1>2, <2>1, AllSentWire DEF SmsgInv
<1>5. \A x \in Nodes \ {n} : smsgData'[x] = smsgData[x] /\ smsgBuckets'[x] = smsgBuckets[x]
  <2> HIDE DEF kept
  <2> QED
    BY <1>2 DEF SmsgInv, PeersOK, AllKept, EndDisable, StoreOK
<1>6. TellsNoMore
  BY <1>1, <1>5 DEF TellsNoMore, ToldOf, hashOf
<1> QED
  BY <1>1, <1>4, <1>6, SameFiles, SameReceipts, SteadyKeeps

LEMMA PursuedEnable ==
    ASSUME SmsgInv, SmsgInv', AllPursued, NEW n \in Nodes, SecureMsgEnable(n)
    PROVE  AllPursued'
<1> DEFINE both == <<[type |-> "smsgPing"], [type |-> "smsgPong"]>>
           sends == [q \in Peers(n) |-> net[n][q] \o both]
<1>1. /\ fSecMsgEnabled' = [fSecMsgEnabled EXCEPT ![n] = TRUE]
      /\ smsgStore' = [smsgStore EXCEPT ![n] = {m \in smsgStore[n] : BucketOf[m] \notin old[n]}]
      /\ Changed(n, Buckets) /\ KeepSince(n, Buckets) /\ AllSent(n, sends)
      /\ UNCHANGED <<old, scanned, missed>>
  BY DEF SecureMsgEnable, SecureMsgBuildBucketSet, AllSent, history
<1>2. \A x \in Nodes \ {n} : smsgBuckets'[x] = smsgBuckets[x]
  BY DEF SecureMsgEnable, SecureMsgBuildBucketSet, SmsgInv, StoreOK
<1>3. WireGrows
  <2>1. both \in Seq(Message)
    BY SimpleMessages
  <2>2. \A q \in Peers(n) : \E msgs \in Seq(Message) : sends[q] = net[n][q] \o msgs
    BY <2>1
  <2> HIDE DEF sends
  <2> QED
    BY <1>1, <2>2, AllSentWire DEF SmsgInv
<1>4. SinceKept(n, Buckets) /\ ReceiptsGoOn
  <2>1. HandlerOK /\ Buckets \in SUBSET Buckets
    BY DEF SmsgInv
  <2> QED
    BY <1>1, <2>1, SinceGrows DEF ReceiptsGoOn
<1>5. TellsNoMore
  <2>1. \A x \in Nodes : \A c \in Buckets :
           (x = n /\ c \in Buckets) \/ smsgBuckets'[x][c].hash = smsgBuckets[x][c].hash
    BY <1>2
  <2>2. \A x \in Nodes : \/ fSecMsgEnabled'[x] => fSecMsgEnabled[x]
                         \/ x = n /\ Buckets = Buckets
    BY <1>1 DEF SmsgInv, FlagsOK
  <2> QED
    BY <1>1, <1>4, <2>1, <2>2, ChangedTellsNoMore
<1>6. FilesGrow
  <2>1. /\ smsgStore'[n] = {m \in smsgStore[n] : BucketOf[m] \notin old[n]}
        /\ \A x \in Nodes \ {n} : smsgStore'[x] = smsgStore[x]
    BY <1>1 DEF SmsgInv, StoreOK
  <2> QED
    BY <1>1, <2>1 DEF FilesGrow, Files, Away, In
<1> QED
  BY <1>3, <1>4, <1>5, <1>6, SteadyKeeps

(* What x's thread is about to do to another peer than y it goes on with.  *)
GoesOnWithout(x, y) ==
    /\ HandlerWithout(x, y).op = "end" =>
          HandlerWithout(x, y) = handler[x] /\ HandlerWithout(x, y).peer # y
    /\ \A z : Busy(x, z) => HandlerWithout(x, y) = handler[x] \/ z = y

LEMMA WhatGoesOn ==
    ASSUME HandlerOK, NEW x \in Nodes, NEW y
    PROVE  GoesOnWithout(x, y)
<1>1. HandlerWithout(x, y).op = "end" =>
         HandlerWithout(x, y) = handler[x] /\ HandlerWithout(x, y).peer # y
  BY HandlerGoesOn
<1>2. ASSUME NEW z, Busy(x, z), z # y
      PROVE  HandlerWithout(x, y) = handler[x]
  BY <1>2, HandlerGoesOn DEF Busy
<1> QED
  BY <1>1, <1>2 DEF GoesOnWithout

(* New connections: all is to be announced again.                          *)
LEMMA CutPursued ==
    ASSUME SmsgInv, SmsgInv', AllPursued, NEW n \in Nodes, NEW ps, Connect(n, ps), FilesGrow,
           \A x \in Nodes : handler'[x].op = "end" =>
              handler'[x] = handler[x] /\ ~Cut(n, ps, x, handler'[x].peer),
           \A x \in Nodes : \A y \in Peers(x) :
              Busy(x, y) => handler'[x] = handler[x] \/ Cut(n, ps, x, y),
           \A x \in Nodes : \/ /\ fSecMsgEnabled'[x] = fSecMsgEnabled[x]
                               /\ \A c \in Buckets : smsgBuckets'[x][c].hash = smsgBuckets[x][c].hash
                            \/ x = n /\ ps = Peers(n)
    PROVE  AllPursued'
<1> SUFFICES ASSUME ~missed', NEW x \in Nodes, NEW y \in Peers(x),
                    NEW c \in Buckets \ (Away(x)' \cup Away(y)'), ToldOf(x, y, c)'
             PROVE  Pursued(x, y, c)'
  BY DEF AllPursued, Pursued
<1>1. y \in Nodes /\ x \in Peers(y) /\ x # y
  BY DEF Peers
<1>2. smsgData'[x][y] = IF Cut(n, ps, x, y) THEN NewPeer ELSE smsgData[x][y]
  BY ConnectChange
<1>3. ~Cut(n, ps, x, y)
  BY <1>2 DEF ToldOf, NewPeer
<1>4. ~(x = n /\ ps = Peers(n)) /\ ~(y = n /\ ps = Peers(n))
  BY <1>1, <1>3 DEF Cut
<1>5. net'[x][y] = net[x][y] /\ net'[y][x] = net[y][x]
  <2>1. net' = [v \in Nodes |-> [w \in Peers(v) |-> IF Cut(n, ps, v, w) THEN << >> ELSE net[v][w]]]
    BY DEF Connect, Cut
  <2>2. ~Cut(n, ps, y, x)
    BY <1>3 DEF Cut
  <2> QED
    BY <1>1, <1>3, <2>1, <2>2
<1>6. ToldOf(x, y, c) /\ hashOf(x, c)' = hashOf(x, c)
  BY <1>2, <1>3, <1>4 DEF ToldOf, hashOf
<1>7. Busy(y, x) => handler'[y] = handler[y]
  BY <1>1, <1>3 DEF Cut
<1>8. Pursued(x, y, c)
  BY <1>1 DEF AllPursued, FilesGrow
<1>9. OnWire(x, y)' = OnWire(x, y) /\ OnWire(y, x)' = OnWire(y, x)
  BY <1>5 DEF OnWire
<1> QED
  BY <1>6, <1>7, <1>8, <1>9, SteadyStep DEF SmsgInv

LEMMA PursuedReconnect ==
    ASSUME SmsgInv, SmsgInv', AllPursued, NEW n \in Nodes, NEW p \in Peers(n), Reconnect(n, p)
    PROVE  AllPursued'
<1>1. p \in Nodes /\ p # n
  BY DEF Peers
<1>2. /\ UNCHANGED <<fSecMsgEnabled, smsgStore, old, scanned, missed>> /\ Connect(n, {p})
      /\ smsgBuckets' = [smsgBuckets EXCEPT ![n] = Orphaned(n, p), ![p] = Orphaned(p, n)]
      /\ handler' = [handler EXCEPT ![n] = HandlerWithout(n, p), ![p] = HandlerWithout(p, n)]
  BY DEF Reconnect, history
<1>3. \A x \in Nodes : \A c \in Buckets : smsgBuckets'[x][c].hash = smsgBuckets[x][c].hash
  <2>1. /\ smsgBuckets'[n] = Orphaned(n, p) /\ smsgBuckets'[p] = Orphaned(p, n)
        /\ \A x \in Nodes \ {n, p} : smsgBuckets'[x] = smsgBuckets[x]
    BY <1>1, <1>2 DEF SmsgInv, StoreOK
  <2>2. \A x \in Nodes : \A y : \A c \in Buckets : Orphaned(x, y)[c].hash = smsgBuckets[x][c].hash
    BY OrphanedBucket DEF SmsgInv
  <2> QED
    BY <1>1, <2>1, <2>2
<1>4. /\ handler'[n] = HandlerWithout(n, p) /\ handler'[p] = HandlerWithout(p, n)
      /\ \A x \in Nodes \ {n, p} : handler'[x] = handler[x]
  BY <1>1, <1>2 DEF SmsgInv, HandlerOK
<1>5. \A x \in Nodes : \A y : GoesOnWithout(x, y)
  BY WhatGoesOn DEF SmsgInv
<1>6. \A x \in Nodes : \A y \in Peers(x) :
         Busy(x, y) => handler'[x] = handler[x] \/ Cut(n, {p}, x, y)
  BY <1>1, <1>4, <1>5 DEF Cut, GoesOnWithout
<1>7. \A x \in Nodes : handler'[x].op = "end" =>
         handler'[x] = handler[x] /\ ~Cut(n, {p}, x, handler'[x].peer)
  BY <1>1, <1>4, <1>5 DEF Cut, GoesOnWithout
<1>8. FilesGrow
  BY <1>2, SameFiles
<1>9. PICK ps : ps = {p}
  OBVIOUS
<1>10. /\ Connect(n, ps)
       /\ \A x \in Nodes : handler'[x].op = "end" =>
             handler'[x] = handler[x] /\ ~Cut(n, ps, x, handler'[x].peer)
       /\ \A x \in Nodes : \A y \in Peers(x) :
             Busy(x, y) => handler'[x] = handler[x] \/ Cut(n, ps, x, y)
  BY <1>2, <1>6, <1>7, <1>9
<1>11. \A x \in Nodes : /\ fSecMsgEnabled'[x] = fSecMsgEnabled[x]
                        /\ \A c \in Buckets : smsgBuckets'[x][c].hash = smsgBuckets[x][c].hash
  BY <1>2, <1>3
<1>12. SmsgInv /\ SmsgInv' /\ AllPursued /\ n \in Nodes
  OBVIOUS
<1> QED
  BY ONLY <1>8, <1>10, <1>11, <1>12, CutPursued

LEMMA PursuedRestart ==
    ASSUME SmsgInv, SmsgInv', AllPursued, NEW n \in Nodes, Restart(n)
    PROVE  AllPursued'
<1> DEFINE files == {m \in smsgStore[n] : BucketOf[m] \notin old[n]}
<1>1. /\ Connect(n, Peers(n))
      /\ fSecMsgEnabled' = [fSecMsgEnabled EXCEPT ![n] = TRUE]
      /\ smsgStore' = [smsgStore EXCEPT ![n] = files]
      /\ handler' = [x \in Nodes |-> IF x = n THEN Idle ELSE HandlerWithout(x, n)]
      /\ UNCHANGED <<old, scanned, missed>>
  BY DEF Restart, history
<1>2. \A x \in Nodes \ {n} : smsgBuckets'[x] = Orphaned(x, n)
  BY DEF Restart
<1>3. \A x \in Nodes \ {n} :
         /\ fSecMsgEnabled'[x] = fSecMsgEnabled[x]
         /\ \A c \in Buckets : smsgBuckets'[x][c].hash = smsgBuckets[x][c].hash
  BY <1>1, <1>2, OrphanedBucket DEF SmsgInv, FlagsOK
<1>4. \A x \in Nodes : GoesOnWithout(x, n)
  BY WhatGoesOn DEF SmsgInv
<1>5. handler'[n] = Idle /\ \A x \in Nodes \ {n} : handler'[x] = HandlerWithout(x, n)
  BY <1>1
<1>6. FilesGrow
  <2>1. smsgStore'[n] = files /\ \A x \in Nodes \ {n} : smsgStore'[x] = smsgStore[x]
    BY <1>1 DEF SmsgInv, StoreOK
  <2> QED
    BY <1>1, <2>1 DEF FilesGrow, Files, Away, In
<1> HIDE DEF files
<1>7. PICK ps : ps = Peers(n)
  OBVIOUS
<1>8. \A x \in Nodes : \A y \in Peers(x) :
         Busy(x, y) => handler'[x] = handler[x] \/ Cut(n, ps, x, y)
  <2>1. ASSUME NEW x \in Nodes \ {n}, NEW y \in Peers(x), Busy(x, y)
        PROVE  handler'[x] = handler[x] \/ Cut(n, ps, x, y)
    <3>1. HandlerWithout(x, n) = handler[x] \/ y = n
      BY <1>4, <2>1 DEF GoesOnWithout
    <3> QED
      BY <1>5, <1>7, <3>1 DEF Cut, Peers
  <2>2. \A y \in Peers(n) : Cut(n, ps, n, y)
    BY <1>7 DEF Cut
  <2> QED
    BY <2>1, <2>2
<1>9. \A x \in Nodes : handler'[x].op = "end" =>
         handler'[x] = handler[x] /\ ~Cut(n, ps, x, handler'[x].peer)
  BY <1>4, <1>5, <1>7 DEF Cut, Idle, GoesOnWithout
<1>10. \A x \in Nodes : \/ /\ fSecMsgEnabled'[x] = fSecMsgEnabled[x]
                           /\ \A c \in Buckets : smsgBuckets'[x][c].hash = smsgBuckets[x][c].hash
                        \/ x = n /\ ps = Peers(n)
  BY <1>3, <1>7
<1>11. Connect(n, ps)
  BY <1>1, <1>7
<1> QED
  BY <1>6, <1>8, <1>9, <1>10, <1>11, CutPursued

(* The announcement leads the peer to what it is told of; what is not      *)
(* announced is empty, or was announced before.                            *)
LEMMA PursuedSendInv ==
    ASSUME SmsgInv, SmsgInv', AllPursued, NEW n \in Nodes, SendInv(n)
    PROVE  AllPursued'
<1>1. PICK p \in Peers(n) : p = handler[n].peer
  BY Sending DEF SendInv, SmsgInv
<1> DEFINE shown == {b \in smsgData[n][p].due : Tokens(n, b) # {}}
           inv == [b \in shown |-> [nMessages |-> Cardinality(Tokens(n, b)),
                                    hash |-> smsgBuckets[n][b].hash]]
           msg == [type |-> "smsgInv", inv |-> inv]
           msgs == IF shown = {} THEN << >> ELSE <<msg>>
<1>2. /\ handler[n].op = "begin"
      /\ handler[n] \in [op : {"begin", "end"}, peer : Nodes, since : SUBSET Buckets,
                         again : SUBSET Buckets]
      /\ UNCHANGED <<fSecMsgEnabled, smsgBuckets, smsgStore, old, scanned, missed>>
      /\ handler' = [handler EXCEPT ![n].op = "end"]
      /\ Push(n, p, msgs)
  BY <1>1, Sending DEF SendInv, SmsgInv, store, history
<1>3. smsgData[n][p] \in PeerData /\ shown \subseteq Buckets
  BY DEF SmsgInv, PeersOK, PeerData
<1>4. \A b \in Buckets : Tokens(n, b) \in SUBSET Msgs /\ hashOf(n, b) = Tokens(n, b)
  BY <1>2 DEF SmsgInv, HashIsCurrent, StoreOK, Bucket, Tokens, Receiving, hashOf
<1>5. inv \in [shown -> Announced]
  BY <1>3, <1>4 DEF Announced, hashOf
<1>6. msg \in Message
  BY <1>3, <1>5, Made
<1>7. WireGrows /\ (shown # {} => msg \in OnWire(n, p)')
  <2> HIDE DEF msg, shown
  <2>1. msgs \in Seq(Message) /\ (shown # {} => msg \in Range(msgs))
    BY <1>6, ShortSeqs DEF Range
  <2> HIDE DEF msgs
  <2> QED
    BY <1>2, <2>1, PushWire DEF SmsgInv
<1>8. \A b \in shown : msg.type = "smsgInv" /\ b \in DOMAIN msg.inv
         /\ msg.inv[b] = [nMessages |-> Cardinality(hashOf(n, b)), hash |-> hashOf(n, b)]
  BY <1>3, <1>4 DEF hashOf
<1>9. \A x \in Nodes : \A y \in Peers(x) : smsgData'[x][y].due = smsgData[x][y].due
  <2> DEFINE told == [b \in Buckets |-> IF b \in shown THEN inv[b].hash ELSE smsgData[n][p].told[b]]
  <2>1. smsgData' = [smsgData EXCEPT ![n] = [smsgData[n] EXCEPT ![p] =
                       [smsgData[n][p] EXCEPT !.told = told]]]
    BY <1>1 DEF SendInv
  <2> HIDE DEF told
  <2>2. [smsgData[n][p] EXCEPT !.told = told].due = smsgData[n][p].due
    BY <1>3 DEF PeerData
  <2>3. smsgData[n] \in [Peers(n) -> PeerData] /\ smsgData = [x \in Nodes |-> smsgData[x]]
    BY DEF SmsgInv, PeersOK
  <2> QED
    BY <2>1, <2>2, <2>3
<1>10. /\ handler'[n].op = "end" /\ handler'[n].peer = p /\ \A x \in Nodes \ {n} : handler'[x] = handler[x]
       /\ ReceiptsGoOn
  BY <1>1, <1>2 DEF SmsgInv, HandlerOK, ReceiptsGoOn
<1>11. FilesGrow
  BY <1>2, SameFiles
<1> HIDE DEF msg, msgs
<1> SUFFICES ASSUME ~missed', NEW x \in Nodes, NEW y \in Peers(x),
                    NEW b \in Buckets \ (Away(x)' \cup Away(y)'), ToldOf(x, y, b)'
             PROVE  Pursued(x, y, b)'
  BY DEF AllPursued, Pursued
<1>12. y \in Nodes /\ x \in Peers(y)
  BY DEF Peers
<1>13. hashOf(x, b)' = hashOf(x, b)
  BY <1>2 DEF hashOf
<1>14. CASE x = n /\ y = p /\ b \in shown
  <2>1. Leads(msg, b, hashOf(n, b), Files(p, b)') /\ msg \in OnWire(n, p)'
    BY <1>7, <1>8, <1>14 DEF Leads
  <2> QED
    BY <1>13, <1>14, <2>1 DEF Pursued, Comes
<1>15. CASE x = n /\ y = p /\ b \in smsgData[n][p].due \ shown
  <2>1. hashOf(x, b)' = {}
    BY <1>4, <1>13, <1>15
  <2> QED
    BY <2>1 DEF Pursued, Comes, Has
<1>16. CASE ~(x = n /\ y = p /\ b \in smsgData[n][p].due)
  <2>1. ToldOf(x, y, b)
    BY <1>1, <1>2, <1>9, <1>10, <1>16 DEF ToldOf
  <2>2. Pursued(x, y, b)
    BY <1>2, <1>12 DEF AllPursued, Away
  <2>3. OnWire(x, y) \subseteq OnWire(x, y)' /\ OnWire(y, x) \subseteq OnWire(y, x)'
    BY <1>7, <1>12 DEF WireGrows
  <2>4. Busy(y, x) => handler'[y] = handler[y]
    BY <1>10, <1>12 DEF ReceiptsGoOn, Busy
  <2> QED
    BY <1>11, <1>13, <2>1, <2>2, <2>3, <2>4, SteadyStep DEF SmsgInv
<1> QED
  BY <1>14, <1>15, <1>16

(* A step of a handler that is storing a bunch, of its node's files and of *)
(* nothing that anyone is told.                                            *)
LEMMA ReceiptStep ==
    ASSUME SmsgInv, SmsgInv', AllPursued, NEW n \in Nodes, FilesGrow, TellsNoMore, UNCHANGED net,
           \A x \in Nodes \ {n} : handler'[x] = handler[x],
           NEW at \in Buckets, handler[n].bucket = at, handler[n].op = "receive",
           Files(n, at) \cup handler[n].bunch
              \subseteq Files(n, at)' \cup (IF Receiving(n, at)' THEN handler'[n].bunch ELSE {})
    PROVE  AllPursued'
<1> SUFFICES ASSUME ~missed', NEW x \in Nodes, NEW y \in Peers(x),
                    NEW b \in Buckets \ (Away(x)' \cup Away(y)'), ToldOf(x, y, b)'
             PROVE  Pursued(x, y, b)'
  BY DEF AllPursued, Pursued
<1>1. y \in Nodes /\ x \in Peers(y)
  BY DEF Peers
<1>2. Pursued(x, y, b)
  BY <1>1 DEF AllPursued, FilesGrow
<1>3. ToldOf(x, y, b) /\ hashOf(x, b)' = hashOf(x, b)
  BY DEF TellsNoMore
<1>4. OnWire(x, y)' = OnWire(x, y) /\ OnWire(y, x)' = OnWire(y, x)
  BY DEF OnWire
<1>5. CASE y # n
  <2>1. handler'[y] = handler[y]
    BY <1>1, <1>5
  <2> QED
    BY <1>2, <1>3, <1>4, <2>1, SteadyStep DEF SmsgInv
<1>6. CASE y = n
  <2>1. Files(y, b) \subseteq Files(y, b)'
    BY <1>1 DEF FilesGrow
  <2>2. ASSUME Gets(x, y, b, hashOf(x, b))
        PROVE  Comes(x, y, b, hashOf(x, b))'
    <3>1. Receiving(y, b) /\ hashOf(x, b) \subseteq Files(y, b) \cup handler[y].bunch
      BY <1>6, <2>2 DEF Gets
    <3>2. Files(y, b) \cup handler[y].bunch
             \subseteq Files(y, b)' \cup (IF Receiving(y, b)' THEN handler'[y].bunch ELSE {})
      BY <1>6, <3>1 DEF Receiving
    <3>3. CASE Receiving(y, b)'
      BY <1>3, <3>1, <3>2, <3>3 DEF Comes, Gets
    <3>4. CASE ~Receiving(y, b)'
      <4>1. hashOf(x, b)' \subseteq Files(y, b)'
        BY <1>3, <3>1, <3>2, <3>4
      <4> QED
        BY <4>1 DEF Comes, Has
    <3> QED
      BY <3>3, <3>4
  <2>3. /\ \A msg \in OnWire(x, y) : msg \in OnWire(x, y)'
        /\ \A msg \in OnWire(y, x) : msg \in OnWire(y, x)'
    BY <1>4
  <2>4. StoreOK /\ StoreOK'
    BY DEF SmsgInv
  <2> QED
    BY ONLY <1>2, <1>3, <2>1, <2>2, <2>3, <2>4, PursuitGoesOn
<1> QED
  BY <1>5, <1>6

LEMMA PursuedStoreMsg ==
    ASSUME SmsgInv, SmsgInv', AllPursued, NEW n \in Nodes, StoreMsg(n)
    PROVE  AllPursued'
<1>1. /\ handler[n].op = "receive"
      /\ UNCHANGED <<fSecMsgEnabled, smsgData, net, old, scanned>>
  BY DEF StoreMsg, peers
<1>2. /\ handler[n] \in [op : {"receive"}, bucket : Buckets, bunch : SUBSET Msgs]
      /\ handler[n].bunch \subseteq In(handler[n].bucket)
  BY <1>1, Receives DEF SmsgInv
<1>3. SUFFICES ASSUME NEW m \in handler[n].bunch, Put(n, m), UNCHANGED missed,
                      handler' = [handler EXCEPT ![n].bunch = @ \ {m}]
               PROVE  AllPursued'
  BY DEF StoreMsg, AllPursued
<1>4. m \in Msgs /\ BucketOf[m] = handler[n].bucket
  BY <1>2 DEF In
<1>5. \A x \in Nodes : \A c \in Buckets : smsgBuckets'[x][c].hash = smsgBuckets[x][c].hash
  BY <1>2, <1>3, <1>4 DEF Put, SmsgInv, StoreOK, Bucket
<1>6. /\ smsgStore'[n] = smsgStore[n] \cup {m} /\ \A x \in Nodes \ {n} : smsgStore'[x] = smsgStore[x]
  BY <1>3 DEF Put, SmsgInv, StoreOK
<1>7. /\ handler'[n] = [handler[n] EXCEPT !.bunch = handler[n].bunch \ {m}]
      /\ \A x \in Nodes \ {n} : handler'[x] = handler[x]
  BY <1>3 DEF SmsgInv, HandlerOK
<1>8. /\ handler'[n].op = "receive" /\ handler'[n].bucket = handler[n].bucket
      /\ handler'[n].bunch = handler[n].bunch \ {m}
  BY <1>2, <1>7
<1>9. FilesGrow
  BY <1>1, <1>3, <1>6 DEF FilesGrow, Files, Away
<1>10. TellsNoMore
  BY <1>1, <1>5, <1>7, <1>8 DEF TellsNoMore, ToldOf, hashOf
<1>11. PICK b \in Buckets : b = handler[n].bucket
  BY <1>2
<1>12. Files(n, b) \cup handler[n].bunch
          \subseteq Files(n, b)' \cup (IF Receiving(n, b)' THEN handler'[n].bunch ELSE {})
  BY <1>2, <1>4, <1>6, <1>8, <1>11 DEF Files, Receiving, In
<1> QED
  BY <1>1, <1>7, <1>9, <1>10, <1>11, <1>12, ReceiptStep

LEMMA PursuedEndReceive ==
    ASSUME SmsgInv, SmsgInv', AllPursued, NEW n \in Nodes, EndReceive(n)
    PROVE  AllPursued'
<1>1. PICK b \in Buckets : b = handler[n].bucket
  BY Receives DEF EndReceive, SmsgInv
<1> DEFINE bs == IF Tokens(n, b) = smsgBuckets[n][b].hash THEN {} ELSE {b}
<1>2. /\ handler[n].op = "receive" /\ handler[n].bunch = {} /\ handler' = [handler EXCEPT ![n] = Idle]
      /\ UNCHANGED <<fSecMsgEnabled, smsgStore, net, old, scanned, missed>>
      /\ Changed(n, bs)
  BY <1>1 DEF EndReceive, hashBucket, history
<1>3. /\ smsgBuckets'[n][b].hash = Tokens(n, b)
      /\ \A x \in Nodes : \A c \in Buckets : x # n \/ c # b => smsgBuckets'[x][c] = smsgBuckets[x][c]
  BY <1>1 DEF EndReceive, SmsgInv, StoreOK, NoBucket
<1>4. handler'[n] = Idle /\ \A x \in Nodes \ {n} : handler'[x] = handler[x]
  BY <1>2 DEF SmsgInv, HandlerOK
<1>5. TellsNoMore
  <2>1. bs \in SUBSET Buckets
    BY <1>1
  <2>2. SinceKept(n, bs)
    BY <1>4 DEF SinceKept, SmsgInv, HandlerOK, Idle
  <2>3. \A x \in Nodes : \A c \in Buckets :
           (x = n /\ c \in bs) \/ smsgBuckets'[x][c].hash = smsgBuckets[x][c].hash
    BY <1>3
  <2>4. \A x \in Nodes : fSecMsgEnabled'[x] => fSecMsgEnabled[x]
    BY <1>2
  <2> HIDE DEF bs
  <2> QED
    BY <1>2, <2>1, <2>2, <2>3, <2>4, ChangedTellsNoMore
<1>6. FilesGrow
  BY <1>2, SameFiles
<1>7. Files(n, b) \cup handler[n].bunch
         \subseteq Files(n, b)' \cup (IF Receiving(n, b)' THEN handler'[n].bunch ELSE {})
  BY <1>2 DEF Files
<1> QED
  BY <1>1, <1>2, <1>4, <1>5, <1>6, <1>7, ReceiptStep

LEMMA SetToSeqHasAll ==
    ASSUME NEW S, IsFiniteSet(S)
    PROVE  Range(SetToSeq(S)) = S
<1> DEFINE k == Cardinality(S)
           f == SetToSeq(S)
<1>1. k \in Nat /\ ExistsBijection(1..k, S)
  BY FS_CardinalityType
<1>2. \E g \in [1..k -> S] : IsInjective(g)
  BY <1>1 DEF ExistsBijection, Bijection, Injection
<1>3. f \in [1..k -> S] /\ IsInjective(f)
  BY <1>2 DEF SetToSeq
<1>4. f \in Injection(1..k, S)
  BY <1>3 DEF Injection
<1>5. Cardinality(1..k) = k
  BY <1>1, FS_Interval
<1> HIDE DEF f
<1>6. f \in Surjection(1..k, S)
  BY <1>4, <1>5, FS_Injection
<1>7. Range(f) = S
  BY <1>3, <1>6 DEF Range, Surjection
<1> QED
  BY <1>7 DEF f

LEMMA HeadOrTail ==
    ASSUME NEW s \in Seq(Message), s # << >>
    PROVE  \A msg \in Range(s) : msg = Head(s) \/ msg \in Range(Tail(s))
<1> SUFFICES ASSUME NEW i \in DOMAIN s, i # 1
             PROVE  s[i] \in Range(Tail(s))
  BY DEF Range
<1>1. Len(s) \in Nat /\ DOMAIN s = 1..Len(s) /\ i \in 1..Len(s)
  OBVIOUS
<1>2. DOMAIN Tail(s) = 1..(Len(s) - 1)
  OBVIOUS
<1>3. i - 1 \in 1..(Len(s) - 1)
  BY <1>1
<1>4. Tail(s)[i - 1] = s[i]
  BY <1>1, <1>3
<1> QED
  BY <1>2, <1>3, <1>4 DEF Range

(* The message that is handled goes from the wire, the reply comes on it.  *)
LEMMA ReplyWire ==
    ASSUME NetOK, NEW n \in Nodes, NEW p \in Peers(n), net[p][n] # << >>,
           NEW msgs \in Seq(Message), Reply(n, p, msgs)
    PROVE  /\ \A msg \in OnWire(p, n) : msg = Head(net[p][n]) \/ msg \in OnWire(p, n)'
           /\ Range(msgs) \subseteq OnWire(n, p)'
           /\ \A x \in Nodes : \A y \in Peers(x) :
                 ~(x = p /\ y = n) => OnWire(x, y) \subseteq OnWire(x, y)'
<1>1. /\ net'[p][n] = Tail(net[p][n]) /\ net'[n][p] = net[n][p] \o msgs
      /\ \A x \in Nodes : \A y \in Peers(x) :
            ~(x = p /\ y = n) /\ ~(x = n /\ y = p) => net'[x][y] = net[x][y]
  BY ReplyChange
<1>2. p \in Nodes /\ n \in Peers(p) /\ n # p
  BY DEF Peers
<1>3. net[n][p] \in Seq(Message) /\ net[p][n] \in Seq(Message)
  BY <1>2 DEF NetOK
<1>4. \A msg \in Range(net[p][n]) : msg = Head(net[p][n]) \/ msg \in Range(Tail(net[p][n]))
  BY <1>3, HeadOrTail
<1>5. OnWire(n, p) \subseteq OnWire(n, p)' /\ Range(msgs) \subseteq OnWire(n, p)'
  BY <1>1, <1>3, Appended DEF OnWire
<1> QED
  BY <1>1, <1>4, <1>5 DEF OnWire

(* What a handler that takes up a message must see to, if it is one that   *)
(* leads to messages or asks for them.                                     *)
LEMMA ReplyStep ==
    ASSUME SmsgInv, SmsgInv', AllPursued, missed => missed',
           NEW n \in Nodes, NEW p \in Peers(n), net[p][n] # << >>, NEW msgs \in Seq(Message),
           Reply(n, p, msgs), UNCHANGED <<fSecMsgEnabled, smsgStore, old, scanned>>, ReceiptsGoOn,
           \A x \in Nodes : handler'[x].op = "end" => handler'[x] = handler[x],
           \A x \in Nodes : \A y \in Peers(x) : smsgData'[x][y].due = smsgData[x][y].due,
           \A x \in Nodes : \A c \in Buckets : smsgBuckets'[x][c].hash = smsgBuckets[x][c].hash,
           NEW msg, msg = Head(net[p][n]),
           \A b \in Buckets \ (Away(n) \cup Away(p)) :
              /\ ~missed' /\ ToldOf(p, n, b) /\ Leads(msg, b, hashOf(p, b), Files(n, b))
                 => Comes(p, n, b, hashOf(p, b))'
              /\ ~missed' /\ ToldOf(n, p, b) /\ Asks(msg, b, hashOf(n, b), Files(p, b))
                 => Comes(n, p, b, hashOf(n, b))'
    PROVE  AllPursued'
<1> SUFFICES ASSUME ~missed', NEW x \in Nodes, NEW y \in Peers(x),
                    NEW b \in Buckets \ (Away(x)' \cup Away(y)')
             PROVE  Pursued(x, y, b)'
  BY DEF AllPursued
<1>1. y \in Nodes /\ x \in Peers(y) /\ p \in Nodes /\ n \in Peers(p) /\ p # n
  BY DEF Peers
<1>2. b \notin Away(x) /\ b \notin Away(y) /\ Pursued(x, y, b)
  BY <1>1 DEF Away, AllPursued
<1>3. ToldOf(x, y, b)' => ToldOf(x, y, b) /\ hashOf(x, b)' = hashOf(x, b)
  BY <1>1 DEF ToldOf, hashOf
<1>4. Files(y, b)' = Files(y, b)
  BY DEF Files
<1>5. /\ \A m \in OnWire(p, n) : m = msg \/ m \in OnWire(p, n)'
      /\ \A v \in Nodes : \A w \in Peers(v) :
            ~(v = p /\ w = n) => OnWire(v, w) \subseteq OnWire(v, w)'
  <2>1. NetOK
    BY DEF SmsgInv
  <2> QED
    BY <2>1, ReplyWire
<1>6. \A m \in OnWire(x, y) :
         \/ m \in OnWire(x, y)'
         \/ ToldOf(x, y, b) /\ Leads(m, b, hashOf(x, b), Files(y, b))
            => Comes(x, y, b, hashOf(x, b))'
  <2>1. CASE x = p /\ y = n
    BY <1>2, <1>5, <2>1
  <2>2. CASE ~(x = p /\ y = n)
    BY <1>5, <2>2
  <2> QED
    BY <2>1, <2>2
<1>7. \A m \in OnWire(y, x) :
         \/ m \in OnWire(y, x)'
         \/ ToldOf(x, y, b) /\ Asks(m, b, hashOf(x, b), Files(y, b))
            => Comes(x, y, b, hashOf(x, b))'
  <2>1. CASE y = p /\ x = n
    BY <1>2, <1>5, <2>1
  <2>2. CASE ~(y = p /\ x = n)
    BY <1>1, <1>5, <2>2
  <2> QED
    BY <2>1, <2>2
<1>8. ASSUME ToldOf(x, y, b)', Gets(x, y, b, hashOf(x, b))
      PROVE  Comes(x, y, b, hashOf(x, b))'
  <2>1. handler'[y] = handler[y]
    BY <1>1, <1>8 DEF Gets, Receiving, ReceiptsGoOn
  <2>2. Gets(x, y, b, hashOf(x, b))'
    BY <1>3, <1>4, <1>8, <2>1 DEF Gets, Receiving
  <2> QED
    BY <2>2 DEF Comes
<1>9. StoreOK /\ StoreOK'
  BY DEF SmsgInv
<1> QED
  BY <1>2, <1>3, <1>4, <1>6, <1>7, <1>8, <1>9, PursuitGoesOn

(* What most of them leave alone.                                          *)
LEMMA TalkStep ==
    ASSUME SmsgInv, SmsgInv', AllPursued, missed => missed',
           NEW n \in Nodes, NEW p \in Peers(n), net[p][n] # << >>, NEW msgs \in Seq(Message),
           Reply(n, p, msgs), UNCHANGED <<Rest, smsgStore>>, SameTold,
           \A x \in Nodes : \A c \in Buckets : smsgBuckets'[x][c].hash = smsgBuckets[x][c].hash,
           NEW msg, msg = Head(net[p][n]),
           \A b \in Buckets \ (Away(n) \cup Away(p)) :
              /\ ~missed' /\ ToldOf(p, n, b) /\ Leads(msg, b, hashOf(p, b), Files(n, b))
                 => Comes(p, n, b, hashOf(p, b))'
              /\ ~missed' /\ ToldOf(n, p, b) /\ Asks(msg, b, hashOf(n, b), Files(p, b))
                 => Comes(n, p, b, hashOf(n, b))'
    PROVE  AllPursued'
<1>1. UNCHANGED <<fSecMsgEnabled, smsgStore, old, scanned, handler>>
  BY DEF Rest, threads
<1>2. \A x \in Nodes : \A y \in Peers(x) : smsgData'[x][y].due = smsgData[x][y].due
  BY DEF SameTold
<1> QED
  BY <1>1, <1>2, SameReceipts, ReplyStep

LEMMA PursuedDiscard ==
    ASSUME SmsgInv, SmsgInv', AllPursued, NEW n \in Nodes, NEW p \in Peers(n), Discard(n, p)
    PROVE  AllPursued'
<1>1. PICK msg : msg = Head(net[p][n])
  OBVIOUS
<1>2. /\ ~fSecMsgEnabled[n] /\ net[p][n] # << >> /\ Reply(n, p, << >>)
      /\ missed' = (missed \/ msg.type \in {"smsgInv", "smsgHave", "smsgMsg"})
      /\ UNCHANGED <<Rest, store, smsgData>>
  BY <1>1 DEF Discard
<1>3. \A b \in Buckets \ (Away(n) \cup Away(p)) :
         /\ ~missed' /\ ToldOf(p, n, b) /\ Leads(msg, b, hashOf(p, b), Files(n, b))
            => Comes(p, n, b, hashOf(p, b))'
         /\ ~missed' /\ ToldOf(n, p, b) /\ Asks(msg, b, hashOf(n, b), Files(p, b))
            => Comes(n, p, b, hashOf(n, b))'
  BY <1>2 DEF Leads, ToldOf
<1>4. SameTold /\ << >> \in Seq(Message) /\ UNCHANGED <<smsgStore, smsgBuckets>>
  BY <1>2 DEF SameTold, store
<1> QED
  BY <1>1, <1>2, <1>3, <1>4, TalkStep

LEMMA PursuedSimple ==
    ASSUME SmsgInv, SmsgInv', AllPursued, NEW n \in Nodes, NEW p \in Peers(n),
           \/ ReceivePing(n, p) \/ ReceivePong(n, p) \/ ReceiveDisabled(n, p) \/ ReceiveIgnore(n, p)
    PROVE  AllPursued'
<1>1. PICK msg : msg = Head(net[p][n])
  OBVIOUS
<1>2. /\ net[p][n] # << >> /\ msg.type \in {"smsgPing", "smsgPong", "smsgDisabled", "smsgIgnore"}
      /\ Reply(n, p, << >>) \/ Reply(n, p, <<[type |-> "smsgPong"]>>)
      /\ UNCHANGED <<Rest, store, missed>>
  BY <1>1 DEF ReceivePing, ReceivePong, ReceiveDisabled, ReceiveIgnore, Arrives
<1>3. SameTold
  <2>1. CASE ReceivePing(n, p)
    BY <2>1 DEF ReceivePing, SameTold
  <2>2. CASE ReceivePong(n, p)
    BY <2>2, FlagOfPeer DEF ReceivePong
  <2>3. CASE ReceiveDisabled(n, p)
    BY <2>3, FlagOfPeer DEF ReceiveDisabled
  <2>4. CASE ReceiveIgnore(n, p)
    BY <2>4, FlagOfPeer DEF ReceiveIgnore
  <2> QED
    BY <2>1, <2>2, <2>3, <2>4
<1>4. PICK msgs \in Seq(Message) : Reply(n, p, msgs)
  <2>1. << >> \in Seq(Message) /\ <<[type |-> "smsgPong"]>> \in Seq(Message)
    BY SimpleMessages, ShortSeqs
  <2> QED
    BY <1>2, <2>1
<1>5. \A b, ms, held : ~Leads(msg, b, ms, held) /\ ~Asks(msg, b, ms, held)
  BY <1>2 DEF Leads, Asks
<1>6. UNCHANGED <<smsgStore, smsgBuckets>>
  BY <1>2 DEF store
<1> QED
  BY <1>1, <1>2, <1>3, <1>4, <1>5, <1>6, TalkStep

(* A handler that takes up a message finds the bucket, its hash and its    *)
(* file alike.                                                             *)
LEMMA IdleFiles ==
    ASSUME SmsgInv, NEW n \in Nodes, fSecMsgEnabled[n], handler[n] = Idle,
           NEW b \in Buckets, b \notin Away(n)
    PROVE  Tokens(n, b) = Files(n, b) /\ hashOf(n, b) = Tokens(n, b)
<1>1. ~Receiving(n, b)
  BY DEF Receiving, Idle
<1>2. b \notin scanned[n]
  BY DEF Away
<1> QED
  BY <1>1, <1>2 DEF SmsgInv, HashIsCurrent, TokensAreStored, Files, hashOf

(* Where a step that changes no file and no hash leaves what n told.       *)
LEMMA ComesNext ==
    ASSUME NEW n, NEW p, NEW b, UNCHANGED smsgStore, hashOf(n, b)' = hashOf(n, b),
           \/ Has(Files(p, b), hashOf(n, b))
           \/ \E msg \in OnWire(n, p)' : Leads(msg, b, hashOf(n, b), Files(p, b))
           \/ \E msg \in OnWire(p, n)' : Asks(msg, b, hashOf(n, b), Files(p, b))
    PROVE  Comes(n, p, b, hashOf(n, b))'
<1>1. Files(p, b)' = Files(p, b)
  BY DEF Files
<1> QED
  BY <1>1 DEF Comes

(* Who is told of more than it has asks to see it.                         *)
LEMMA PursuedInv ==
    ASSUME SmsgInv, SmsgInv', AllPursued, NEW n \in Nodes, NEW p \in Peers(n), ReceiveInv(n, p)
    PROVE  AllPursued'
<1>1. PICK msg : msg = Head(net[p][n])
  OBVIOUS
<1> DEFINE show == {b \in {c \in DOMAIN msg.inv \ old[n] : ~IsLocked(n, c)} : Lacks(n, b, msg.inv[b])}
           ask == [type |-> "smsgShow", show |-> show]
<1>2. /\ net[p][n] # << >> /\ msg \in Message /\ msg.type = "smsgInv"
      /\ handler[n] = Idle /\ fSecMsgEnabled[n]
      /\ UNCHANGED <<Rest, store, smsgData>> /\ (missed => missed')
  BY <1>1, HeadIsMessage DEF ReceiveInv, Arrives, SmsgInv
<1>3. show \subseteq Buckets /\ ask \in Message
  BY <1>2, MessageCarries, Made
<1>4. PICK msgs \in Seq(Message) :
         /\ Reply(n, p, msgs)
         /\ ~missed' => /\ \A b \in DOMAIN msg.inv \ old[n] : ~IsLocked(n, b)
                        /\ show # {} => ask \in Range(msgs)
  <2>1. CASE Reply(n, p, << >>) /\ missed'
    BY <2>1, ShortSeqs
  <2>2. CASE /\ Reply(n, p, IF show = {} THEN << >> ELSE <<ask>>)
             /\ missed' = (missed \/ \E b \in DOMAIN msg.inv \ old[n] : IsLocked(n, b))
    <3> HIDE DEF show, ask
    <3>1. ask \in Range(<<ask>>)
      BY DEF Range
    <3> QED
      BY <1>3, <2>2, <3>1, ShortSeqs
  <2> QED
    BY <1>1, <2>1, <2>2 DEF ReceiveInv
<1>5. Range(msgs) \subseteq OnWire(n, p)'
  BY <1>2, <1>4, ReplyWire DEF SmsgInv
<1>6. SameTold /\ UNCHANGED <<smsgStore, smsgBuckets>>
  BY <1>2 DEF SameTold, store
<1>7. ASSUME ~missed', NEW b \in Buckets \ (Away(n) \cup Away(p)),
             Leads(msg, b, hashOf(p, b), Files(n, b))
      PROVE  Comes(p, n, b, hashOf(p, b))'
  <2>1. /\ b \in DOMAIN msg.inv /\ b \notin old[n] /\ ~IsLocked(n, b)
        /\ msg.inv[b] = [nMessages |-> Cardinality(hashOf(p, b)), hash |-> hashOf(p, b)]
    BY <1>2, <1>4, <1>7 DEF Leads, Away
  <2>2. Tokens(n, b) = Files(n, b) /\ hashOf(n, b) = Tokens(n, b)
    BY <1>2, IdleFiles
  <2>3. hashOf(p, b)' = hashOf(p, b)
    BY <1>6 DEF hashOf
  <2>4. CASE Lacks(n, b, msg.inv[b])
    <3>1. b \in show
      BY <2>1, <2>4
    <3>2. ask.type = "smsgShow" /\ b \in ask.show
      BY <3>1
    <3>3. ask \in OnWire(n, p)'
      BY <1>4, <1>5, <1>7, <3>1
    <3> HIDE DEF ask, show
    <3>4. Asks(ask, b, hashOf(p, b), Files(n, b))
      BY <3>2 DEF Asks
    <3> QED
      BY <1>6, <2>3, <3>3, <3>4, ComesNext
  <2>5. CASE ~Lacks(n, b, msg.inv[b])
    <3> DEFINE i == Cardinality(Tokens(n, b))
               j == Cardinality(hashOf(p, b))
    <3>1. i \in Nat /\ j \in Nat
      BY FilesFinite DEF SmsgInv, Peers
    <3>2. ~(i < j) /\ ~(i = j /\ hashOf(n, b) # hashOf(p, b))
      BY <2>1, <2>5 DEF Lacks, hashOf
    <3>3. i > j \/ hashOf(n, b) = hashOf(p, b)
      <4> HIDE DEF i, j
      <4> QED
        BY <3>1, <3>2
    <3>4. Has(Files(n, b), hashOf(p, b))
      BY <2>2, <3>3 DEF Has
    <3> QED
      BY <1>6, <2>3, <3>4, ComesNext
  <2> QED
    BY <2>4, <2>5
<1>8. \A b, ms, held : ~Asks(msg, b, ms, held)
  BY <1>2 DEF Asks
<1>9. UNCHANGED <<Rest, smsgStore>>
  BY <1>2, <1>6
<1> HIDE DEF ask, show
<1> QED
  BY <1>1, <1>2, <1>4, <1>6, <1>7, <1>8, <1>9, TalkStep

(* Who is asked to show a bucket tells of all it has.                      *)
LEMMA PursuedShow ==
    ASSUME SmsgInv, SmsgInv', AllPursued, NEW n \in Nodes, NEW p \in Peers(n), ReceiveShow(n, p)
    PROVE  AllPursued'
<1>1. PICK msg : msg = Head(net[p][n])
  OBVIOUS
<1> DEFINE answer(b) == [type |-> "smsgHave", bucket |-> b, have |-> Tokens(n, b)]
           has == {b \in msg.show : Tokens(n, b) # {}}
           answers == {answer(b) : b \in has}
<1>2. /\ net[p][n] # << >> /\ msg \in Message /\ msg.type = "smsgShow"
      /\ handler[n] = Idle /\ fSecMsgEnabled[n]
      /\ UNCHANGED <<Rest, store, smsgData, missed>>
  BY <1>1, HeadIsMessage DEF ReceiveShow, Arrives, SmsgInv
<1>3. has \subseteq Buckets /\ answers \subseteq Message
  <2>1. has \subseteq Buckets
    BY <1>2, MessageCarries
  <2>2. \A b \in has : b \in Buckets /\ Tokens(n, b) \in SUBSET Msgs
    BY <2>1 DEF SmsgInv, StoreOK, Bucket, Tokens
  <2> QED
    BY <2>1, <2>2, Made
<1>4. IsFiniteSet(answers)
  <2>1. IsFiniteSet(has)
    BY <1>3, SmsgAssumption, FS_Subset DEF SmsgAssumption
  <2> DEFINE f == [b \in has |-> answer(b)]
  <2>2. f \in Surjection(has, answers)
    BY DEF Surjection
  <2> HIDE DEF has, answers, f
  <2> QED
    BY <2>1, <2>2, FS_Surjection
<1>5. PICK msgs \in Seq(Message) : Reply(n, p, msgs) /\ Range(msgs) = answers
  <2>1. Reply(n, p, SetToSeq(answers))
    BY <1>1 DEF ReceiveShow
  <2> HIDE DEF answers
  <2>2. SetToSeq(answers) \in Seq(answers) /\ Range(SetToSeq(answers)) = answers
    BY <1>4, SetToSeqOfFinite, SetToSeqHasAll
  <2>3. SetToSeq(answers) \in Seq(Message)
    BY <1>3, <2>2
  <2> QED
    BY <2>1, <2>2, <2>3
<1>6. answers \subseteq OnWire(n, p)'
  BY <1>2, <1>5, ReplyWire DEF SmsgInv
<1>7. SameTold /\ UNCHANGED <<smsgStore, smsgBuckets>>
  BY <1>2 DEF SameTold, store
<1>8. ASSUME NEW b \in Buckets \ (Away(n) \cup Away(p)), Asks(msg, b, hashOf(n, b), Files(p, b))
      PROVE  Comes(n, p, b, hashOf(n, b))'
  <2>1. b \in msg.show
    BY <1>2, <1>8 DEF Asks
  <2>2. hashOf(n, b) = Tokens(n, b)
    BY <1>2, IdleFiles
  <2>3. hashOf(n, b)' = hashOf(n, b)
    BY <1>7 DEF hashOf
  <2>4. CASE Tokens(n, b) = {}
    <3>1. Has(Files(p, b), hashOf(n, b))
      BY <2>2, <2>4 DEF Has
    <3> QED
      BY <1>7, <2>3, <3>1, ComesNext
  <2>5. CASE Tokens(n, b) # {}
    <3>1. answer(b) \in OnWire(n, p)'
      BY <1>6, <2>1, <2>5
    <3>2. Leads(answer(b), b, hashOf(n, b), Files(p, b))
      BY <2>2 DEF Leads
    <3> HIDE DEF answer
    <3> QED
      BY <1>7, <2>3, <3>1, <3>2, ComesNext
  <2> QED
    BY <2>4, <2>5
<1>9. \A b, ms, held : ~Leads(msg, b, ms, held)
  BY <1>2 DEF Leads
<1>10. UNCHANGED <<Rest, smsgStore>> /\ (missed => missed')
  BY <1>2, <1>7
<1> HIDE DEF answer, answers
<1> QED
  BY <1>1, <1>2, <1>5, <1>7, <1>8, <1>9, <1>10, TalkStep

(* Who is told what there is begins to sift it.                            *)
LEMMA PursuedReceiveHave ==
    ASSUME SmsgInv, SmsgInv', AllPursued, NEW n \in Nodes, NEW p \in Peers(n), ReceiveHave(n, p)
    PROVE  AllPursued'
<1>1. PICK msg : msg = Head(net[p][n])
  OBVIOUS
<1>2. /\ net[p][n] # << >> /\ msg \in Message /\ msg.type = "smsgHave" /\ handler[n] = Idle
      /\ Reply(n, p, << >>)
      /\ UNCHANGED <<fSecMsgEnabled, smsgBuckets, smsgStore, smsgData, old, scanned, missed>>
  BY <1>1, HeadIsMessage DEF ReceiveHave, Arrives, SmsgInv, store, history
<1>3. PICK at \in Buckets : at = msg.bucket
  BY <1>2, MessageCarries
<1>4. PICK have : have = msg.have
  OBVIOUS
<1> DEFINE doing == [op |-> "have", peer |-> p, bucket |-> at, have |-> have]
<1>5. handler' = IF at \in old[n] THEN handler ELSE [handler EXCEPT ![n] = doing]
  BY <1>1, <1>3, <1>4 DEF ReceiveHave
<1>6. /\ \A x \in Nodes \ {n} : handler'[x] = handler[x]
      /\ at \notin old[n] => handler'[n] = doing
      /\ handler'[n] = handler[n] \/ handler'[n] = doing
  BY <1>5 DEF SmsgInv, HandlerOK
<1>7. ReceiptsGoOn /\ \A x \in Nodes : handler'[x].op = "end" => handler'[x] = handler[x]
  <2>1. doing.op = "have" /\ handler[n].op = "idle"
    BY <1>2 DEF Idle
  <2> QED
    BY <1>6, <2>1 DEF ReceiptsGoOn
<1>8. /\ \A x \in Nodes : \A y \in Peers(x) : smsgData'[x][y].due = smsgData[x][y].due
      /\ \A x \in Nodes : \A c \in Buckets : smsgBuckets'[x][c].hash = smsgBuckets[x][c].hash
  BY <1>2
<1>9. ASSUME NEW b \in Buckets \ (Away(n) \cup Away(p)), Leads(msg, b, hashOf(p, b), Files(n, b))
      PROVE  Comes(p, n, b, hashOf(p, b))'
  <2>1. b = at /\ hashOf(p, b) \subseteq have
    BY <1>2, <1>3, <1>4, <1>9 DEF Leads
  <2>2. handler'[n] = doing
    BY <1>6, <2>1 DEF Away
  <2>3. /\ handler'[n].op = "have" /\ handler'[n].bucket = b /\ handler'[n].peer = p
        /\ handler'[n].have = have
    BY <2>1, <2>2
  <2>4. hashOf(p, b)' = hashOf(p, b)
    BY <1>2 DEF hashOf
  <2> QED
    BY <2>1, <2>3, <2>4 DEF Comes, Gets
<1>10. \A b, ms, held : ~Asks(msg, b, ms, held)
  BY <1>2 DEF Asks
<1>11. << >> \in Seq(Message) /\ (missed => missed')
  BY <1>2
<1>12. UNCHANGED <<fSecMsgEnabled, smsgStore, old, scanned>>
  BY <1>2
<1> QED
  BY <1>1, <1>2, <1>7, <1>8, <1>9, <1>10, <1>11, <1>12, ReplyStep

(* Every message lies in the bucket of its time.                           *)
TokensBelong == \A n \in Nodes, b \in Buckets : Tokens(n, b) \subseteq In(b)

LEMMA BelongInit == SmsgInit => TokensBelong
BY DEF SmsgInit, TokensBelong, Tokens, NoBucket

(* Whoever puts a message into a bucket puts it there.                     *)
LEMMA BelongStep ==
    ASSUME TokensBelong,
           \A n \in Nodes, b \in Buckets :
              smsgBuckets'[n][b].setTokens \subseteq smsgBuckets[n][b].setTokens \cup In(b)
    PROVE  TokensBelong'
BY DEF TokensBelong, Tokens

LEMMA BelongNext == SmsgInv /\ TokensBelong /\ [SmsgNext]_smsgVars => TokensBelong'
<1> SUFFICES ASSUME SmsgInv, TokensBelong, [SmsgNext]_smsgVars
             PROVE  TokensBelong'
  OBVIOUS
<1> DEFINE Puts == \A n \in Nodes, b \in Buckets :
              smsgBuckets'[n][b].setTokens \subseteq smsgBuckets[n][b].setTokens \cup In(b)
<1>1. StoreOK
  BY DEF SmsgInv
<1>2. ASSUME NEW n \in Nodes, NEW m \in Msgs,
             smsgBuckets' = [smsgBuckets EXCEPT ![n][BucketOf[m]].setTokens = @ \cup {m}]
      PROVE  Puts
  BY <1>1, <1>2, SmsgAssumption DEF StoreOK, Bucket, In, SmsgAssumption
<1>3. ASSUME NEW n \in Nodes, LockBucket(n) \/ EndReceive(n)
      PROVE  Puts
  <2>1. CASE LockBucket(n)
    BY <1>1, <2>1 DEF LockBucket, StoreOK, Bucket
  <2>2. CASE EndReceive(n)
    BY <1>1, <2>2 DEF EndReceive, StoreOK, Bucket, Tokens, NoBucket
  <2> QED
    BY <1>3, <2>1, <2>2
<1>4. ASSUME NEW n \in Nodes, Tick(n)
      PROVE  Puts
  <2>1. /\ smsgBuckets'[n] = [b \in Buckets |-> AfterTurn(n, b)]
        /\ \A x \in Nodes \ {n} : smsgBuckets'[x] = smsgBuckets[x]
    BY <1>1, <1>4 DEF Tick, StoreOK
  <2>2. \A b \in Buckets : AfterTurn(n, b).setTokens \subseteq smsgBuckets[n][b].setTokens
    <3>1. \A b \in Buckets : smsgBuckets[n][b] \in Bucket
      BY <1>1 DEF StoreOK
    <3> QED
      BY <3>1 DEF AfterTurn, Bucket, NoBucket
  <2> QED
    BY <2>1, <2>2
<1>5. ASSUME NEW n \in Nodes, StoreQueued(n)
      PROVE  Puts
  <2>1. CASE UNCHANGED store
    BY <2>1 DEF store
  <2>2. CASE /\ pow[n] # None
             /\ smsgBuckets' = [smsgBuckets EXCEPT
                  ![n][BucketOf[pow[n]]].setTokens = Tokens(n, BucketOf[pow[n]]) \cup {pow[n]},
                  ![n][BucketOf[pow[n]]].hash = Tokens(n, BucketOf[pow[n]]) \cup {pow[n]}]
    <3>1. PICK m \in Msgs : m = pow[n]
      BY <2>2 DEF SmsgInv, FlagsOK
    <3>2. PICK c \in Buckets : c = BucketOf[m] /\ m \in In(c)
      BY SmsgAssumption DEF SmsgAssumption, In
    <3>3. smsgBuckets' = [smsgBuckets EXCEPT ![n][c].setTokens = Tokens(n, c) \cup {m},
                                             ![n][c].hash = Tokens(n, c) \cup {m}]
      BY <2>2, <3>1, <3>2
    <3> QED
      BY ONLY <1>1, <3>2, <3>3, SmsgAssumption DEF StoreOK, Bucket, Tokens
  <2> QED
    BY <1>5, <2>1, <2>2 DEF StoreQueued
<1>6. ASSUME NEW n \in Nodes, EndDisable(n) \/ SecureMsgEnable(n)
      PROVE  Puts
  <2>1. CASE EndDisable(n)
    BY <1>1, <2>1 DEF EndDisable, StoreOK, NoBucket
  <2>2. CASE SecureMsgEnable(n)
    BY <1>1, <2>2 DEF SecureMsgEnable, SecureMsgBuildBucketSet, StoreOK, NoBucket
  <2> QED
    BY <1>6, <2>1, <2>2
<1>7. ASSUME NEW n \in Nodes, NEW p \in Peers(n), Reconnect(n, p)
      PROVE  Puts
  <2>1. p \in Nodes /\ p # n
    BY DEF Peers
  <2>2. /\ smsgBuckets'[n] = Orphaned(n, p) /\ smsgBuckets'[p] = Orphaned(p, n)
        /\ \A x \in Nodes \ {n, p} : smsgBuckets'[x] = smsgBuckets[x]
    BY <1>1, <1>7, <2>1 DEF Reconnect, StoreOK
  <2> QED
    BY <1>1, <2>1, <2>2, OrphanedBucket
<1>8. ASSUME NEW n \in Nodes, Restart(n)
      PROVE  Puts
  <2>1. /\ \A b \in Buckets : smsgBuckets'[n][b].setTokens \subseteq In(b)
        /\ \A x \in Nodes \ {n} : smsgBuckets'[x] = Orphaned(x, n)
    BY <1>8 DEF Restart, NoBucket
  <2> QED
    BY <1>1, <2>1, OrphanedBucket
<1>9. ASSUME UNCHANGED smsgBuckets
      PROVE  Puts
  BY <1>9
<1> HIDE DEF Puts
<1>10. Puts
  <2>1. ASSUME NEW n \in Nodes, Handler(n)
        PROVE  Puts
    <3>1. CASE StoreMsg(n)
      <4>1. handler[n].bunch \subseteq Msgs
        BY <3>1, Receives DEF StoreMsg, SmsgInv
      <4>2. PICK m \in Msgs : Put(n, m) \/ UNCHANGED store
        BY <3>1, <4>1 DEF StoreMsg
      <4> QED
        BY <1>2, <1>9, <4>2 DEF Put, store
    <3>2. CASE ~StoreMsg(n) /\ ~LockBucket(n) /\ ~EndReceive(n)
      <4>1. UNCHANGED smsgBuckets
        BY <2>1, <3>2 DEF Handler, Receive, Discard, ReceivePing, ReceivePong, ReceiveDisabled,
              ReceiveIgnore, ReceiveInv, ReceiveShow, ReceiveHave, ReceiveWant, ReceiveMsg,
              SendPing, BeginSend, SendInv, EndSend, SiftHave, store
      <4> QED
        BY <1>9, <4>1
    <3> QED
      BY <1>3, <3>1, <3>2
  <2>2. ASSUME NEW n \in Nodes, ThreadSecureMsg(n) \/ ThreadSecureMsgPow(n)
        PROVE  Puts
    <3>1. CASE Tick(n) \/ StoreQueued(n)
      BY <1>4, <1>5, <3>1
    <3>2. CASE ~Tick(n) /\ ~StoreQueued(n)
      BY <1>9, <2>2, <3>2 DEF ThreadSecureMsg, ThreadSecureMsgPow, Wake, Report, EraseQueued, store
    <3> QED
      BY <3>1, <3>2
  <2>3. ASSUME NEW n \in Nodes,
               Clock(n) \/ SecureMsgScanBuckets(n) \/ BeginDisable(n) \/ \E b \in Buckets : Age(n, b)
        PROVE  Puts
    BY <1>9, <2>3 DEF Clock, IgnoreEnds, SecureMsgScanBuckets, BeginDisable, Age, store
  <2>4. ASSUME NEW m \in Msgs, SecureMsgSend(m)
        PROVE  Puts
    BY <1>9, <2>4 DEF SecureMsgSend, store
  <2>5. CASE UNCHANGED smsgVars
    BY <1>9, <2>5 DEF smsgVars, store
  <2> QED
    BY <1>6, <1>7, <1>8, <2>1, <2>2, <2>3, <2>4, <2>5 DEF SmsgNext
<1> QED
  BY <1>10, BelongStep DEF Puts

(* A step of the handler of n that has read a smsgHave, or is about to ask *)
(* for what it lacks.                                                      *)
LEMMA HaveStep ==
    ASSUME SmsgInv, SmsgInv', AllPursued, missed => missed', NEW n \in Nodes, WireGrows,
           handler' = [handler EXCEPT ![n] = handler'[n]], handler'[n].op # "end",
           UNCHANGED <<fSecMsgEnabled, smsgData, smsgStore, old, scanned>>,
           \A x \in Nodes : \A c \in Buckets : smsgBuckets'[x][c].hash = smsgBuckets[x][c].hash,
           \A p \in Peers(n) : \A b \in Buckets \ (Away(n) \cup Away(p)) :
              ~missed' /\ Gets(p, n, b, hashOf(p, b)) => Comes(p, n, b, hashOf(p, b))'
    PROVE  AllPursued'
<1> SUFFICES ASSUME ~missed', NEW x \in Nodes, NEW y \in Peers(x),
                    NEW b \in Buckets \ (Away(x)' \cup Away(y)')
             PROVE  Pursued(x, y, b)'
  BY DEF AllPursued
<1>1. y \in Nodes /\ x \in Peers(y)
  BY DEF Peers
<1>2. b \in Buckets \ (Away(x) \cup Away(y)) /\ Pursued(x, y, b)
  BY <1>1 DEF Away, AllPursued
<1>3. \A z \in Nodes \ {n} : handler'[z] = handler[z]
  BY DEF SmsgInv, HandlerOK
<1>4. ToldOf(x, y, b)' => ToldOf(x, y, b) /\ hashOf(x, b)' = hashOf(x, b)
  BY <1>3 DEF ToldOf, hashOf
<1>5. OnWire(x, y) \subseteq OnWire(x, y)' /\ OnWire(y, x) \subseteq OnWire(y, x)'
  BY <1>1 DEF WireGrows
<1>6. CASE y # n
  <2>1. FilesGrow
    BY SameFiles
  <2> QED
    BY <1>1, <1>2, <1>3, <1>4, <1>5, <1>6, <2>1, SteadyStep DEF SmsgInv
<1>7. CASE y = n
  <2>1. Files(y, b) \subseteq Files(y, b)'
    BY DEF Files
  <2>2. Gets(x, y, b, hashOf(x, b)) => Comes(x, y, b, hashOf(x, b))'
    BY <1>1, <1>2, <1>7
  <2>3. StoreOK /\ StoreOK'
    BY DEF SmsgInv
  <2>4. /\ \A msg \in OnWire(x, y) : msg \in OnWire(x, y)'
        /\ \A msg \in OnWire(y, x) : msg \in OnWire(y, x)'
    BY <1>5
  <2> QED
    BY ONLY <1>2, <1>4, <2>1, <2>2, <2>3, <2>4, PursuitGoesOn
<1> QED
  BY <1>6, <1>7

(* It finds its bucket locked and passes the smsgHave over, or has it all, *)
(* or is to ask for the rest.                                              *)
LEMMA PursuedSiftHave ==
    ASSUME SmsgInv, SmsgInv', TokensBelong, AllPursued, NEW n \in Nodes, SiftHave(n)
    PROVE  AllPursued'
<1>1. PICK at \in Buckets, want \in SUBSET Msgs : at = handler[n].bucket /\ want = Missing(n)
  BY Having DEF SiftHave, SmsgInv, Missing
<1>2. /\ handler[n].op = "have"
      /\ UNCHANGED <<fSecMsgEnabled, smsgBuckets, smsgStore, smsgData, net, old, scanned>>
      /\ missed' = (missed \/ IsLocked(n, at))
  BY <1>1 DEF SiftHave, peers, store
<1> DEFINE doing == [op |-> "want", peer |-> handler[n].peer, bucket |-> at, want |-> want]
<1>3. handler' = [handler EXCEPT ![n] = IF IsLocked(n, at) \/ want = {} THEN Idle ELSE doing]
  BY <1>1 DEF SiftHave, SmsgInv, HandlerOK
<1>4. /\ doing.op = "want" /\ doing.peer = handler[n].peer /\ doing.bucket = at
      /\ doing.want = want
  OBVIOUS
<1> HIDE DEF doing
<1>5. /\ handler'[n] = IF IsLocked(n, at) \/ want = {} THEN Idle ELSE doing
      /\ handler' = [handler EXCEPT ![n] = handler'[n]]
  BY <1>3 DEF SmsgInv, HandlerOK
<1>6. handler'[n].op # "end"
  BY <1>4, <1>5 DEF Idle
<1>7. ASSUME ~missed', NEW p \in Peers(n), NEW b \in Buckets \ (Away(n) \cup Away(p)),
             Gets(p, n, b, hashOf(p, b))
      PROVE  Comes(p, n, b, hashOf(p, b))'
  <2>1. b = at /\ hashOf(p, b) \subseteq handler[n].have /\ handler[n].peer = p
    BY <1>1, <1>2, <1>7 DEF Gets, Receiving
  <2>2. Tokens(n, b) \subseteq Files(n, b)
    BY DEF Away, SmsgInv, TokensAreStored, TokensBelong, Files
  <2>3. hashOf(p, b) \subseteq Files(n, b) \cup want
    BY <1>1, <2>1, <2>2 DEF Missing
  <2>4. hashOf(p, b)' = hashOf(p, b) /\ Files(n, b)' = Files(n, b)
    BY <1>2 DEF hashOf, Files
  <2>5. CASE want = {}
    BY <2>3, <2>4, <2>5 DEF Comes, Has
  <2>6. CASE want # {}
    <3>1. handler'[n] = doing
      BY <1>2, <1>5, <1>7, <2>6
    <3>2. Gets(p, n, b, hashOf(p, b))'
      BY <1>4, <2>1, <2>3, <2>4, <3>1 DEF Gets
    <3> QED
      BY <3>2 DEF Comes
  <2> QED
    BY <2>5, <2>6
<1>8. missed => missed'
  BY <1>2
<1> QED
  BY <1>2, <1>5, <1>6, <1>7, <1>8, SameWire, HaveStep

(* It asks for it.                                                         *)
LEMMA PursuedLockBucket ==
    ASSUME SmsgInv, SmsgInv', AllPursued, NEW n \in Nodes, LockBucket(n)
    PROVE  AllPursued'
<1>1. PICK at \in Buckets, q \in Peers(n) \cup {None}, want \in SUBSET Msgs :
         at = handler[n].bucket /\ q = handler[n].peer /\ want = handler[n].want
  BY Having DEF LockBucket, SmsgInv
<1> DEFINE ask == [type |-> "smsgWant", bucket |-> at, want |-> want]
<1>2. ask \in Message /\ ask.type = "smsgWant" /\ ask.bucket = at /\ ask.want = want
  BY Made
<1>3. /\ handler[n].op = "want" /\ handler' = [handler EXCEPT ![n] = Idle]
      /\ smsgBuckets' = [smsgBuckets EXCEPT ![n][at].nLockCount = LockTicks,
                                            ![n][at].nLockPeerId = q]
      /\ net' = IF q = None THEN net ELSE [net EXCEPT ![n][q] = Append(@, ask)]
      /\ UNCHANGED <<fSecMsgEnabled, smsgStore, smsgData, old, scanned, missed>>
  BY <1>1 DEF LockBucket, history
<1> HIDE DEF ask
<1>4. WireGrows /\ (q # None => ask \in OnWire(n, q)')
  <2>1. CASE q = None
    BY <1>3, <2>1, SameWire
  <2>2. CASE q # None
    <3>1. q \in Peers(n) /\ NetOK
      BY <2>2 DEF SmsgInv
    <3>2. net[n][q] \in Seq(Message)
      BY <3>1 DEF NetOK
    <3>3. Append(net[n][q], ask) = net[n][q] \o <<ask>>
      <4>1. \A s \in Seq(Message) : \A msg \in Message : Append(s, msg) = s \o <<msg>>
        OBVIOUS
      <4> QED
        BY <1>2, <3>2, <4>1
    <3>4. net' = [net EXCEPT ![n][q] = Append(net[n][q], ask)]
      BY <1>3, <2>2
    <3>5. net' = [net EXCEPT ![n][q] = net[n][q] \o <<ask>>]
      BY ONLY <3>3, <3>4
    <3>6. Push(n, q, <<ask>>)
      BY ONLY <3>5 DEF Push
    <3>7. <<ask>> \in Seq(Message) /\ ask \in Range(<<ask>>)
      BY <1>2, ShortSeqs DEF Range
    <3> QED
      BY <3>1, <3>6, <3>7, PushWire
  <2> QED
    BY <2>1, <2>2
<1>5. handler'[n] = Idle /\ handler' = [handler EXCEPT ![n] = handler'[n]]
  BY <1>3 DEF SmsgInv, HandlerOK
<1>6. handler'[n].op # "end"
  BY <1>5 DEF Idle
<1>7. \A x \in Nodes : \A c \in Buckets : smsgBuckets'[x][c].hash = smsgBuckets[x][c].hash
  BY <1>3 DEF SmsgInv, StoreOK, Bucket
<1>8. ASSUME NEW p \in Peers(n), NEW b \in Buckets \ (Away(n) \cup Away(p)),
             Gets(p, n, b, hashOf(p, b))
      PROVE  Comes(p, n, b, hashOf(p, b))'
  <2>1. b = at /\ q = p /\ hashOf(p, b) \subseteq Files(n, b) \cup want
    BY <1>1, <1>3, <1>8 DEF Gets, Receiving
  <2>2. hashOf(p, b)' = hashOf(p, b)
    BY <1>7 DEF hashOf, Peers
  <2>3. Asks(ask, b, hashOf(p, b), Files(n, b))
    BY <1>2, <2>1 DEF Asks
  <2>4. ask \in OnWire(n, p)'
    BY <1>4, <2>1, SmsgAssumption DEF SmsgAssumption, Peers
  <2> QED
    BY <1>3, <2>2, <2>3, <2>4, ComesNext
<1> QED
  BY <1>3, <1>4, <1>5, <1>6, <1>7, <1>8, HaveStep

(* Who is asked for messages sends them, or fewer and the rest is missed.  *)
LEMMA PursuedWant ==
    ASSUME SmsgInv, SmsgInv', AllPursued, NEW n \in Nodes, NEW p \in Peers(n), ReceiveWant(n, p)
    PROVE  AllPursued'
<1>1. PICK msg : msg = Head(net[p][n])
  OBVIOUS
<1>2. /\ net[p][n] # << >> /\ msg \in Message /\ msg.type = "smsgWant"
      /\ handler[n] = Idle /\ fSecMsgEnabled[n]
      /\ UNCHANGED <<Rest, store, smsgData>>
  BY <1>1, HeadIsMessage DEF ReceiveWant, Arrives, SmsgInv
<1>3. PICK at \in Buckets : at = msg.bucket
  BY <1>2, MessageCarries
<1>4. PICK bunch \in Bunches(n, at, msg.want \cap Tokens(n, at)) :
         /\ Reply(n, p, IF bunch = {} THEN << >>
                        ELSE <<[type |-> "smsgMsg", bucket |-> at, bunch |-> bunch]>>)
         /\ missed' = (missed \/ bunch # (msg.want \cap Tokens(n, at)))
  BY <1>1, <1>3 DEF ReceiveWant
<1> DEFINE answer == [type |-> "smsgMsg", bucket |-> at, bunch |-> bunch]
<1>5. answer \in Message
  <2>1. bunch \in SUBSET Msgs /\ bunch \subseteq In(at)
    BY DEF Bunches, In, SmsgInv, StoreOK
  <2> QED
    BY <2>1, Made
<1>6. PICK msgs \in Seq(Message) :
         Reply(n, p, msgs) /\ (bunch # {} => answer \in Range(msgs))
  <2> HIDE DEF answer
  <2>1. answer \in Range(<<answer>>)
    BY DEF Range
  <2> QED
    BY <1>4, <1>5, <2>1, ShortSeqs DEF answer
<1>7. Range(msgs) \subseteq OnWire(n, p)'
  BY <1>2, <1>6, ReplyWire DEF SmsgInv
<1>8. SameTold /\ UNCHANGED <<smsgStore, smsgBuckets>>
  BY <1>2 DEF SameTold, store
<1>9. ASSUME ~missed', NEW b \in Buckets \ (Away(n) \cup Away(p)),
             Asks(msg, b, hashOf(n, b), Files(p, b))
      PROVE  Comes(n, p, b, hashOf(n, b))'
  <2>1. b = at /\ hashOf(n, b) \subseteq Files(p, b) \cup msg.want
    BY <1>2, <1>3, <1>9 DEF Asks
  <2>2. hashOf(n, b) = Tokens(n, b)
    BY <1>2, IdleFiles
  <2>3. hashOf(n, b)' = hashOf(n, b)
    BY <1>8 DEF hashOf
  <2>4. hashOf(n, b) \subseteq Files(p, b) \cup bunch
    BY <1>4, <1>9, <2>1, <2>2
  <2>5. CASE bunch = {}
    <3>1. Has(Files(p, b), hashOf(n, b))
      BY <2>4, <2>5 DEF Has
    <3> QED
      BY <1>8, <2>3, <3>1, ComesNext
  <2>6. CASE bunch # {}
    <3>1. answer \in OnWire(n, p)'
      BY <1>6, <1>7, <2>6
    <3>2. answer.type = "smsgMsg" /\ answer.bucket = b /\ answer.bunch = bunch
      BY <2>1
    <3> HIDE DEF answer
    <3>3. Leads(answer, b, hashOf(n, b), Files(p, b))
      BY <2>4, <3>2 DEF Leads
    <3> QED
      BY <1>8, <2>3, <3>1, <3>3, ComesNext
  <2> QED
    BY <2>5, <2>6
<1>10. \A b, ms, held : ~Leads(msg, b, ms, held)
  BY <1>2 DEF Leads
<1>11. UNCHANGED <<Rest, smsgStore>> /\ (missed => missed')
  BY <1>2, <1>4, <1>8
<1> HIDE DEF answer
<1> QED
  BY <1>1, <1>2, <1>6, <1>8, <1>9, <1>10, <1>11, TalkStep

(* Who is sent them begins to store them.                                  *)
LEMMA PursuedMsg ==
    ASSUME SmsgInv, SmsgInv', AllPursued, NEW n \in Nodes, NEW p \in Peers(n), ReceiveMsg(n, p)
    PROVE  AllPursued'
<1>1. PICK msg : msg = Head(net[p][n])
  OBVIOUS
<1>2. /\ net[p][n] # << >> /\ msg \in Message /\ msg.type = "smsgMsg" /\ handler[n] = Idle
      /\ Reply(n, p, << >>)
      /\ UNCHANGED <<fSecMsgEnabled, smsgBuckets, smsgStore, smsgData, old, scanned, missed>>
  BY <1>1, HeadIsMessage DEF ReceiveMsg, Arrives, SmsgInv, store, history
<1>3. PICK at \in Buckets : at = msg.bucket
  BY <1>2, MessageCarries
<1>4. PICK bunch : bunch = msg.bunch
  OBVIOUS
<1> DEFINE doing == [op |-> "receive", bucket |-> at, bunch |-> bunch]
<1>5. handler' = IF at \in old[n] THEN handler ELSE [handler EXCEPT ![n] = doing]
  BY <1>1, <1>3, <1>4 DEF ReceiveMsg
<1>6. /\ \A x \in Nodes \ {n} : handler'[x] = handler[x]
      /\ at \notin old[n] => handler'[n] = doing
      /\ handler'[n] = handler[n] \/ handler'[n] = doing
  BY <1>5 DEF SmsgInv, HandlerOK
<1>7. ReceiptsGoOn /\ \A x \in Nodes : handler'[x].op = "end" => handler'[x] = handler[x]
  <2>1. doing.op = "receive" /\ handler[n].op = "idle"
    BY <1>2 DEF Idle
  <2> QED
    BY <1>6, <2>1 DEF ReceiptsGoOn
<1>8. /\ \A x \in Nodes : \A y \in Peers(x) : smsgData'[x][y].due = smsgData[x][y].due
      /\ \A x \in Nodes : \A c \in Buckets : smsgBuckets'[x][c].hash = smsgBuckets[x][c].hash
  BY <1>2
<1>9. ASSUME NEW b \in Buckets \ (Away(n) \cup Away(p)), Leads(msg, b, hashOf(p, b), Files(n, b))
      PROVE  Comes(p, n, b, hashOf(p, b))'
  <2>1. b = at /\ hashOf(p, b) \subseteq Files(n, b) \cup bunch
    BY <1>2, <1>3, <1>4, <1>9 DEF Leads
  <2>2. handler'[n] = doing
    BY <1>6, <2>1 DEF Away
  <2>3. Receiving(n, b)' /\ handler'[n].bunch = bunch
    BY <2>1, <2>2 DEF Receiving
  <2>4. hashOf(p, b)' = hashOf(p, b) /\ Files(n, b)' = Files(n, b)
    BY <1>2 DEF hashOf, Files
  <2> QED
    BY <2>1, <2>3, <2>4 DEF Comes, Gets
<1>10. \A b, ms, held : ~Asks(msg, b, ms, held)
  BY <1>2 DEF Asks
<1>11. << >> \in Seq(Message) /\ (missed => missed')
  BY <1>2
<1>12. UNCHANGED <<fSecMsgEnabled, smsgStore, old, scanned>>
  BY <1>2
<1> QED
  BY <1>1, <1>2, <1>7, <1>8, <1>9, <1>10, <1>11, <1>12, ReplyStep

LEMMA PursuedInit == SmsgInit => AllPursued
<1> SUFFICES ASSUME SmsgInit, NEW n \in Nodes, NEW p \in Peers(n), NEW b \in Buckets
             PROVE  ~ToldOf(n, p, b)
  BY DEF AllPursued, Pursued
<1> QED
  BY DEF SmsgInit, ToldOf, NewPeer, Idle

LEMMA PursuedReceive ==
    ASSUME SmsgInv, SmsgInv', AllPursued, NEW n \in Nodes, NEW p \in Peers(n), Receive(n, p)
    PROVE  AllPursued'
BY PursuedDiscard, PursuedSimple, PursuedInv, PursuedShow, PursuedReceiveHave, PursuedWant,
   PursuedMsg DEF Receive

LEMMA PursuedNext ==
    SmsgInv /\ SmsgInv' /\ TokensBelong /\ AllPursued /\ [SmsgNext]_smsgVars => AllPursued'
<1> SUFFICES ASSUME SmsgInv, SmsgInv', TokensBelong, AllPursued, [SmsgNext]_smsgVars
             PROVE  AllPursued'
  OBVIOUS
<1>1. ASSUME NEW n \in Nodes, Handler(n)
      PROVE  AllPursued'
  <2>1. ASSUME NEW p \in Peers(n), Receive(n, p) \/ SendPing(n, p) \/ BeginSend(n, p)
        PROVE  AllPursued'
    BY <2>1, PursuedReceive, PursuedSendPing, PursuedBeginSend
  <2>2. CASE SendInv(n) \/ EndSend(n) \/ StoreMsg(n) \/ EndReceive(n)
    BY <2>2, PursuedSendInv, PursuedEndSend, PursuedStoreMsg, PursuedEndReceive
  <2>3. CASE SiftHave(n) \/ LockBucket(n)
    BY <2>3, PursuedSiftHave, PursuedLockBucket
  <2> QED
    BY <1>1, <2>1, <2>2, <2>3 DEF Handler
<1>2. ASSUME NEW n \in Nodes, ThreadSecureMsg(n)
      PROVE  AllPursued'
  BY <1>2, PursuedQuietly, PursuedTick, PursuedReport DEF ThreadSecureMsg
<1>3. ASSUME NEW n \in Nodes, ThreadSecureMsgPow(n)
      PROVE  AllPursued'
  BY <1>3, PursuedQuietly, PursuedStoreQueued DEF ThreadSecureMsgPow
<1>4. ASSUME NEW n \in Nodes, Clock(n)
      PROVE  AllPursued'
  BY <1>4, PursuedIgnoreEnds DEF Clock
<1>5. ASSUME NEW n \in Nodes,
             \/ SecureMsgScanBuckets(n) \/ BeginDisable(n) \/ EndDisable(n) \/ SecureMsgEnable(n)
             \/ \E b \in Buckets : Age(n, b)
      PROVE  AllPursued'
  BY <1>5, PursuedScan, PursuedBeginDisable, PursuedEndDisable, PursuedEnable, PursuedAge
<1>6. ASSUME NEW n \in Nodes, (\E p \in Peers(n) : Reconnect(n, p)) \/ Restart(n)
      PROVE  AllPursued'
  BY <1>6, PursuedReconnect, PursuedRestart
<1>7. ASSUME NEW m \in Msgs, SecureMsgSend(m)
      PROVE  AllPursued'
  BY <1>7, PursuedQuietly
<1>8. CASE UNCHANGED smsgVars
  BY <1>8, PursuedQuietly
<1> QED
  BY <1>1, <1>2, <1>3, <1>4, <1>5, <1>6, <1>7, <1>8 DEF SmsgNext

(* With nothing on the wire, what n would not announce p has.              *)
LEMMA QuietHas ==
    ASSUME SmsgInv, AllPursued, ~missed, NEW n \in Nodes, NEW p \in Peers(n), Quiet(n, p),
           NEW b \in Buckets \ (Away(n) \cup Away(p))
    PROVE  Has(Tokens(p, b), Tokens(n, b))
<1>1. p \in Nodes
  BY DEF Peers
<1>2. /\ fSecMsgEnabled[n] /\ fSecMsgEnabled[p] /\ handler[n] = Idle /\ handler[p] = Idle
      /\ net[n][p] = << >> /\ net[p][n] = << >>
  BY <1>1 DEF Quiet
<1>3. /\ Tokens(n, b) = Files(n, b) /\ hashOf(n, b) = Tokens(n, b)
      /\ Tokens(p, b) = Files(p, b)
  BY <1>1, <1>2, IdleFiles
<1>4. CASE b \in smsgData[n][p].due
  BY <1>4 DEF Quiet, Has
<1>5. CASE b \notin smsgData[n][p].due
  <2>1. Comes(n, p, b, hashOf(n, b))
    BY <1>2, <1>5 DEF AllPursued, Pursued, ToldOf
  <2>2. OnWire(n, p) = {} /\ OnWire(p, n) = {}
    BY <1>2 DEF OnWire, Range
  <2>3. ~Gets(n, p, b, hashOf(n, b))
    BY <1>2 DEF Gets, Receiving, Idle
  <2> QED
    BY <1>3, <2>1, <2>2, <2>3 DEF Comes
<1> QED
  BY <1>4, <1>5

(* Two peers between which nothing is left to do, neither of which passed  *)
(* over an announcement or a part of an answer, have the same messages in  *)
(* every bucket: whatever was stopped, lost or begun again, lastMatched    *)
(* (SecureMsgSendData) moved past a change of a bucket only after the peer *)
(* was told of it, and each handler of SecureMsgReceiveData asks for or    *)
(* sends what the one before it left lacking.                              *)
THEOREM QuietPeersAgree == SmsgSpec => []QuietMeansEqual
<1>1. SmsgInv /\ AllPursued => QuietMeansEqual
  <2> SUFFICES ASSUME SmsgInv, AllPursued, ~missed, NEW n \in Nodes, NEW p \in Peers(n), Quiet(n, p),
                      NEW b \in Buckets \ (old[n] \cup old[p] \cup scanned[n] \cup scanned[p])
               PROVE  Tokens(n, b) = Tokens(p, b)
    BY DEF QuietMeansEqual
  <2>1. p \in Nodes /\ n \in Peers(p) /\ Quiet(p, n) /\ b \notin Away(n) \cup Away(p)
    BY DEF Peers, Quiet, Away
  <2>2. Has(Tokens(p, b), Tokens(n, b)) /\ Has(Tokens(n, b), Tokens(p, b))
    BY <2>1, QuietHas
  <2> DEFINE ms == Tokens(n, b)
             ns == Tokens(p, b)
  <2>3. /\ IsFiniteSet(ms) /\ Cardinality(ms) \in Nat
        /\ IsFiniteSet(ns) /\ Cardinality(ns) \in Nat
    BY <2>1, FilesFinite DEF SmsgInv
  <2> HIDE DEF ms, ns
  <2>4. ms \subseteq ns => Cardinality(ms) <= Cardinality(ns) /\ (Cardinality(ms) = Cardinality(ns) => ms = ns)
    BY <2>3, FS_Subset
  <2>5. ns \subseteq ms => Cardinality(ns) <= Cardinality(ms) /\ (Cardinality(ns) = Cardinality(ms) => ns = ms)
    BY <2>3, FS_Subset
  <2>6. Has(ns, ms) /\ Has(ms, ns)
    BY <2>2 DEF ms, ns
  <2>7. ms = ns
    BY <2>3, <2>4, <2>5, <2>6 DEF Has
  <2> QED
    BY <2>7 DEF ms, ns
<1> QED
  BY <1>1, InitHolds, PursuedInit, BelongInit, NextKeeps, PursuedNext, BelongNext, PTL DEF SmsgSpec
=============================================================================
