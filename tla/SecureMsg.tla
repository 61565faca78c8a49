----------------------------- MODULE SecureMsg ------------------------------
(***************************************************************************)
(* How nodes replicate encrypted messages (smessage.cpp).  Messages lie in *)
(* buckets by time; a node announces the size and hash of the buckets that *)
(* have changed, and a peer that finds it lacks something asks to see      *)
(* (smsgShow), is told what there is (smsgHave), locks its bucket and asks *)
(* for what it lacks (smsgWant), and is sent it (smsgMsg).                 *)
(*                                                                         *)
(* Each node runs a thread for messages, one that drops old buckets and    *)
(* lets locks run out (ThreadSecureMsg), one for proof of work             *)
(* (ThreadSecureMsgPow), and its user's commands.  A step is what a thread *)
(* does in one go under cs_smsg, or between two uses of it.                *)
(*                                                                         *)
(* Times are not modelled but for how they compare: with the current       *)
(* second, with the end of a delay, with the age of a bucket.  All nodes   *)
(* are peers of each other, and follow the protocol.  smsgMatch, which     *)
(* changes nothing where it arrives, and what is done with a message for   *)
(* the node itself are left out.                                           *)
(***************************************************************************)
EXTENDS Integers, Sequences, FiniteSets, SequencesExt

CONSTANTS
    Nodes,
    Msgs,        \* every message
    Author,      \* Author[m]: the node whose user sends m
    Key,         \* Key[m]: the key of m in the send queue
    Buckets,     \* the times of the buckets
    BucketOf,    \* BucketOf[m]: m's timestamp, rounded down
    LockTicks,   \* the turns of ThreadSecureMsg a lock lasts: 3
    BunchMax,    \* the messages one smsgMsg may hold: 500
    Restless,    \* the nodes whose user turns messaging off and on
    Scanners,    \* the nodes whose user calls smsgscanbuckets
    Ageing,      \* the buckets that get too old
    MaxEvents,   \* bound: how often all told a user turns messaging off or scans, a bucket gets
                 \* too old, a connection or a process ends or an answer is late
    MaxInFlight, \* bound: a node waits with an smsgInv while so much is under way
    None

ASSUME SmsgAssumption ==
    /\ Author \in [Msgs -> Nodes]
    /\ BucketOf \in [Msgs -> Buckets]
    /\ IsFiniteSet(Buckets) /\ IsFiniteSet(Msgs)
    /\ LockTicks \in Nat \ {0} /\ BunchMax \in Nat \ {0}
    /\ MaxEvents \in Nat /\ MaxInFlight \in Nat
    /\ None \notin Nodes \cup Msgs

In(b) == {m \in Msgs : BucketOf[m] = b}
Peers(n) == Nodes \ {n}

VARIABLES
    fSecMsgEnabled,  \* whether messaging is on
    disabling,       \* whether SecureMsgDisable holds cs_smsg and joins the threads
    smsgBuckets,     \* the SecMsgBucket of each bucket, an empty one if there is none
    smsgStore,       \* the messages in the bucket files
    sendQueue,       \* the messages in the send queue, on disk
    pow,             \* ThreadSecureMsgPow: the message between the queue and the store
    ticker,          \* ThreadSecureMsg: where it is, and the holders of the locks that ran out
    handler,         \* the message handler: what it is in the middle of
    smsgData,        \* the SecMsgNode a node keeps of each peer
    net,             \* net[n][p]: what n has sent to p and p has not handled
    old,             \* the buckets that are too old by the node's clock
    unsent,          \* the messages that users have not sent yet
    events,          \* how many of the events that MaxEvents bounds there have been
    overdue,         \* history: buckets with a request that its lock did not outlast
    scanned,         \* history: buckets whose file smsgscanbuckets has removed
    missed           \* history: an announcement or a part of an answer was passed over

store == <<smsgBuckets, smsgStore>>
threads == <<sendQueue, pow, ticker, handler>>
peers == <<smsgData, net>>
history == <<overdue, scanned, missed>>
smsgVars == <<fSecMsgEnabled, disabling, store, threads, peers, old, unsent, events, history>>

NoBucket == [setTokens |-> {}, hash |-> {}, nLockCount |-> 0, nLockPeerId |-> None]

(* SecMsgNode: due are the buckets with timeChanged >= lastMatched, and     *)
(* again those of them that are so because they changed in the very second *)
(* of lastMatched; told is what the peer was last told of each bucket.     *)
NewPeer == [pinged |-> FALSE, fEnabled |-> FALSE, ignoring |-> FALSE,
            due |-> Buckets, again |-> {}, told |-> [b \in Buckets |-> {}]]

Idle == [op |-> "idle"]
Asleep == [at |-> "asleep", timedOut |-> {}]

SmsgInit ==
    /\ fSecMsgEnabled = [n \in Nodes |-> TRUE]
    /\ disabling = [n \in Nodes |-> FALSE]
    /\ smsgBuckets = [n \in Nodes |-> [b \in Buckets |-> NoBucket]]
    /\ smsgStore = [n \in Nodes |-> {}]
    /\ sendQueue = [n \in Nodes |-> {}]
    /\ pow = [n \in Nodes |-> None]
    /\ ticker = [n \in Nodes |-> Asleep]
    /\ handler = [n \in Nodes |-> Idle]
    /\ smsgData = [n \in Nodes |-> [p \in Peers(n) |-> NewPeer]]
    /\ net = [n \in Nodes |-> [p \in Peers(n) |-> << >>]]
    /\ old = [n \in Nodes |-> {}]
    /\ unsent = Msgs
    /\ events = 0
    /\ overdue = [n \in Nodes |-> {}]
    /\ scanned = [n \in Nodes |-> {}]
    /\ missed = FALSE

-----------------------------------------------------------------------------
(* The shared helpers.                                                     *)

Tokens(n, b) == smsgBuckets[n][b].setTokens
IsLocked(n, b) == smsgBuckets[n][b].nLockCount > 0

(* What r, which is kept of a peer, becomes when the buckets bs change     *)
(* their hash.                                                             *)
Due(r, bs) == [r EXCEPT !.due = @ \cup bs, !.again = @ \ bs]

(* The buckets bs of n change their hash, now.                             *)
Changed(n, bs) ==
    smsgData' = [smsgData EXCEPT ![n] = [p \in Peers(n) |-> Due(smsgData[n][p], bs)]]

(* hashBucket, for a bucket that now holds tokens.                         *)
hashBucket(n, b, tokens) == Changed(n, IF tokens = smsgBuckets[n][b].hash THEN {} ELSE {b})

(* They change while the handler may be inside SecureMsgSendData.          *)
KeepSince(n, bs) ==
    handler' = IF handler[n].op \in {"begin", "end"}
               THEN [handler EXCEPT ![n].since = @ \cup bs, ![n].again = @ \ bs]
               ELSE handler

Push(n, p, msgs) == net' = [net EXCEPT ![n][p] = @ \o msgs]

(* n has handled the first message from p and sends p msgs.                *)
Reply(n, p, msgs) == net' = [net EXCEPT ![p][n] = Tail(@), ![n][p] = @ \o msgs]

(* The message handler of n finds a message of the given type from p.      *)
Arrives(n, p, type) ==
    /\ handler[n] = Idle
    /\ net[p][n] # << >> /\ Head(net[p][n]).type = type
    /\ fSecMsgEnabled[n]

(* The requests of n for messages of b, and the answers to them, that are  *)
(* under way.                                                              *)
Requests(n, b) ==
    UNION {{<<p, "want", i>> : i \in {i \in DOMAIN net[n][p] :
                 net[n][p][i].type = "smsgWant" /\ net[n][p][i].bucket = b}}
           \cup {<<p, "msg", i>> : i \in {i \in DOMAIN net[p][n] :
                 net[p][n][i].type = "smsgMsg" /\ net[p][n][i].bucket = b}} : p \in Peers(n)}

Receiving(n, b) == handler[n].op = "receive" /\ handler[n].bucket = b
UnderWay(n, b) == Requests(n, b) # {} \/ Receiving(n, b)

(* One of the events that MaxEvents bounds.                                *)
Event == events < MaxEvents /\ events' = events + 1

-----------------------------------------------------------------------------
(* SecureMsgSendData.                                                      *)

(* First contact.                                                          *)
SendPing(n, p) ==
    /\ handler[n] = Idle /\ fSecMsgEnabled[n]
    /\ ~smsgData[n][p].pinged
    /\ smsgData' = [smsgData EXCEPT ![n][p].pinged = TRUE]
    /\ Push(n, p, <<[type |-> "smsgPing"]>>)
    /\ UNCHANGED <<fSecMsgEnabled, disabling, store, threads, old, unsent, events, history>>

(* It reads the time: since is what changes from that second on.  Two      *)
(* seconds at least are between two calls, so what has changed in the      *)
(* second of the one before has not changed in this.                       *)
BeginSend(n, p) ==
    /\ handler[n] = Idle /\ fSecMsgEnabled[n]
    /\ smsgData[n][p].pinged /\ smsgData[n][p].fEnabled /\ ~smsgData[n][p].ignoring
    /\ \E b \in smsgData[n][p].due : Tokens(n, b) # {}
    /\ Len(net[n][p]) < MaxInFlight
    /\ \E again \in SUBSET (smsgData[n][p].due \ smsgData[n][p].again) :
          handler' = [handler EXCEPT ![n] =
                        [op |-> "begin", peer |-> p, since |-> again, again |-> again]]
    /\ UNCHANGED <<fSecMsgEnabled, disabling, store, sendQueue, pow, ticker, peers, old,
                   unsent, events, history>>

(* The loop over the buckets, under cs_smsg.                               *)
SendInv(n) ==
    /\ handler[n].op = "begin" /\ ~disabling[n]
    /\ LET p == handler[n].peer
           shown == {b \in smsgData[n][p].due : Tokens(n, b) # {}}
           inv == [b \in shown |-> [nMessages |-> Cardinality(Tokens(n, b)),
                                    hash |-> smsgBuckets[n][b].hash]]
       IN /\ Push(n, p, IF shown = {} THEN << >> ELSE <<[type |-> "smsgInv", inv |-> inv]>>)
          /\ smsgData' = [smsgData EXCEPT ![n][p].told =
                [b \in Buckets |-> IF b \in shown THEN inv[b].hash ELSE @[b]]]
    /\ handler' = [handler EXCEPT ![n].op = "end"]
    /\ UNCHANGED <<fSecMsgEnabled, disabling, store, sendQueue, pow, ticker, old,
                   unsent, events, history>>

(* Mutated: the time is read after the loop.                               *)
EndSendLate(n) ==
    /\ handler[n].op = "end"
    /\ smsgData' = [smsgData EXCEPT ![n][handler[n].peer].due = {},
                                 ![n][handler[n].peer].again = {}]
    /\ handler' = [handler EXCEPT ![n] = Idle]
    /\ UNCHANGED <<fSecMsgEnabled, disabling, store, sendQueue, pow, ticker, net, old,
                   unsent, events, history>>

(* lastMatched becomes the time it has read.                               *)
EndSend(n) ==
    /\ handler[n].op = "end"
    /\ smsgData' = [smsgData EXCEPT ![n][handler[n].peer].due = handler[n].since,
                                 ![n][handler[n].peer].again = handler[n].again]
    /\ handler' = [handler EXCEPT ![n] = Idle]
    /\ UNCHANGED <<fSecMsgEnabled, disabling, store, sendQueue, pow, ticker, net, old,
                   unsent, events, history>>

-----------------------------------------------------------------------------
(* SecureMsgReceiveData.                                                   *)

Rest == <<fSecMsgEnabled, disabling, threads, old, unsent, events, overdue, scanned>>

(* Messaging is off: whatever comes is passed over.                        *)
Discard(n, p) ==
    /\ handler[n] = Idle /\ ~fSecMsgEnabled[n]
    /\ net[p][n] # << >>
    /\ Reply(n, p, << >>)
    /\ missed' = (missed \/ Head(net[p][n]).type \in {"smsgInv", "smsgHave", "smsgMsg"})
    /\ UNCHANGED <<Rest, store, smsgData>>

ReceivePing(n, p) ==
    /\ Arrives(n, p, "smsgPing")
    /\ Reply(n, p, <<[type |-> "smsgPong"]>>)
    /\ UNCHANGED <<Rest, store, smsgData, missed>>

ReceivePong(n, p) ==
    /\ Arrives(n, p, "smsgPong")
    /\ Reply(n, p, << >>)
    /\ smsgData' = [smsgData EXCEPT ![n][p].fEnabled = TRUE]
    /\ UNCHANGED <<Rest, store, missed>>

ReceiveDisabled(n, p) ==
    /\ Arrives(n, p, "smsgDisabled")
    /\ Reply(n, p, << >>)
    /\ smsgData' = [smsgData EXCEPT ![n][p].fEnabled = FALSE]
    /\ UNCHANGED <<Rest, store, missed>>

ReceiveIgnore(n, p) ==
    /\ Arrives(n, p, "smsgIgnore")
    /\ Reply(n, p, << >>)
    /\ smsgData' = [smsgData EXCEPT ![n][p].ignoring = TRUE]
    /\ UNCHANGED <<Rest, store, missed>>

(* Mutated: messages in equal number are taken to be the same.             *)
LacksFewer(n, b, said) == Cardinality(Tokens(n, b)) < said.nMessages

(* What p says of b is more than n has, or as much but not the same.       *)
Lacks(n, b, said) ==
    LET size == Cardinality(Tokens(n, b)) IN
    \/ size < said.nMessages
    \/ size = said.nMessages /\ smsgBuckets[n][b].hash # said.hash

(* It asks for what it lacks and has not locked.                           *)
ReceiveInv(n, p) ==
    /\ Arrives(n, p, "smsgInv")
    /\ LET inv == Head(net[p][n]).inv
           open == {b \in DOMAIN inv \ old[n] : ~IsLocked(n, b)}
           show == {b \in open : Lacks(n, b, inv[b])}
       IN \/ /\ ~smsgData[n][p].ignoring
             /\ Reply(n, p, IF show = {} THEN << >> ELSE <<[type |-> "smsgShow", show |-> show]>>)
             /\ missed' = (missed \/ \E b \in DOMAIN inv \ old[n] : IsLocked(n, b))
          \/ /\ smsgData[n][p].ignoring
             /\ Reply(n, p, << >>)
             /\ missed' = TRUE
    /\ UNCHANGED <<Rest, store, smsgData>>

(* One smsgHave for each bucket that n has.                                *)
ReceiveShow(n, p) ==
    /\ Arrives(n, p, "smsgShow")
    /\ LET has == {b \in Head(net[p][n]).show : Tokens(n, b) # {}}
           have == SetToSeq({[type |-> "smsgHave", bucket |-> b, have |-> Tokens(n, b)] : b \in has})
       IN Reply(n, p, have)
    /\ UNCHANGED <<Rest, store, smsgData, missed>>

(* Messaging is on, and the bucket is not too old.                         *)
ReceiveHave(n, p) ==
    /\ Arrives(n, p, "smsgHave")
    /\ LET said == Head(net[p][n]) IN
         handler' = IF said.bucket \in old[n] THEN handler
                    ELSE [handler EXCEPT ![n] = [op |-> "have", peer |-> p,
                            bucket |-> said.bucket, have |-> said.have]]
    /\ Reply(n, p, << >>)
    /\ UNCHANGED <<fSecMsgEnabled, disabling, store, sendQueue, pow, ticker, smsgData, old,
                   unsent, events, history>>

(* What of the messages that the peer has the node lacks.                  *)
Missing(n) == handler[n].have \ Tokens(n, handler[n].bucket)

(* Mutated: the lock of the bucket is not looked at.                       *)
SiftHaveUnlocked(n) ==
    /\ handler[n].op = "have" /\ ~disabling[n]
    /\ handler' = [handler EXCEPT ![n] =
          IF Missing(n) = {} THEN Idle
          ELSE [op |-> "want", peer |-> handler[n].peer, bucket |-> handler[n].bucket,
                want |-> Missing(n)]]
    /\ UNCHANGED <<fSecMsgEnabled, disabling, store, sendQueue, pow, ticker, peers, old,
                   unsent, events, history>>

(* "Sifting through bucket", under cs_smsg, unless that is locked.         *)
SiftHave(n) ==
    /\ handler[n].op = "have" /\ ~disabling[n]
    /\ LET b == handler[n].bucket IN
        /\ handler' = [handler EXCEPT ![n] =
              IF IsLocked(n, b) \/ Missing(n) = {} THEN Idle
              ELSE [op |-> "want", peer |-> @.peer, bucket |-> b, want |-> Missing(n)]]
        /\ missed' = (missed \/ IsLocked(n, b))
    /\ UNCHANGED <<fSecMsgEnabled, disabling, store, sendQueue, pow, ticker, peers, old,
                   unsent, events, overdue, scanned>>

(* "Locking bucket", under cs_smsg again; then it asks for the messages,   *)
(* of a peer that may be gone by now.                                      *)
LockBucket(n) ==
    /\ handler[n].op = "want" /\ ~disabling[n]
    /\ LET p == handler[n].peer
           b == handler[n].bucket
           ask == [type |-> "smsgWant", bucket |-> b, want |-> handler[n].want]
       IN /\ smsgBuckets' = [smsgBuckets EXCEPT
                ![n][b].nLockCount = LockTicks, ![n][b].nLockPeerId = p]
          /\ net' = IF p = None THEN net ELSE [net EXCEPT ![n][p] = Append(@, ask)]
    /\ handler' = [handler EXCEPT ![n] = Idle]
    /\ UNCHANGED <<fSecMsgEnabled, disabling, smsgStore, smsgData, sendQueue, pow, ticker, old,
                   unsent, events, history>>

(* What SecureMsgRetrieve can find for the wanted messages: the messages   *)
(* themselves or, where the file has been removed and begun again since,   *)
(* nothing or another message of the file; not more than fit.              *)
Bunches(n, b, want) ==
    {bunch \in SUBSET (smsgStore[n] \cap In(b)) :
        /\ Cardinality(bunch) <= BunchMax
        /\ Cardinality(bunch) < BunchMax => want \cap smsgStore[n] \subseteq bunch
        /\ Cardinality(bunch \ want) <= Cardinality(want \ smsgStore[n])}

ReceiveWant(n, p) ==
    /\ Arrives(n, p, "smsgWant")
    /\ LET b == Head(net[p][n]).bucket
           want == Head(net[p][n]).want \cap Tokens(n, b)
       IN \E bunch \in Bunches(n, b, want) :
            /\ Reply(n, p, IF bunch = {} THEN << >>
                           ELSE <<[type |-> "smsgMsg", bucket |-> b, bunch |-> bunch]>>)
            /\ missed' = (missed \/ bunch # want)
    /\ UNCHANGED <<Rest, store, smsgData>>

(* SecureMsgReceive, up to its loop.                                       *)
ReceiveMsg(n, p) ==
    /\ Arrives(n, p, "smsgMsg")
    /\ LET b == Head(net[p][n]).bucket IN
         handler' = IF b \in old[n] THEN handler
                    ELSE [handler EXCEPT ![n] =
                            [op |-> "receive", bucket |-> b, bunch |-> Head(net[p][n]).bunch]]
    /\ Reply(n, p, << >>)
    /\ UNCHANGED <<fSecMsgEnabled, disabling, store, sendQueue, pow, ticker, smsgData, old,
                   unsent, events, history>>

(* Mutated: the message is not written.                                    *)
PutUnwritten(n, m) ==
    /\ smsgBuckets' = [smsgBuckets EXCEPT ![n][BucketOf[m]].setTokens = @ \cup {m}]
    /\ UNCHANGED smsgStore

(* SecureMsgStore of m, without hashBucket.                                *)
Put(n, m) ==
    /\ smsgBuckets' = [smsgBuckets EXCEPT ![n][BucketOf[m]].setTokens = @ \cup {m}]
    /\ smsgStore' = [smsgStore EXCEPT ![n] = @ \cup {m}]

(* A turn of the loop, under cs_smsg: the message is stored or, if it is   *)
(* there or too old, the rest of the bunch is dropped.                     *)
StoreMsg(n) ==
    /\ handler[n].op = "receive" /\ ~disabling[n]
    /\ \E m \in handler[n].bunch :
        \/ /\ m \notin Tokens(n, BucketOf[m]) /\ BucketOf[m] \notin old[n]
           /\ Put(n, m)
           /\ handler' = [handler EXCEPT ![n].bunch = @ \ {m}]
           /\ UNCHANGED missed
        \/ /\ m \in Tokens(n, BucketOf[m]) \/ BucketOf[m] \in old[n]
           /\ handler' = [handler EXCEPT ![n].bunch = {}]
           /\ missed' = TRUE
           /\ UNCHANGED store
    /\ UNCHANGED <<fSecMsgEnabled, disabling, sendQueue, pow, ticker, peers, old, unsent, events,
                   overdue, scanned>>

(* Mutated: the bucket is not hashed again.                                *)
EndReceiveUnhashed(n) ==
    /\ handler[n].op = "receive" /\ handler[n].bunch = {} /\ ~disabling[n]
    /\ LET b == handler[n].bucket IN
         smsgBuckets' = [smsgBuckets EXCEPT ![n][b].nLockCount = 0, ![n][b].nLockPeerId = None]
    /\ handler' = [handler EXCEPT ![n] = Idle]
    /\ UNCHANGED <<fSecMsgEnabled, disabling, smsgStore, sendQueue, pow, ticker, peers, old,
                   unsent, events, history>>

(* The end of SecureMsgReceive: the lock is released, whoever it is for.   *)
EndReceive(n) ==
    /\ handler[n].op = "receive" /\ handler[n].bunch = {} /\ ~disabling[n]
    /\ LET b == handler[n].bucket IN
         /\ smsgBuckets' = [smsgBuckets EXCEPT
               ![n][b] = [NoBucket EXCEPT !.setTokens = Tokens(n, b), !.hash = Tokens(n, b)]]
         /\ hashBucket(n, b, Tokens(n, b))
    /\ handler' = [handler EXCEPT ![n] = Idle]
    /\ UNCHANGED <<fSecMsgEnabled, disabling, smsgStore, sendQueue, pow, ticker, net, old,
                   unsent, events, history>>

-----------------------------------------------------------------------------
(* ThreadSecureMsg.                                                        *)

(* It wakes up and finds messaging on.                                     *)
Wake(n) ==
    /\ ticker[n] = Asleep /\ fSecMsgEnabled[n]
    /\ \E b \in Buckets : IsLocked(n, b) \/ (b \in old[n] /\ Tokens(n, b) # {})
    /\ ticker' = [ticker EXCEPT ![n].at = "awake"]
    /\ UNCHANGED <<fSecMsgEnabled, disabling, store, sendQueue, pow, handler, peers, old,
                   unsent, events, history>>

(* Mutated: below zero.                                                    *)
TurnsLeftOfAll(n, b) == smsgBuckets[n][b].nLockCount - 1

(* Mutated: only the locks of peers that are there come to an end.         *)
TurnsLeftOfPeers(n, b) ==
    LET bucket == smsgBuckets[n][b] IN
    IF IsLocked(n, b) /\ bucket.nLockPeerId # None THEN bucket.nLockCount - 1 ELSE bucket.nLockCount

(* The turns a lock lasts after this one.                                  *)
TurnsLeft(n, b) == IF IsLocked(n, b) THEN smsgBuckets[n][b].nLockCount - 1 ELSE 0

(* Where the lock of a bucket runs out now.                                *)
Ending(n) == {b \in Buckets \ old[n] : smsgBuckets[n][b].nLockCount = 1}

(* An old bucket goes, the lock of another comes a turn closer to its end. *)
AfterTurn(n, b) ==
    IF b \in old[n] THEN NoBucket
    ELSE [smsgBuckets[n][b] EXCEPT !.nLockCount = TurnsLeft(n, b),
                                   !.nLockPeerId = IF b \in Ending(n) THEN None ELSE @]

(* Under cs_smsg, for every bucket and its file.                           *)
Tick(n) ==
    /\ ticker[n].at = "awake" /\ ~disabling[n]
    /\ LET ending == Ending(n) IN
        /\ smsgBuckets' = [smsgBuckets EXCEPT ![n] = [b \in Buckets |-> AfterTurn(n, b)]]
        /\ ticker' = [ticker EXCEPT ![n] =
              [at |-> "report", timedOut |-> {smsgBuckets[n][b].nLockPeerId : b \in ending} \ {None}]]
        /\ overdue' = [overdue EXCEPT ![n] = @ \cup ending]
        /\ missed' = (missed \/ ending # {})
        /\ IF \E b \in ending : UnderWay(n, b) /\ \A p \in Peers(n) : ~disabling[p] THEN Event
           ELSE UNCHANGED events
    /\ smsgStore' = [smsgStore EXCEPT ![n] = {m \in @ : BucketOf[m] \notin old[n]}]
    /\ UNCHANGED <<fSecMsgEnabled, disabling, sendQueue, pow, handler, peers, old, unsent, scanned>>

(* Then, under cs_vNodes, it ignores the peers that did not answer.        *)
Report(n) ==
    /\ ticker[n].at = "report"
    /\ LET gone == ticker[n].timedOut IN
        /\ smsgData' = [smsgData EXCEPT ![n] = [p \in Peers(n) |->
              IF p \in gone THEN [@[p] EXCEPT !.ignoring = TRUE] ELSE @[p]]]
        /\ net' = [net EXCEPT ![n] = [p \in Peers(n) |->
              IF p \in gone THEN Append(@[p], [type |-> "smsgIgnore"]) ELSE @[p]]]
    /\ ticker' = [ticker EXCEPT ![n] = Asleep]
    /\ UNCHANGED <<fSecMsgEnabled, disabling, store, sendQueue, pow, handler, old, unsent, events,
                   history>>

-----------------------------------------------------------------------------
(* ThreadSecureMsgPow.                                                     *)

(* The proof of work of m is done; m leaves the queue "no matter what".    *)
EraseQueued(n, m) ==
    /\ pow[n] = None /\ fSecMsgEnabled[n]
    /\ m \in sendQueue[n]
    /\ sendQueue' = [sendQueue EXCEPT ![n] = @ \ {m}]
    /\ pow' = [pow EXCEPT ![n] = m]
    /\ UNCHANGED <<fSecMsgEnabled, disabling, store, ticker, handler, peers, old, unsent, events,
                   history>>

(* SecureMsgStore with hashBucket, unless the message is there or too old. *)
StoreQueued(n) ==
    /\ pow[n] # None /\ ~disabling[n]
    /\ pow' = [pow EXCEPT ![n] = None]
    /\ LET m == pow[n]
           b == BucketOf[m]
           tokens == Tokens(n, b) \cup {m}
       IN \/ /\ b \notin old[n] /\ m \notin Tokens(n, b)
             /\ smsgBuckets' = [smsgBuckets EXCEPT ![n][b].setTokens = tokens, ![n][b].hash = tokens]
             /\ smsgStore' = [smsgStore EXCEPT ![n] = @ \cup {m}]
             /\ hashBucket(n, b, tokens)
             /\ KeepSince(n, {b})
          \/ /\ b \in old[n] \/ m \in Tokens(n, b)
             /\ UNCHANGED <<store, smsgData, handler>>
    /\ UNCHANGED <<fSecMsgEnabled, disabling, sendQueue, ticker, net, old, unsent, events, history>>

-----------------------------------------------------------------------------
(* What users, clocks and failures do.                                     *)

(* SecureMsgSend puts m in the send queue, in the place of a message with  *)
(* the same key.                                                           *)
SecureMsgSend(m) ==
    LET n == Author[m] IN
    /\ fSecMsgEnabled[n]
    /\ m \in unsent
    /\ unsent' = unsent \ {m}
    /\ sendQueue' = [sendQueue EXCEPT ![n] = {q \in @ : Key[q] # Key[m]} \cup {m}]
    /\ UNCHANGED <<fSecMsgEnabled, disabling, store, pow, ticker, handler, peers, old, events,
                   history>>

(* SecureMsgScanBuckets removes the files it has scanned.                  *)
SecureMsgScanBuckets(n) ==
    /\ n \in Scanners /\ fSecMsgEnabled[n]
    /\ smsgStore[n] # {}
    /\ Event
    /\ smsgStore' = [smsgStore EXCEPT ![n] = {}]
    /\ scanned' = [scanned EXCEPT ![n] = @ \cup {BucketOf[m] : m \in smsgStore[n]}]
    /\ UNCHANGED <<fSecMsgEnabled, disabling, smsgBuckets, threads, peers, old, unsent,
                   overdue, missed>>

(* SecureMsgDisable takes cs_smsg and asks the threads to end.             *)
BeginDisable(n) ==
    /\ n \in Restless /\ fSecMsgEnabled[n]
    /\ Event
    /\ fSecMsgEnabled' = [fSecMsgEnabled EXCEPT ![n] = FALSE]
    /\ disabling' = [disabling EXCEPT ![n] = TRUE]
    /\ UNCHANGED <<store, threads, peers, old, unsent, history>>

(* Both have ended: the buckets are cleared and the peers told.            *)
EndDisable(n) ==
    /\ disabling[n]
    /\ ticker[n] = Asleep /\ pow[n] = None
    /\ disabling' = [disabling EXCEPT ![n] = FALSE]
    /\ overdue' = [overdue EXCEPT ![n] = @ \cup {b \in Buckets : IsLocked(n, b)}]
    /\ smsgBuckets' = [smsgBuckets EXCEPT ![n] = [b \in Buckets |-> NoBucket]]
    /\ smsgData' = [smsgData EXCEPT ![n] =
          [p \in Peers(n) |-> [@[p] EXCEPT !.fEnabled = FALSE]]]
    /\ net' = [net EXCEPT ![n] = [p \in Peers(n) |->
          IF smsgData[n][p].fEnabled THEN Append(@[p], [type |-> "smsgDisabled"]) ELSE @[p]]]
    /\ UNCHANGED <<fSecMsgEnabled, smsgStore, threads, old, unsent, events, scanned, missed>>

(* SecureMsgBuildBucketSet reads the files, but for those too old, which   *)
(* it removes.                                                             *)
SecureMsgBuildBucketSet(n) ==
    LET files == {m \in smsgStore[n] : BucketOf[m] \notin old[n]} IN
    /\ smsgStore' = [smsgStore EXCEPT ![n] = files]
    /\ smsgBuckets' = [smsgBuckets EXCEPT ![n] = [b \in Buckets |->
          [NoBucket EXCEPT !.setTokens = files \cap In(b), !.hash = files \cap In(b)]]]

(* SecureMsgEnable.                                                        *)
SecureMsgEnable(n) ==
    /\ ~fSecMsgEnabled[n] /\ ~disabling[n]
    /\ fSecMsgEnabled' = [fSecMsgEnabled EXCEPT ![n] = TRUE]
    /\ SecureMsgBuildBucketSet(n)
    /\ Changed(n, Buckets)
    /\ KeepSince(n, Buckets)
    /\ net' = [net EXCEPT ![n] = [p \in Peers(n) |->
          @[p] \o <<[type |-> "smsgPing"], [type |-> "smsgPong"]>>]]
    /\ overdue' = [overdue EXCEPT ![n] = @ \cup {b \in Buckets : IsLocked(n, b)}]
    /\ UNCHANGED <<disabling, sendQueue, pow, ticker, old, unsent, events, scanned, missed>>

(* n's clock passes the end of the time for which n ignores p.             *)
IgnoreEnds(n, p) ==
    /\ smsgData[n][p].ignoring
    /\ smsgData' = [smsgData EXCEPT ![n][p].ignoring = FALSE]
    /\ UNCHANGED <<fSecMsgEnabled, disabling, store, threads, net, old, unsent, events, history>>

(* n's clock passes the retention of bucket b.                             *)
Age(n, b) ==
    /\ b \in Ageing \ old[n]
    /\ Event
    /\ old' = [old EXCEPT ![n] = @ \cup {b}]
    /\ UNCHANGED <<fSecMsgEnabled, disabling, store, threads, peers, unsent, history>>

(* The connections between n and the peers ps end and new ones begin: what *)
(* was under way is lost, and a lock is for a peer that is no longer there. *)
Connect(n, ps) ==
    /\ Event
    /\ net' = [x \in Nodes |-> [y \in Peers(x) |->
          IF (x = n /\ y \in ps) \/ (y = n /\ x \in ps) THEN << >> ELSE net[x][y]]]
    /\ smsgData' = [x \in Nodes |-> [y \in Peers(x) |->
          IF (x = n /\ y \in ps) \/ (y = n /\ x \in ps) THEN NewPeer ELSE smsgData[x][y]]]

(* The locks that x holds for y lose their holder.                         *)
Orphaned(x, y) == [b \in Buckets |->
    IF smsgBuckets[x][b].nLockPeerId = y THEN [smsgBuckets[x][b] EXCEPT !.nLockPeerId = None]
    ELSE smsgBuckets[x][b]]

(* What a thread is about to do to y does nothing to a peer any more.      *)
HandlerWithout(x, y) ==
    IF handler[x].op \in {"begin", "end"} /\ handler[x].peer = y THEN Idle
    ELSE IF handler[x].op \in {"have", "want"} /\ handler[x].peer = y
         THEN [handler[x] EXCEPT !.peer = None]
    ELSE handler[x]

Reconnect(n, p) ==
    /\ Connect(n, {p})
    /\ smsgBuckets' = [smsgBuckets EXCEPT ![n] = Orphaned(n, p), ![p] = Orphaned(p, n)]
    /\ handler' = [handler EXCEPT ![n] = HandlerWithout(n, p), ![p] = HandlerWithout(p, n)]
    /\ ticker' = [ticker EXCEPT ![n].timedOut = @ \ {p}, ![p].timedOut = @ \ {n}]
    /\ UNCHANGED <<fSecMsgEnabled, disabling, smsgStore, sendQueue, pow, old, unsent, history>>

(* The process of n ends, and SecureMsgStart starts messaging again.       *)
Restart(n) ==
    /\ Connect(n, Peers(n))
    /\ fSecMsgEnabled' = [fSecMsgEnabled EXCEPT ![n] = TRUE]
    /\ disabling' = [disabling EXCEPT ![n] = FALSE]
    /\ LET files == {m \in smsgStore[n] : BucketOf[m] \notin old[n]} IN
        /\ smsgStore' = [smsgStore EXCEPT ![n] = files]
        /\ smsgBuckets' = [x \in Nodes |->
              IF x # n THEN Orphaned(x, n) ELSE [b \in Buckets |->
                [NoBucket EXCEPT !.setTokens = files \cap In(b), !.hash = files \cap In(b)]]]
    /\ pow' = [pow EXCEPT ![n] = None]
    /\ handler' = [x \in Nodes |-> IF x = n THEN Idle ELSE HandlerWithout(x, n)]
    /\ ticker' = [x \in Nodes |-> IF x = n THEN Asleep ELSE [ticker[x] EXCEPT !.timedOut = @ \ {n}]]
    /\ UNCHANGED <<sendQueue, old, unsent, history>>

-----------------------------------------------------------------------------
(* ThreadMessageHandler takes the peers in turn: first what has come from  *)
(* the peer, then SecureMsgSendData.                                       *)
Receive(n, p) ==
    \/ Discard(n, p) \/ ReceivePing(n, p) \/ ReceivePong(n, p) \/ ReceiveDisabled(n, p)
    \/ ReceiveIgnore(n, p) \/ ReceiveInv(n, p) \/ ReceiveShow(n, p) \/ ReceiveHave(n, p)
    \/ ReceiveWant(n, p) \/ ReceiveMsg(n, p)

Handler(n) ==
    \/ \E p \in Peers(n) : Receive(n, p) \/ SendPing(n, p) \/ BeginSend(n, p)
    \/ SendInv(n) \/ EndSend(n) \/ SiftHave(n) \/ LockBucket(n) \/ StoreMsg(n) \/ EndReceive(n)

ThreadSecureMsg(n) == Wake(n) \/ Tick(n) \/ Report(n)

ThreadSecureMsgPow(n) == (\E m \in Msgs : EraseQueued(n, m)) \/ StoreQueued(n)

Clock(n) == \E p \in Peers(n) : IgnoreEnds(n, p)

SmsgNext ==
    \/ \E n \in Nodes :
        \/ Handler(n) \/ ThreadSecureMsg(n) \/ ThreadSecureMsgPow(n) \/ Clock(n)
        \/ SecureMsgScanBuckets(n) \/ BeginDisable(n) \/ EndDisable(n) \/ SecureMsgEnable(n)
        \/ \E b \in Buckets : Age(n, b)
        \/ \E p \in Peers(n) : Reconnect(n, p)
        \/ Restart(n)
    \/ \E m \in Msgs : SecureMsgSend(m)

SmsgSpec == SmsgInit /\ [][SmsgNext]_smsgVars

(* The threads keep running and the clocks go on.                          *)
FairSmsg ==
    SmsgSpec /\ \A n \in Nodes :
        /\ WF_smsgVars(Handler(n)) /\ WF_smsgVars(ThreadSecureMsg(n))
        /\ WF_smsgVars(ThreadSecureMsgPow(n)) /\ WF_smsgVars(Clock(n))
        /\ WF_smsgVars(EndDisable(n))

-----------------------------------------------------------------------------
(* Every variable has its type, but for what is under way.                 *)
SmsgTypeOK ==
    /\ fSecMsgEnabled \in [Nodes -> BOOLEAN] /\ disabling \in [Nodes -> BOOLEAN]
    /\ smsgBuckets \in [Nodes -> [Buckets -> [setTokens : SUBSET Msgs, hash : SUBSET Msgs,
            nLockCount : 0 .. LockTicks, nLockPeerId : Nodes \cup {None}]]]
    /\ smsgStore \in [Nodes -> SUBSET Msgs] /\ sendQueue \in [Nodes -> SUBSET Msgs]
    /\ pow \in [Nodes -> Msgs \cup {None}]
    /\ ticker \in [Nodes -> [at : {"asleep", "awake", "report"}, timedOut : SUBSET Nodes]]
    /\ \A n \in Nodes : smsgData[n] \in [Peers(n) ->
            [pinged : BOOLEAN, fEnabled : BOOLEAN, ignoring : BOOLEAN, due : SUBSET Buckets,
             again : SUBSET Buckets, told : [Buckets -> SUBSET Msgs]]]
    /\ old \in [Nodes -> SUBSET Buckets]
    /\ unsent \subseteq Msgs /\ events \in 0 .. MaxEvents
    /\ overdue \in [Nodes -> SUBSET Buckets] /\ scanned \in [Nodes -> SUBSET Buckets]
    /\ missed \in BOOLEAN

(* The hash of a bucket is that of its messages, but while a bunch is      *)
(* being stored.                                                           *)
HashIsCurrent ==
    \A n \in Nodes, b \in Buckets :
        ~Receiving(n, b) => smsgBuckets[n][b].hash = Tokens(n, b)

(* The files hold the messages of the buckets, and no others, unless       *)
(* smsgscanbuckets has removed them.                                       *)
TokensAreStored ==
    \A n \in Nodes : \A b \in Buckets \ scanned[n] :
        /\ Tokens(n, b) \subseteq smsgStore[n]
        /\ fSecMsgEnabled[n] => Tokens(n, b) = smsgStore[n] \cap In(b)

(* "peer was last sent all buckets at time of lastMatched": what a node    *)
(* will not send again, the peer was told of as it is now.                 *)
PeersAreTold ==
    \A n \in Nodes : \A p \in Peers(n) : \A b \in Buckets \ smsgData[n][p].due :
        smsgBuckets[n][b].hash \in {{}, smsgData[n][p].told[b]}

(* "set when smsgWant first sent, unset at end of smsgMsg": unless a lock  *)
(* has gone before the answer came, a bucket with a request is locked, has *)
(* no other request, and has none while it gets the messages.              *)
LockCoversRequest ==
    \A n \in Nodes : \A b \in Buckets \ (overdue[n] \cup old[n]) :
        /\ Requests(n, b) # {} => IsLocked(n, b)
        /\ Cardinality(Requests(n, b)) <= 1
        /\ Receiving(n, b) => IsLocked(n, b) /\ Requests(n, b) = {}

(* Nothing is left to do between n and p.                                  *)
Quiet(n, p) ==
    /\ \A x \in {n, p} : fSecMsgEnabled[x] /\ handler[x] = Idle
    /\ net[n][p] = << >> /\ net[p][n] = << >>
    /\ smsgData[n][p].fEnabled /\ smsgData[p][n].fEnabled
    /\ \A b \in smsgData[n][p].due : Tokens(n, b) = {}
    /\ \A b \in smsgData[p][n].due : Tokens(p, b) = {}

(* When nothing is left to do, and no announcement or answer was passed    *)
(* over, two peers have the same messages; but a node that lost its        *)
(* messages to smsgscanbuckets and turned messaging off and on is not told *)
(* of them again.                                                          *)
QuietMeansEqual ==
    ~missed => \A n \in Nodes : \A p \in Peers(n) :
        Quiet(n, p) => \A b \in Buckets \ (old[n] \cup old[p] \cup scanned[n] \cup scanned[p]) :
            Tokens(n, b) = Tokens(p, b)

(* "tick down nLockCount, so will eventually expire if peer never sends    *)
(* data", while there is a thread that does it.                            *)
LocksEnd ==
    \A n \in Nodes, b \in Buckets :
        IsLocked(n, b) /\ fSecMsgEnabled[n] ~> ~IsLocked(n, b) \/ ~fSecMsgEnabled[n]

(* The same with messaging off.                                            *)
AllLocksEnd == \A n \in Nodes, b \in Buckets : IsLocked(n, b) ~> ~IsLocked(n, b) \/ disabling[n]

(* "end here, peer will send more want messages if needed": a message that *)
(* one of two peers has comes to the other.                                *)
PeersGetTheRest ==
    \A n \in Nodes : \A p \in Peers(n) : \A m \in Msgs :
        m \in Tokens(n, BucketOf[m]) ~> m \in Tokens(p, BucketOf[m])

(* "stop secure messaging at runtime": SecureMsgDisable returns.           *)
DisableReturns == \A n \in Nodes : disabling[n] ~> ~disabling[n]
=============================================================================
