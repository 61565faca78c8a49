------------------------------ MODULE TxRelay -------------------------------
(***************************************************************************)
(* How a full node fetches the transactions its peers announce, and what   *)
(* becomes of those that come before their parents: CNode::AskFor, the     *)
(* handlers of "inv" and "tx", the getdata loop of SendMessages and        *)
(* mapOrphanTransactions.                                                  *)
(*                                                                         *)
(* All of it runs in ThreadMessageHandler under cs_main.  The loop over    *)
(* the orphans is taken step by step, because it walks a queue that it     *)
(* extends; nothing else happens meanwhile.  Times are relative: what a    *)
(* map says is how long from now, and Tick brings everything nearer.       *)
(*                                                                         *)
(* External: the peers, and the blocks, which confirm any transactions     *)
(* that spend confirmed outputs.  A transaction is confirmed for good.     *)
(***************************************************************************)
EXTENDS Integers, FiniteSets, FiniteSetsExt, Sequences, SequencesExt

CONSTANTS
    Txs, Vin,          \* Vin[t]: the outputs <<transaction, n>> that t spends
    Dubious,           \* AcceptToMemoryPool may refuse these: fees, scripts
    Peers, Honest,     \* the peers that answer getdata
    Announces,         \* Announces[p]: what p may announce
    Retry,             \* two minutes
    MaxOrphans,        \* MAX_ORPHAN_TRANSACTIONS
    MaxAlreadyAsked,   \* MAX_INV_SZ, the bound of mapAlreadyAskedFor
    MaxGetData         \* 1000: the longest getdata message

ASSUME RelayAssumption ==
    /\ Dubious \subseteq Txs /\ Honest \subseteq Peers
    /\ Vin \in [Txs -> SUBSET (Txs \X Nat)] /\ Announces \in [Peers -> SUBSET Txs]
    /\ {Retry, MaxOrphans, MaxGetData} \subseteq Nat \ {0}
    /\ MaxAlreadyAsked \in Nat \ {0, 1}   \* limitedmap::insert erases before it enters

VARIABLES
    confirmed,     \* txdb: the transactions of the chain
    mapTx,         \* the pool
    orphans,       \* mapOrphanTransactions
    byPrev,        \* mapOrphanTransactionsByPrev; empty: no entry
    synced,        \* SyncWithWallets has been called with these
    setAskFor,     \* per peer
    mapAskFor,     \* per peer: pairs of a delay, 0 when due, and an item
    alreadyAsked,  \* mapAlreadyAskedFor; -Retry: two minutes ago or more
    getdata,       \* per peer: what it was asked for and has not answered
    vWorkQueue, vEraseQueue, \* the loop of "tx" over the orphans,
    done,          \* how much of vWorkQueue it has left behind,
    todo           \* and what it has yet to try of the current entry

memory == <<confirmed, mapTx, orphans, byPrev, synced>>
asking == <<setAskFor, mapAskFor, alreadyAsked, getdata>>
loop == <<vWorkQueue, vEraseQueue, done, todo>>
relayVars == <<memory, asking, loop>>

Parents(t) == {o[1] : o \in Vin[t]}
Conflict(t, u) == t # u /\ Vin[t] \cap Vin[u] # {}

(* The transactions that spend nothing are generated, and there at start.  *)
RelayInit ==
    /\ confirmed = {t \in Txs : Vin[t] = {}} /\ synced = confirmed
    /\ mapTx = {} /\ orphans = {} /\ byPrev = [t \in Txs |-> {}]
    /\ setAskFor = [p \in Peers |-> {}] /\ mapAskFor = [p \in Peers |-> {}]
    /\ alreadyAsked = [t \in {} |-> 0] /\ getdata = [p \in Peers |-> {}]
    /\ vWorkQueue = << >> /\ vEraseQueue = {} /\ done = 0 /\ todo = {}

AlreadyHave(t) == t \in mapTx \cup orphans \cup confirmed
Idle == vWorkQueue = << >>

-----------------------------------------------------------------------------
(* AskFor.                                                                 *)

(* limitedmap: an insertion that fills it drops an entry of least value,   *)
(* never the new one.                                                      *)
Remember(t, at) ==
    LET others == DOMAIN alreadyAsked \ {t}
        least == {u \in others : \A v \in others : alreadyAsked[u] <= alreadyAsked[v]}
        put(D) == [u \in D \cup {t} |-> IF u = t THEN at ELSE alreadyAsked[u]]
    IN  IF t \notin DOMAIN alreadyAsked /\ Cardinality(others) + 1 = MaxAlreadyAsked
        THEN \E u \in least : alreadyAsked' = put(others \ {u})
        ELSE alreadyAsked' = put(others)

AskFor(p, t) ==
    LET at == IF t \in DOMAIN alreadyAsked THEN Max({alreadyAsked[t] + Retry, 0}) ELSE 0
    IN  IF t \in setAskFor[p] THEN UNCHANGED <<setAskFor, mapAskFor, alreadyAsked>>
        ELSE /\ setAskFor' = [setAskFor EXCEPT ![p] = @ \cup {t}]
             /\ mapAskFor' = [mapAskFor EXCEPT ![p] = @ \cup {<<at, t>>}]
             /\ Remember(t, at)

(* A peer announces a transaction.                                         *)
Inv(p, t) ==
    /\ Idle /\ ~AlreadyHave(t)
    /\ AskFor(p, t)
    /\ UNCHANGED <<memory, loop, getdata>>

Due(p) == {t \in Txs : <<0, t>> \in mapAskFor[p]}

(* Mutated: what another peer has been asked for is not asked again.       *)
SendGetDataOnce(p) ==
    LET asked == {t \in Due(p) : ~AlreadyHave(t) /\ \A q \in Peers : t \notin getdata[q]}
    IN  /\ Idle /\ Due(p) # {}
        /\ mapAskFor' = [mapAskFor EXCEPT ![p] = {e \in @ : e[1] > 0}]
        /\ setAskFor' = [setAskFor EXCEPT ![p] = @ \ asked]
        /\ getdata' = [getdata EXCEPT ![p] = @ \cup asked]
        /\ UNCHANGED <<memory, loop, alreadyAsked>>

(* The getdata loop: everything due goes.  What the node lacks is asked    *)
(* for and leaves setAskFor, but for the items that fill a message; what   *)
(* it has by now stays in setAskFor.                                       *)
SendGetData(p) ==
    LET asked == {t \in Due(p) : ~AlreadyHave(t)}
    IN  /\ Idle /\ Due(p) # {}
        /\ mapAskFor' = [mapAskFor EXCEPT ![p] = {e \in @ : e[1] > 0}]
        /\ \E last \in kSubset(Cardinality(asked) \div MaxGetData, asked) :
              setAskFor' = [setAskFor EXCEPT ![p] = @ \ (asked \ last)]
        /\ getdata' = [getdata EXCEPT ![p] = @ \cup asked]
        /\ UNCHANGED <<memory, loop, alreadyAsked>>

(* Time passes.                                                            *)
Tick ==
    /\ Idle
    /\ mapAskFor' = [p \in Peers |-> {<<Max({e[1] - 1, 0}), e[2]>> : e \in mapAskFor[p]}]
    /\ alreadyAsked' = [t \in DOMAIN alreadyAsked |-> Max({alreadyAsked[t] - 1, -Retry})]
    /\ UNCHANGED <<memory, loop, setAskFor, getdata>>

-----------------------------------------------------------------------------
(* AcceptToMemoryPool, as the relay sees it.                               *)

Known(t) == t \in mapTx \cup confirmed
Missing(t) == ~ Parents(t) \subseteq mapTx \cup confirmed
Acceptable(t) ==
    /\ ~Known(t) /\ ~Missing(t)
    /\ \A u \in mapTx \cup confirmed : ~Conflict(t, u)

(* It may set fMissingInputs once nothing in the pool conflicts with t.    *)
MissingInputs(t) == ~Known(t) /\ Missing(t) /\ \A u \in mapTx : ~Conflict(t, u)
Refused(t) == ~ (Acceptable(t) \/ MissingInputs(t)) \/ t \in Dubious

(* Mutated: only the entry of one of its parents goes.                     *)
EraseOrphansPartly(S) ==
    /\ orphans' = orphans \ S
    /\ \E prev \in UNION {Parents(t) : t \in S} \cup Txs :
          byPrev' = [byPrev EXCEPT ![prev] = @ \ S]

(* EraseOrphanTx for each of S.                                            *)
EraseOrphans(S) ==
    /\ orphans' = orphans \ S
    /\ byPrev' = [prev \in Txs |-> byPrev[prev] \ (S \cap orphans)]

(* AddOrphanTx, then LimitOrphanTxSize, which evicts at random.            *)
AddOrphan(t) ==
    LET all == orphans \cup {t}
        surplus == Max({Cardinality(all) - MaxOrphans, 0})
    IN  \E evicted \in kSubset(surplus, all) :
            /\ orphans' = all \ evicted
            /\ byPrev' = [prev \in Txs |->
                  (IF prev \in Parents(t) THEN byPrev[prev] \cup {t} ELSE byPrev[prev]) \ evicted]

(* A "tx" that is accepted starts the loop over the orphans; one without   *)
(* its parents is kept, if it is not too large; others are forgotten.      *)
ReceiveTx(t) ==
    /\ Idle
    /\ alreadyAsked' = [u \in DOMAIN alreadyAsked \ {t} |-> alreadyAsked[u]]
    /\ \/ /\ Acceptable(t)
          /\ mapTx' = mapTx \cup {t} /\ synced' = synced \cup {t}
          /\ vWorkQueue' = <<t>> /\ vEraseQueue' = {t}
          /\ done' = 0 /\ todo' = byPrev[t]
          /\ UNCHANGED <<orphans, byPrev>>
       \/ /\ MissingInputs(t) /\ AddOrphan(t)
          /\ UNCHANGED <<mapTx, synced, loop>>
       \/ /\ Refused(t)
          /\ UNCHANGED <<mapTx, synced, orphans, byPrev, loop>>
    /\ UNCHANGED <<confirmed, setAskFor, mapAskFor>>

(* A peer answers, or sends what nobody asked for.                         *)
PeerSends(p, t) ==
    /\ ReceiveTx(t)
    /\ getdata' = [getdata EXCEPT ![p] = @ \ {t}]

(* Mutated: the orphans of an accepted orphan are not tried.               *)
TryOrphanShallow(t) ==
    /\ t \in todo /\ todo' = todo \ {t}
    /\ \/ /\ Acceptable(t)
          /\ mapTx' = mapTx \cup {t}
          /\ vEraseQueue' = vEraseQueue \cup {t}
       \/ Refused(t) /\ vEraseQueue' = vEraseQueue \cup {t} /\ UNCHANGED mapTx
       \/ MissingInputs(t) /\ UNCHANGED <<mapTx, vEraseQueue>>
    /\ UNCHANGED <<confirmed, orphans, byPrev, synced, asking, done, vWorkQueue>>

(* The inner loop: an orphan of the current entry.  The wallets are told   *)
(* of tx, the transaction that came, again, and not of the orphan.         *)
TryOrphan(t) ==
    /\ t \in todo /\ todo' = todo \ {t}
    /\ \/ /\ Acceptable(t)
          /\ mapTx' = mapTx \cup {t} /\ synced' = synced \cup {vWorkQueue[1]}
          /\ vWorkQueue' = Append(vWorkQueue, t)
          /\ vEraseQueue' = vEraseQueue \cup {t}
       \/ /\ Refused(t) /\ vEraseQueue' = vEraseQueue \cup {t}
          /\ UNCHANGED <<mapTx, synced, vWorkQueue>>
       \/ MissingInputs(t) /\ UNCHANGED <<mapTx, synced, vWorkQueue, vEraseQueue>>
    /\ UNCHANGED <<confirmed, orphans, byPrev, asking, done>>

(* The outer loop: the next entry, or the end.                             *)
NextEntry ==
    /\ ~Idle /\ todo = {} /\ done + 1 < Len(vWorkQueue)
    /\ done' = done + 1 /\ todo' = byPrev[vWorkQueue[done + 2]]
    /\ UNCHANGED <<memory, asking, vWorkQueue, vEraseQueue>>

LoopEnds == ~Idle /\ todo = {} /\ done + 1 = Len(vWorkQueue)

EraseAll ==
    /\ LoopEnds
    /\ EraseOrphans(vEraseQueue)
    /\ vWorkQueue' = << >> /\ vEraseQueue' = {} /\ done' = 0 /\ todo' = {}
    /\ UNCHANGED <<confirmed, mapTx, synced, asking>>

(* A block extends the chain: its transactions leave the pool, those that  *)
(* conflict with them stay; the orphans are not looked at.                 *)
BlockConnects(S) ==
    /\ Idle /\ S # {} /\ S \cap confirmed = {}
    /\ UNION {Parents(t) : t \in S} \subseteq confirmed \cup S
    /\ \A t \in S, u \in S \cup confirmed : ~Conflict(t, u)
    /\ confirmed' = confirmed \cup S /\ mapTx' = mapTx \ S /\ synced' = synced \cup S
    /\ UNCHANGED <<orphans, byPrev, asking, loop>>

-----------------------------------------------------------------------------
Announced == \E p \in Peers : \E t \in Announces[p] : Inv(p, t)
Asks == \E p \in Peers : SendGetData(p)
Received == \E p \in Peers, t \in Txs : PeerSends(p, t)
Orphans == NextEntry \/ EraseAll \/ \E t \in Txs : TryOrphan(t)
Blocks == \E S \in SUBSET Txs : BlockConnects(S)

RelayNext == Announced \/ Asks \/ Tick \/ Received \/ Orphans \/ Blocks

RelaySpec == RelayInit /\ [][RelayNext]_relayVars

(* ThreadMessageHandler serves every peer in turn and sleeps at most 100   *)
(* ms; time goes on; the honest peers answer what they are asked.          *)
FairRelay ==
    /\ RelaySpec
    /\ WF_relayVars(Orphans) /\ WF_relayVars(Tick)
    /\ \A p \in Peers : WF_relayVars(SendGetData(p))
    /\ \A p \in Honest, t \in Txs : WF_relayVars(t \in getdata[p] /\ PeerSends(p, t))

-----------------------------------------------------------------------------
(* "a peer may not have multiple non-responded queue positions for a       *)
(* single inv item": one place in mapAskFor, and its hash in setAskFor.    *)
OneQueuePosition ==
    \A p \in Peers : \A e, f \in mapAskFor[p] :
        e[2] \in setAskFor[p] /\ (e[2] = f[2] => e = f)

(* Every map, set and queue of the relay holds what its type says.         *)
RelayTypeOK ==
    /\ {confirmed, mapTx, orphans, synced, vEraseQueue, todo} \subseteq SUBSET Txs
    /\ byPrev \in [Txs -> SUBSET Txs]
    /\ setAskFor \in [Peers -> SUBSET Txs] /\ getdata \in [Peers -> SUBSET Txs]
    /\ mapAskFor \in [Peers -> SUBSET (Nat \X Txs)]
    /\ DOMAIN alreadyAsked \subseteq Txs /\ Cardinality(DOMAIN alreadyAsked) < MaxAlreadyAsked
    /\ OneQueuePosition
    /\ Range(vWorkQueue) \subseteq Txs /\ done \in 0..Len(vWorkQueue)

(* mapOrphanTransactionsByPrev names the stored orphans under each of      *)
(* their parents and nobody else, through additions, evictions and         *)
(* erasures: mapOrphanTransactions[orphanTxHash] never makes an empty      *)
(* transaction of a name without one, and there are never too many.        *)
OrphansByPrev ==
    /\ RelayTypeOK
    /\ \A prev \in Txs : byPrev[prev] = {t \in orphans : prev \in Parents(t)}
    /\ Cardinality(orphans) <= MaxOrphans

(* "Recursively process any orphan transactions that depended on this      *)
(* one": when the loop ends, an orphan that stays has no parent among the  *)
(* transactions just accepted, or misses another one.                      *)
NoneLeftBehind ==
    LoopEnds => \A t \in orphans \ vEraseQueue :
        Parents(t) \cap Range(vWorkQueue) = {} \/ Missing(t)

(* A transaction that can always be accepted, and that an honest peer has  *)
(* announced, arrives, whatever the other peers that were asked for it do. *)
Sound(t) ==
    /\ t \notin Dubious /\ \A o \in Vin[t] : Vin[o[1]] = {}
    /\ \A u \in Txs : ~Conflict(t, u)
GoodArrives ==
    \A p \in Honest : \A t \in {u \in Txs : Sound(u)} :
        (\E e \in mapAskFor[p] : e[2] = t) ~> AlreadyHave(t)

(* "If we're not going to ask, don't expect a response": what waits in     *)
(* setAskFor is queued, or the peer has been asked for it.                 *)
ExpectedWasAsked ==
    \A p \in Peers : \A t \in setAskFor[p] :
        t \in getdata[p] \/ \E e \in mapAskFor[p] : e[2] = t

(* "make sure all wallets know about the given transaction": whenever the  *)
(* handler is done, the wallets have been told of every transaction that   *)
(* the node has accepted.                                                  *)
WalletsKnowPool == Idle => mapTx \subseteq synced
=============================================================================
