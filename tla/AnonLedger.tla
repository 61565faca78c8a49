----------------------------- MODULE AnonLedger ------------------------------
(***************************************************************************)
(* Anonymous outputs and key images: what CheckAnonInputs requires of a    *)
(* transaction, what ProcessAnonTransaction, UpdateAnonTransaction and     *)
(* UndoAnonTransaction record of it, and how both follow the chain and the *)
(* memory pool.                                                            *)
(*                                                                         *)
(* A ring signature hides which coin of its ring a transaction spends; the *)
(* key image, one for each coin, tells whether that coin was spent before. *)
(* A key image is named after its coin.  A transaction has at most one     *)
(* anonymous input and one anonymous output here.                          *)
(*                                                                         *)
(* SetBestChain disconnects and connects blocks in a batch of its own.     *)
(* SyncWithWallets, which it calls for each of them, goes through another  *)
(* CTxDB and commits at once.                                              *)
(*                                                                         *)
(* External: ring signatures, ordinary inputs and every other check of a   *)
(* block or transaction, which may fail; see ChainState and TxMemPool.     *)
(* Left out: the wallet's own outputs, and the rule against spent ring     *)
(* members (IsTokenCompromised).  Every transaction here has the version   *)
(* ANON_TXN_VERSION.                                                       *)
(***************************************************************************)
EXTENDS BlockTree, SequencesExt

CONSTANTS
    Coins,     \* the anonymous outputs, by public key
    Spends,    \* Spends[t]: the coin whose key image t shows, or None
    Ring,      \* Ring[t]: the coins among which it hides
    Creates,   \* Creates[t]: its anonymous output, or None
    MinDepth   \* MIN_ANON_SPEND_DEPTH

(* The blocks are honest ones: no chain spends a coin twice, or creates    *)
(* one twice, and rings are of coins deep enough in the chain.             *)
ASSUME AnonAssumption ==
    /\ MinDepth \in Nat \ {0} /\ None \notin Coins \cup Txs
    /\ Spends \in [Txs -> Coins \cup {None}] /\ Creates \in [Txs -> Coins \cup {None}]
    /\ Ring \in [Txs -> SUBSET Coins]
    /\ \A t \in Txs : IF Spends[t] = None THEN Ring[t] = {} ELSE Spends[t] \in Ring[t]
    /\ \A t, u \in Txs : t # u /\ Creates[t] # None => Creates[t] # Creates[u]
    /\ \A tip \in Blocks : \A b, c \in Chain[tip] : \A t \in TxsIn(b), u \in TxsIn(c) :
          /\ t = u => b = c
          /\ t # u /\ Spends[t] # None => Spends[t] # Spends[u]
    /\ \A b \in Blocks \ {Genesis} : \A t \in TxsIn(b) : \A o \in Ring[t] :
          \E c \in Chain[b] : Height[b] - 1 - Height[c] >= MinDepth
                              /\ \E u \in TxsIn(c) : Creates[u] = o

VARIABLES
    hashBestChain, \* txdb: the tip of the committed chain, which pnext follows
    pindexBest,    \* in memory; behind hashBestChain while SetBestChain runs
    keyImages,     \* txdb: key image -> the transaction that showed it
    anonOutputs,   \* txdb: coin -> nBlockHeight, 0 while unconfirmed
    mapTx,         \* the pool, and the key images of its transactions
    mapKeyImage,
    received,      \* the transaction whose handler of "tx" runs, or None
    pc, announced, \* where cs_main's holder is; SetBestChain: the block it was called with,
    target,        \* the tip it goes to in this batch
    cursor,        \* the tip of the chain in its batch
    vResurrect, vDelete,
    interrupted    \* history: a reorganisation has been given up

anonData == <<keyImages, anonOutputs, mapKeyImage>>
tips == <<hashBestChain, pindexBest>>
job == <<announced, target, cursor, vResurrect, vDelete>>
anonVars == <<tips, anonData, mapTx, received, pc, job, interrupted>>

Empty == [x \in {} |-> 0]

AnonInit ==
    /\ hashBestChain = Genesis /\ pindexBest = Genesis
    /\ announced = Genesis /\ target = Genesis /\ cursor = Genesis
    /\ keyImages = Empty /\ anonOutputs = Empty /\ mapKeyImage = Empty
    /\ mapTx = {} /\ received = None /\ pc = "idle"
    /\ vResurrect = << >> /\ vDelete = << >>
    /\ interrupted = FALSE

Put(f, x, v) == [y \in DOMAIN f \cup {x} |-> IF y = x THEN v ELSE f[y]]
Without(f, S) == [y \in DOMAIN f \ S |-> f[y]]

-----------------------------------------------------------------------------
(* What the code knows of a key image, and of a ring.                      *)

(* GetKeyImage: the database first, then the pool.                         *)
ShownBy(db, image) ==
    IF image \in DOMAIN db.images THEN db.images[image]
    ELSE IF image \in DOMAIN db.pool THEN db.pool[image]
    ELSE None

(* Every member of the ring is confirmed, deep enough below nBestHeight.   *)
RingUsable(db, t) == \A o \in Ring[t] :
    /\ o \in DOMAIN db.outputs /\ db.outputs[o] # 0
    /\ Height[pindexBest] - db.outputs[o] >= MinDepth

Now == [images |-> keyImages, outputs |-> anonOutputs, pool |-> mapKeyImage]

(* Mutated: whoever showed the image, TxnHashInSystem is not asked.        *)
CheckAnonInputsAlways(known, t) ==
    Spends[t] # None =>
        /\ ShownBy(Now, Spends[t]) \in {None, t}
        /\ RingUsable(Now, t)

(* CheckAnonInputs, where TxnHashInSystem knows the transactions known.    *)
CheckAnonInputs(known, t) ==
    Spends[t] # None =>
        /\ ShownBy(Now, Spends[t]) \notin (known \cup mapTx) \ {t}
        /\ RingUsable(Now, t)

(* TxnHashInSystem: the index, that of the batch or that on disk, names a  *)
(* block, which pnext or pindexBest shows to be in the main chain and      *)
(* which is not above nBestHeight.                                         *)
InSystem(tip) == TxsOf({b \in Chain[tip] :
    /\ b = pindexBest \/ b \in Chain[hashBestChain] \ {hashBestChain}
    /\ Height[b] <= Height[pindexBest]})

-----------------------------------------------------------------------------
(* SyncWithWallets.                                                        *)

(* UpdateAnonTransaction: both or, when the coin is unknown, neither.      *)
Updated(db, t, height) ==
    IF Creates[t] # None /\ Creates[t] \notin DOMAIN db.outputs THEN db
    ELSE [db EXCEPT
        !.images = IF Spends[t] = None THEN @ ELSE Put(@, Spends[t], t),
        !.outputs = IF Creates[t] = None THEN @ ELSE Put(@, Creates[t], height)]

(* ProcessAnonTransaction for a block of that height, or for the pool when *)
(* it is 0.  What it has put in the pool's map stays there if it fails.    *)
Processed(db, t, height) ==
    LET image == Spends[t]
        coin == Creates[t]
        shown == IF image = None THEN None ELSE ShownBy(db, image)
        written == [db EXCEPT !.images = IF image = None \/ height = 0 THEN @ ELSE Put(@, image, t),
                              !.pool = IF image = None \/ height # 0 THEN @ ELSE Put(@, image, t)]
    IN  IF shown = t THEN Updated(db, t, height)
        ELSE IF shown \in InSystem(hashBestChain) \cup mapTx \/ ~RingUsable(db, t) THEN db
        ELSE IF coin = None THEN written
        ELSE IF coin \notin DOMAIN db.outputs
             THEN [written EXCEPT !.outputs = Put(@, coin, height)]
        ELSE IF height # 0 THEN Updated(written, t, height)
        ELSE [db EXCEPT !.pool = written.pool]

(* UndoAnonTransaction.                                                    *)
Undone(db, t) ==
    [db EXCEPT
        !.images = IF Spends[t] # None /\ ShownBy(db, Spends[t]) = t
                   THEN Without(@, {Spends[t]}) ELSE @,
        !.outputs = Without(@, {Creates[t]})]

(* SyncWithWallets, for each transaction of a block that is connected or   *)
(* disconnected, in order.                                                 *)
SyncWithWallets(b, fConnect) ==
    LET told[i \in 0 .. Len(Vtx[b])] ==
            IF i = 0 THEN Now
            ELSE IF fConnect THEN Processed(told[i - 1], Vtx[b][i], Height[b])
            ELSE Undone(told[i - 1], Vtx[b][i])
    IN  told[Len(Vtx[b])]

Commits(db) ==
    /\ keyImages' = db.images
    /\ anonOutputs' = db.outputs
    /\ mapKeyImage' = db.pool

-----------------------------------------------------------------------------
(* The pool.                                                               *)

(* AcceptToMemoryPool: the image and the size of the ring make the prevout *)
(* that mapNextTx compares.                                                *)
Acceptable(t) ==
    /\ t \notin mapTx \cup TxsOf(Chain[hashBestChain])
    /\ \A u \in mapTx : Spends[t] # None /\ Spends[u] = Spends[t]
                           => Cardinality(Ring[u]) # Cardinality(Ring[t])
    /\ CheckAnonInputs(InSystem(hashBestChain), t)

(* The handler of "tx".                                                    *)
ReceiveTx(t) ==
    /\ pc = "idle" /\ Acceptable(t)
    /\ mapTx' = mapTx \cup {t}
    /\ received' = t /\ pc' = "accepted"
    /\ UNCHANGED <<tips, anonData, job, interrupted>>

(* SyncWithWallets(tx, NULL, true), after each transaction that the pool   *)
(* takes here: tx is the one that came, also when the pool took an orphan. *)
TellWallets ==
    /\ pc = "accepted" /\ pc' = "orphans"
    /\ Commits(Processed(Now, received, 0))
    /\ UNCHANGED <<tips, mapTx, received, job, interrupted>>

(* An orphan that waited for received, or for another that it let in; what *)
(* orphans wait for is an ordinary output and left to TxRelay.             *)
AcceptOrphan(u) ==
    /\ pc = "orphans" /\ Acceptable(u)
    /\ mapTx' = mapTx \cup {u}
    /\ pc' = "accepted"
    /\ UNCHANGED <<tips, anonData, received, job, interrupted>>

EndTx ==
    /\ pc = "orphans" /\ pc' = "idle" /\ received' = None
    /\ UNCHANGED <<tips, anonData, mapTx, job, interrupted>>

(* CTxMemPool::remove erases the images of what it removes.                *)
RemoveFromPool(S) ==
    /\ mapTx' = mapTx \ S
    /\ mapKeyImage' = Without(mapKeyImage, {Spends[t] : t \in S \cap mapTx})

(* removeConflicts.                                                        *)
Conflicting(t) == {u \in mapTx \ {t} :
    Spends[t] # None /\ Spends[u] = Spends[t] /\ Cardinality(Ring[u]) = Cardinality(Ring[t])}

-----------------------------------------------------------------------------
(* SetBestChain.                                                           *)

Extends(x) == Prev[x] = pindexBest

(* x waits until its predecessor, which suffices for a better chain, is    *)
(* the new tip.                                                            *)
Postponed(x) == Trust[Prev[x]] > Trust[pindexBest]

(* For a block with more trust than the tip.  When a postponed block of an *)
(* earlier call has failed, memory and database have different tips, and   *)
(* what follows is left to ChainState.                                     *)
StartSetBestChain(x) ==
    /\ pc = "idle" /\ pindexBest = hashBestChain
    /\ x # Genesis /\ Trust[x] > Trust[pindexBest]
    /\ pc' = "batch" /\ announced' = x
    /\ target' = CHOOSE b \in Chain[x] \ {Genesis} : Trust[b] > Trust[pindexBest] /\ ~Postponed(b)
    /\ UNCHANGED <<tips, anonData, mapTx, received, cursor, vResurrect, vDelete, interrupted>>

(* Mutated: the wallets are not told of a disconnected block.              *)
DisconnectUntold ==
    /\ pc = "batch" /\ cursor \notin Chain[target]
    /\ cursor' = Prev[cursor]
    /\ vResurrect' = Vtx[cursor] \o vResurrect
    /\ UNCHANGED <<tips, anonData, mapTx, received, pc, announced, target, vDelete, interrupted>>

(* DisconnectBlock of the batch's tip.                                     *)
Disconnect ==
    /\ pc = "batch" /\ cursor \notin Chain[target]
    /\ Commits(SyncWithWallets(cursor, FALSE))
    /\ cursor' = Prev[cursor]
    /\ vResurrect' = Vtx[cursor] \o vResurrect
    /\ UNCHANGED <<tips, mapTx, received, pc, announced, target, vDelete, interrupted>>

NextOn(tip) == CHOOSE b \in Chain[tip] \ {Genesis} : Prev[b] = cursor

(* ConnectBlock: every transaction is checked before any is processed.     *)
Connect ==
    /\ pc = "batch" /\ cursor \in Chain[target] \ {target}
    /\ LET b == NextOn(target)
       IN  /\ \A t \in TxsIn(b) : CheckAnonInputs(InSystem(cursor), t)
           /\ Commits(SyncWithWallets(b, TRUE))
           /\ cursor' = b /\ vDelete' = vDelete \o Vtx[b]
    /\ UNCHANGED <<tips, mapTx, received, pc, announced, target, vResurrect, interrupted>>

(* A block is refused or cannot be read: the batch is dropped, and what    *)
(* the wallets were told of stays told.  If the block was a postponed one, *)
(* SetBestChain goes on as if the announced block were connected.          *)
GiveUp ==
    /\ pc = "batch"
    /\ pc' = "idle" /\ cursor' = hashBestChain
    /\ pindexBest' = IF Postponed(target) THEN announced ELSE pindexBest
    /\ announced' = pindexBest' /\ target' = pindexBest'
    /\ vResurrect' = << >> /\ vDelete' = << >>
    /\ interrupted' = (interrupted \/ cursor # hashBestChain)
    /\ UNCHANGED <<hashBestChain, anonData, mapTx, received>>

(* TxnCommit, and pnext is that of the new chain.                          *)
Commit ==
    /\ pc = "batch" /\ cursor = target
    /\ pc' = "pool" /\ hashBestChain' = target
    /\ UNCHANGED <<pindexBest, anonData, mapTx, received, job, interrupted>>

(* Reorganize over vResurrect: AcceptToMemoryPool, and no wallet is told.  *)
Resurrect ==
    /\ pc = "pool" /\ vResurrect # << >>
    /\ vResurrect' = Tail(vResurrect)
    /\ LET t == Head(vResurrect)
       IN  \/ Acceptable(t) /\ mapTx' = mapTx \cup {t}
           \/ UNCHANGED mapTx
    /\ UNCHANGED <<tips, anonData, received, pc, announced, target, cursor, vDelete, interrupted>>

(* Over vDelete; SetBestChainInner leaves the conflicting ones.            *)
Delete ==
    /\ pc = "pool" /\ vResurrect = << >> /\ vDelete # << >>
    /\ vDelete' = Tail(vDelete)
    /\ LET t == Head(vDelete)
       IN  RemoveFromPool({t} \cup
               IF Extends(target) \/ Postponed(target) THEN {} ELSE Conflicting(t))
    /\ UNCHANGED <<tips, keyImages, anonOutputs, received, pc, announced, target, cursor,
                   vResurrect, interrupted>>

(* The next postponed block is connected in a batch of its own.            *)
NextSecondary ==
    /\ pc = "pool" /\ vResurrect = << >> /\ vDelete = << >> /\ target # announced
    /\ pc' = "batch" /\ target' = NextOn(announced)
    /\ UNCHANGED <<tips, anonData, mapTx, received, announced, cursor, vResurrect, vDelete,
                   interrupted>>

NewBestBlock ==
    /\ pc = "pool" /\ vResurrect = << >> /\ vDelete = << >> /\ target = announced
    /\ pc' = "idle" /\ pindexBest' = announced
    /\ UNCHANGED <<hashBestChain, anonData, mapTx, received, job, interrupted>>

(* The process ends and starts: the pool is lost, an open batch too.       *)
Restart ==
    /\ pindexBest' = hashBestChain /\ cursor' = hashBestChain /\ pc' = "idle"
    /\ announced' = hashBestChain /\ target' = hashBestChain
    /\ vResurrect' = << >> /\ vDelete' = << >>
    /\ mapTx' = {} /\ mapKeyImage' = Empty /\ received' = None
    /\ interrupted' = (interrupted \/ (pc = "batch" /\ cursor # hashBestChain))
    /\ UNCHANGED <<hashBestChain, keyImages, anonOutputs>>

-----------------------------------------------------------------------------
Received == \E t \in Txs \ Generated : ReceiveTx(t) \/ AcceptOrphan(t)
Started == \E x \in Blocks : StartSetBestChain(x)
AnonNext ==
    \/ Received \/ TellWallets \/ EndTx \/ Started \/ Disconnect \/ Connect \/ GiveUp
    \/ Commit \/ Resurrect \/ Delete \/ NextSecondary \/ NewBestBlock \/ Restart

AnonSpec == AnonInit /\ [][AnonNext]_anonVars

-----------------------------------------------------------------------------
(* Every map and list holds what its type says.                            *)
AnonTypeOK ==
    /\ {hashBestChain, pindexBest, announced, target, cursor} \subseteq Blocks
    /\ pc \in {"idle", "accepted", "orphans", "batch", "pool"} /\ received \in Txs \cup {None}
    /\ keyImages \in [DOMAIN keyImages -> Txs] /\ DOMAIN keyImages \subseteq Coins
    /\ mapKeyImage \in [DOMAIN mapKeyImage -> Txs] /\ DOMAIN mapKeyImage \subseteq Coins
    /\ anonOutputs \in [DOMAIN anonOutputs -> Nat] /\ DOMAIN anonOutputs \subseteq Coins
    /\ {mapTx, Range(vResurrect), Range(vDelete)} \subseteq SUBSET Txs

(* The database tells of each transaction of the chain that it showed its  *)
(* image, and at which height its coin is.                                 *)
ChainIsRecorded ==
    \A b \in Chain[hashBestChain] : \A t \in TxsIn(b) :
        /\ Spends[t] # None => Spends[t] \in DOMAIN keyImages /\ keyImages[Spends[t]] = t
        /\ Creates[t] # None => Creates[t] \in DOMAIN anonOutputs
                                /\ anonOutputs[Creates[t]] = Height[b]

(* Through reorganisations and restarts, unless one of them cut short what *)
(* SetBestChain had begun, the recorded images and coins are those of the  *)
(* chain, and only coins of the chain have a height.                       *)
RecordsMatchChain ==
    /\ AnonTypeOK
    /\ pc = "idle" /\ ~interrupted =>
        /\ ChainIsRecorded
        /\ \A o \in DOMAIN anonOutputs : anonOutputs[o] > 0 =>
              \E t \in TxsOf(Chain[hashBestChain]) : Creates[t] = o

(* Leftovers of disconnected branches, of lost pools and of transactions   *)
(* that never made it into a block do not make a node refuse the next      *)
(* block, if the pool holds no other spender of its coins.                 *)
HonestBlockConnects ==
    pc = "idle" /\ ~interrupted /\ pindexBest = hashBestChain =>
        \A x \in Blocks \ {Genesis} : Extends(x) =>
            \A t \in TxsIn(x) :
                (\A u \in mapTx \ {t} : Spends[t] = None \/ Spends[u] # Spends[t])
                    => CheckAnonInputs(InSystem(hashBestChain), t)

(* "undo transaction - used if block is unlinked / txn didn't commit":     *)
(* whatever happens to a call of SetBestChain, the records are those of    *)
(* the chain when it is over.                                              *)
UndoneWhenNotCommitted == pc = "idle" => ChainIsRecorded
=============================================================================
