----------------------------- MODULE TxMemPool ------------------------------
(***************************************************************************)
(* The pool of unconfirmed transactions (CTxMemPool) of a full node, and   *)
(* what the steps of SetBestChain do to it, on top of ChainState.          *)
(*                                                                         *)
(* Reorganize collects the transactions to resurrect and to delete while   *)
(* it disconnects and connects, and goes through both lists once the new   *)
(* chain is committed; SetBestChainInner goes through its block.  All of   *)
(* it runs under cs_main.  Fees, sizes, scripts and anonymous inputs are   *)
(* not modelled: AcceptToMemoryPool may refuse any transaction.            *)
(***************************************************************************)
EXTENDS ChainState

CONSTANTS
    Time,               \* Time[t]: nTime
    TotalBlocksEstimate \* Checkpoints::GetTotalBlocksEstimate()

ASSUME PoolAssumption == Time \in [Txs -> Nat] /\ TotalBlocksEstimate \in Nat

VARIABLES
    mapTx,       \* the transactions of the pool
    mapNextTx,   \* which of them spends an output
    vResurrect,  \* Reorganize: disconnected transactions, not yet taken back
    vDelete,     \* Reorganize: connected transactions, not yet deleted
    vtx          \* SetBestChainInner: the transactions of its block, not yet deleted

pool == <<mapTx, mapNextTx>>
lists == <<vResurrect, vDelete, vtx>>
poolVars == <<vars, pool, lists>>

PoolInit ==
    /\ Init
    /\ mapTx = {}
    /\ mapNextTx = [o \in {} |-> None]
    /\ vResurrect = << >> /\ vDelete = << >> /\ vtx = << >>

-----------------------------------------------------------------------------
(* AcceptToMemoryPool.                                                     *)

(* FetchInputs and ConnectInputs for an input of a loose transaction, with *)
(* pindexPrev as the last block: it is in the database and unspent there,  *)
(* or an output of a transaction of the pool.                              *)
InputConnects(t, o, pindexPrev) ==
    /\ o[2] < NOut[o[1]]
    /\ Time[o[1]] <= Time[t]
    /\ \/ /\ o[1] \in DOMAIN disk.txindex
          /\ o[2] \notin disk.txindex[o[1]].spent
          /\ o[1] \in Generated => ~Immature(disk.txindex[o[1]].pos, pindexPrev)
       \/ o[1] \in mapTx \ DOMAIN disk.txindex

(* Mutated: mapNextTx is not consulted.                                    *)
AcceptableConflicting(t) ==
    /\ t \notin mapTx \cup Generated
    /\ t \notin DOMAIN disk.txindex
    /\ \A o \in Vin[t] : InputConnects(t, o, pindexBest)

(* What AcceptToMemoryPool requires of the pool and the database.          *)
Acceptable(t) ==
    /\ t \notin mapTx \cup Generated
    /\ Vin[t] \cap DOMAIN mapNextTx = {}
    /\ t \notin DOMAIN disk.txindex
    /\ \A o \in Vin[t] : InputConnects(t, o, pindexBest)

addUnchecked(t) ==
    /\ mapTx' = mapTx \cup {t}
    /\ mapNextTx' = [o \in DOMAIN mapNextTx \cup Vin[t] |->
                        IF o \in Vin[t] THEN t ELSE mapNextTx[o]]

(* A transaction comes from a peer or the wallet, and is accepted.         *)
ReceiveTx(t) ==
    /\ pc = "idle"
    /\ Acceptable(t)
    /\ addUnchecked(t)
    /\ UNCHANGED <<vars, lists>>

-----------------------------------------------------------------------------
(* CTxMemPool::remove and removeConflicts.                                 *)

(* Mutated: the transaction goes, its inputs stay taken.                   *)
RemoveAllForgetful(S) ==
    /\ mapTx' = mapTx \ S
    /\ UNCHANGED mapNextTx

(* The pool without the transactions of S.                                 *)
RemoveAll(S) ==
    /\ mapTx' = mapTx \ S
    /\ mapNextTx' = [o \in DOMAIN mapNextTx \ UNION {Vin[t] : t \in S} |-> mapNextTx[o]]

(* Mutated: the recursion is left out.                                     *)
DependentsNone(t) == {t}

(* What remove(t, true) reaches from t: the least set with t and, for each *)
(* output of its transactions, the transaction that mapNextTx finds.       *)
Dependents(t) ==
    {u \in mapTx : \A S \in SUBSET mapTx :
        (/\ t \in S
         /\ \A o \in DOMAIN mapNextTx :
               o[1] \in S /\ o[2] < NOut[o[1]] => mapNextTx[o] \in S) => u \in S}

(* remove(t) and removeConflicts(t): t, or whatever spends what t spends.  *)
Redundant(t) ==
    IF t \in mapTx THEN {t}
    ELSE UNION {Dependents(mapNextTx[o]) : o \in Vin[t] \cap DOMAIN mapNextTx}

-----------------------------------------------------------------------------
(* SetBestChain with the pool.                                             *)

(* A turn of the first loop of Reorganize: its block's transactions come   *)
(* before those of the blocks above it.  The code leaves out those that    *)
(* are Generated; here they stay, and AcceptToMemoryPool refuses them.     *)
DisconnectPool ==
    /\ DisconnectBlock
    /\ vResurrect' = IF Height[job.cursor] > TotalBlocksEstimate
                     THEN Vtx[job.cursor] \o vResurrect ELSE vResurrect
    /\ UNCHANGED <<pool, vDelete, vtx>>

(* A turn of the second loop, or the ConnectBlock of SetBestChainInner.    *)
ConnectPool(x) ==
    /\ ConnectBlock(x)
    /\ \/ pc = "connect" /\ vDelete' = vDelete \o Vtx[x] /\ UNCHANGED vtx
       \/ pc # "connect" /\ vtx' = Vtx[x] /\ UNCHANGED vDelete
    /\ UNCHANGED <<pool, vResurrect>>

Committed == pc \in {"secondary", "finish"}

(* The loop of Reorganize over vResurrect: each may be refused.            *)
ResurrectTx ==
    /\ Committed /\ vResurrect # << >>
    /\ \/ Acceptable(Head(vResurrect)) /\ addUnchecked(Head(vResurrect))
       \/ UNCHANGED pool
    /\ vResurrect' = Tail(vResurrect)
    /\ UNCHANGED <<vars, vDelete, vtx>>

(* Its loop over vDelete.                                                  *)
DeleteTx ==
    /\ Committed /\ vResurrect = << >> /\ vDelete # << >>
    /\ RemoveAll(Redundant(Head(vDelete)))
    /\ vDelete' = Tail(vDelete)
    /\ UNCHANGED <<vars, vResurrect, vtx>>

(* Mutated: nothing of the block is removed.                               *)
RemoveTxNot ==
    /\ Committed /\ vtx # << >>
    /\ vtx' = Tail(vtx)
    /\ UNCHANGED <<vars, pool, vResurrect, vDelete>>

(* The loop of SetBestChainInner over its block.                           *)
RemoveTx ==
    /\ Committed /\ vtx # << >>
    /\ RemoveAll({Head(vtx)} \cap mapTx)
    /\ vtx' = Tail(vtx)
    /\ UNCHANGED <<vars, vResurrect, vDelete>>

Emptied == vResurrect = << >> /\ vDelete = << >> /\ vtx = << >>

(* SetBestChain leaves: the lists are locals of what it called.            *)
FailPool ==
    /\ BlockFails
    /\ pc = "secondary" => Emptied
    /\ vResurrect' = << >> /\ vDelete' = << >> /\ vtx' = << >>
    /\ UNCHANGED pool

(* The steps that leave the pool alone.                                    *)
ChainOnly ==
    /\ \/ \E b \in Blocks : AddToBlockIndex(b)
       \/ SetBestChain
       \/ TxnCommit
       \/ Emptied /\ ((\E x \in Blocks : NextSecondary(x)) \/ NewBestBlock)
    /\ UNCHANGED <<pool, lists>>

(* The pool is not saved.                                                  *)
RestartPool ==
    /\ Restart
    /\ mapTx' = {}
    /\ mapNextTx' = [o \in {} |-> None]
    /\ vResurrect' = << >> /\ vDelete' = << >> /\ vtx' = << >>

(* What happens under cs_main.                                             *)
PoolStep ==
    \/ \E t \in Txs : ReceiveTx(t)
    \/ DisconnectPool
    \/ \E x \in Blocks : ConnectPool(x)
    \/ ResurrectTx
    \/ DeleteTx
    \/ RemoveTx
    \/ FailPool
    \/ ChainOnly

PoolNext == PoolStep \/ RestartPool

PoolSpec == PoolInit /\ [][PoolNext]_poolVars

-----------------------------------------------------------------------------
(* Every variable of the pool has its type.                                *)
PoolTypeOK ==
    /\ mapTx \subseteq Txs \ Generated
    /\ DOMAIN mapNextTx \subseteq Txs \X Nat
    /\ mapNextTx \in [DOMAIN mapNextTx -> mapTx]
    /\ vResurrect \in Seq(Txs) /\ vDelete \in Seq(Txs) /\ vtx \in Seq(Txs)

(* mapNextTx, which holds pointers into mapTx, has an entry for each input *)
(* of each transaction of the pool and no other: so no two of them spend   *)
(* the same output, and no pointer dangles.                                *)
NextTxMatches ==
    /\ DOMAIN mapNextTx = UNION {Vin[t] : t \in mapTx}
    /\ \A t \in mapTx : \A o \in Vin[t] : mapNextTx[o] = t

(* Once SetBestChain is done with the pool, no transaction of the best     *)
(* chain is in it: resurrecting may take back only what is not connected.  *)
PoolNotConfirmed == pc = "idle" => mapTx \cap DOMAIN disk.txindex = {}

(* A transaction leaves the pool without being confirmed only together     *)
(* with all that spends its outputs.                                       *)
DependentsLeaveToo ==
    [][\A t \in mapTx \ mapTx' :
        t \notin DOMAIN disk'.txindex =>
            \A u \in mapTx' : \A o \in Vin[u] : o[1] # t]_poolVars

(* "valid-according-to-the-current-best-chain": no transaction of the pool *)
(* spends an output that the best chain spends.                            *)
PoolUnspentByChain ==
    pc = "idle" =>
        \A o \in DOMAIN mapNextTx :
            o[1] \in DOMAIN disk.txindex => o[2] \notin disk.txindex[o[1]].spent

(* "all transactions in the memory pool should connect to either           *)
(* transactions in the chain or other transactions in the memory pool".    *)
PoolInputsKnown ==
    pc = "idle" =>
        \A o \in DOMAIN mapNextTx : o[1] \in DOMAIN disk.txindex \cup mapTx
=============================================================================
