----------------------------- MODULE StakeMiner -----------------------------
(***************************************************************************)
(* The staking thread: CreateNewBlock, SignBlock and CheckStake, beside    *)
(* the thread that moves the chain.  CreateNewBlock reads pindexBest       *)
(* before it locks cs_main, and the lock is free between its end and       *)
(* CheckStake.                                                             *)
(*                                                                         *)
(* Priorities, fees and sizes only decide which transactions are tried and *)
(* in which order: any that is ready may be next.  The coinstake itself    *)
(* and the kernel search are not modelled.                                 *)
(***************************************************************************)
EXTENDS TxMemPool

CONSTANT StakeTimes  \* the times a coinstake may have

ASSUME MinerAssumption == StakeTimes \subseteq Nat

VARIABLES
    step,        \* where the thread is
    pindexPrev,  \* the block it builds on, or None
    collected    \* the transactions of the new block, by their place in it

miner == <<step, pindexPrev, collected>>
minerVars == <<poolVars, miner>>

Taken == {collected[i] : i \in DOMAIN collected}

MinerInit ==
    /\ PoolInit
    /\ step = "sleeping" /\ pindexPrev = None /\ collected = << >>

-----------------------------------------------------------------------------
(* Mutated: the miner builds on what follows the best block.               *)
ReadBestNext ==
    /\ step = "sleeping"
    /\ pindexPrev' = pnext[pindexBest]
    /\ step' = "waiting"
    /\ UNCHANGED <<poolVars, collected>>

(* CreateNewBlock notes the best block, without a lock.                    *)
ReadBest ==
    /\ step = "sleeping"
    /\ pindexPrev' = pindexBest
    /\ step' = "waiting"
    /\ UNCHANGED <<poolVars, collected>>

(* It locks cs_main and mempool.cs.                                        *)
LockMain ==
    /\ step = "waiting" /\ pc = "idle"
    /\ step' = "collecting"
    /\ collected' = << >>
    /\ UNCHANGED <<poolVars, pindexPrev>>

(* A transaction that waits for others of the pool (setDependsOn) is ready *)
(* when all of these are taken.  One that misses an input never is; the    *)
(* entry it may leave in mapDependers, of a COrphan that is gone, can at   *)
(* most bring up a transaction that FetchInputs refuses.                   *)
Ready(t) ==
    /\ t \in mapTx \ Taken
    /\ \A o \in Vin[t] : o[1] \in DOMAIN disk.txindex \cup Taken

(* FetchInputs and ConnectInputs for the miner, where mapTestPool holds    *)
(* what the transactions taken so far spend.                               *)
MinerConnects(t) ==
    \A o \in Vin[t] :
        /\ InputConnects(t, o, pindexPrev)
        /\ \A u \in Taken : o \notin Vin[u]

TakeTx(t) ==
    /\ step = "collecting"
    /\ Ready(t)
    /\ MinerConnects(t)
    /\ collected' = Append(collected, t)
    /\ UNCHANGED <<poolVars, step, pindexPrev>>

Unlock ==
    /\ step = "collecting"
    /\ step' = "signing"
    /\ UNCHANGED <<poolVars, pindexPrev, collected>>

(* SignBlock finds a coinstake and drops what is younger than that; what   *)
(* stays keeps its place, although the places are no longer all taken.     *)
SignBlock ==
    /\ step = "signing"
    /\ \E time \in StakeTimes :
          collected' = [i \in {j \in DOMAIN collected : Time[collected[j]] <= time} |->
                            collected[i]]
    /\ step' = "checking"
    /\ UNCHANGED <<poolVars, pindexPrev>>

Sleep == step' = "sleeping" /\ pindexPrev' = None /\ collected' = << >>

NoStake == step = "signing" /\ Sleep /\ UNCHANGED poolVars

(* Mutated: CheckStake does not look whether the block is stale.           *)
CheckStakeStale ==
    /\ step = "checking" /\ pc = "idle"
    /\ step' = "submitting"
    /\ UNCHANGED <<poolVars, pindexPrev, collected>>

(* CheckStake locks cs_main: "generated block is stale", or it goes on to  *)
(* ProcessBlock.                                                           *)
CheckStake ==
    /\ step = "checking" /\ pc = "idle"
    /\ \/ pindexPrev # pindexBest /\ Sleep
       \/ pindexPrev = pindexBest /\ step' = "submitting" /\ UNCHANGED <<pindexPrev, collected>>
    /\ UNCHANGED poolVars

(* ProcessBlock takes the new block or refuses it.                         *)
Submit ==
    /\ step = "submitting"
    /\ \/ \E b \in Blocks \ {Genesis} :
             /\ Prev[b] = pindexPrev /\ TxsIn(b) \ Generated = Taken
             /\ AddToBlockIndex(b)
             /\ UNCHANGED <<pool, lists>>
       \/ UNCHANGED poolVars
    /\ Sleep

MinerStep ==
    \/ ReadBest \/ LockMain \/ Unlock \/ SignBlock \/ NoStake \/ CheckStake \/ Submit
    \/ \E t \in Txs : TakeTx(t)

(* The process ends, and its threads with it.                              *)
RestartMiner == RestartPool /\ Sleep

(* cs_main is the miner's.                                                 *)
HoldsMain == step \in {"collecting", "submitting"}

MinerNext ==
    \/ ~HoldsMain /\ PoolStep /\ UNCHANGED miner
    \/ MinerStep
    \/ RestartMiner

MinerSpec == MinerInit /\ [][MinerNext]_minerVars

-----------------------------------------------------------------------------
(* Every variable of the miner has its type.                               *)
MinerTypeOK ==
    /\ step \in {"sleeping", "waiting", "collecting", "signing", "checking",
                "submitting"}
    /\ IF step = "sleeping" THEN pindexPrev = None ELSE pindexPrev \in Blocks
    /\ DOMAIN collected \subseteq Nat /\ collected \in [DOMAIN collected -> Txs]

(* The transactions can be connected, in the order of their places, in a   *)
(* block that follows the best chain of the database.                      *)
ConnectsAsBlock(txs) ==
    \A i \in DOMAIN txs :
        /\ \A j \in DOMAIN txs : i # j => txs[i] # txs[j] /\ Vin[txs[i]] \cap Vin[txs[j]] = {}
        /\ txs[i] \notin DOMAIN disk.txindex
        /\ \A o \in Vin[txs[i]] :
              /\ o[2] < NOut[o[1]] /\ Time[o[1]] <= Time[txs[i]]
              /\ \/ \E j \in DOMAIN txs : j < i /\ txs[j] = o[1]
                 \/ /\ o[1] \in DOMAIN disk.txindex
                    /\ o[2] \notin disk.txindex[o[1]].spent
                    /\ o[1] \in Generated => ~Immature(disk.txindex[o[1]].pos, pindexBest)

(* "generated block is stale": the block that CheckStake gives to          *)
(* ProcessBlock can be connected there, although the lock was released     *)
(* after its transactions were chosen and some of them were dropped since, *)
(* and although the pool may hold transactions that conflict with the      *)
(* chain.                                                                  *)
MinedBlockConnects ==
    step = "submitting" => ConnectsAsBlock(collected)
=============================================================================
