----------------------------- MODULE BlockIntake ----------------------------
(***************************************************************************)
(* How a full node takes in blocks: ProcessBlock with the pool of orphan   *)
(* blocks and the proof-of-stake duplicate checks, on top of ChainState.   *)
(* A block enters the index through AddToBlockIndex; when that returns,    *)
(* ProcessBlock works through the orphans that were waiting for it.        *)
(*                                                                         *)
(* A block that is refused before anything changes is a stuttering step.   *)
(* What CheckBlock and AcceptBlock require of a block beside its           *)
(* predecessor is not modelled: any orphan may turn out not acceptable.    *)
(***************************************************************************)
EXTENDS ChainState

CONSTANTS
    Stake,      \* Stake[b]: GetProofOfStake(), or None for proof of work
    MaxOrphans  \* the orphans that fit in -maxorphanblocksmib

ASSUME IntakeAssumption == MaxOrphans \in Nat /\ Genesis \in DOMAIN Stake /\ DOMAIN Stake = Blocks

VARIABLES
    mapOrphanBlocks,     \* the pool, by hash and (mapOrphanBlocksByPrev) by predecessor
    setStakeSeen,        \* the stakes of the blocks that entered the index
    setStakeSeenOrphan,  \* the stakes of the orphans
    vWorkQueue,          \* the accepted blocks whose orphans have not been processed
    accepting,           \* the block inside AcceptBlock, or None
    stranded             \* history: orphans left in the pool with a known predecessor

intake == <<mapOrphanBlocks, setStakeSeen, setStakeSeenOrphan, vWorkQueue, accepting, stranded>>
intakeVars == <<vars, intake>>

StakesOf(S) == {Stake[b] : b \in S} \ {None}
OrphansOf(b) == {o \in mapOrphanBlocks : o # Genesis /\ Prev[o] = b}

IntakeInit ==
    /\ Init
    /\ mapOrphanBlocks = {}
    /\ setStakeSeen = StakesOf({Genesis})
    /\ setStakeSeenOrphan = {}
    /\ vWorkQueue = << >>
    /\ accepting = None
    /\ stranded = {}

-----------------------------------------------------------------------------
(* The thread is outside ProcessBlock.                                     *)
Outside == pc = "idle" /\ accepting = None /\ vWorkQueue = << >>

(* The checks of ProcessBlock before it looks for the predecessor.         *)
IsNews(b) ==
    /\ b \notin mapBlockIndex \cup mapOrphanBlocks \cup {Genesis}
    /\ Stake[b] \in setStakeSeen => OrphansOf(b) # {}

(* Mutated: the stake of the new block is not noted.                       *)
AcceptBlockUnseen(b) ==
    /\ AddToBlockIndex(b)
    /\ accepting' = b
    /\ UNCHANGED setStakeSeen

(* AcceptBlock, up to the point where AddToBlockIndex has written b.       *)
AcceptBlock(b) ==
    /\ AddToBlockIndex(b)
    /\ accepting' = b
    /\ setStakeSeen' = setStakeSeen \cup StakesOf({b})

(* PruneOrphanBlocks: while there are too many, one without orphans of its *)
(* own goes; so what goes, goes with all that depends on it.               *)
IsPruning(S) ==
    /\ S \subseteq mapOrphanBlocks
    /\ \A b \in S : OrphansOf(b) \subseteq S
    /\ IF Cardinality(mapOrphanBlocks) <= MaxOrphans THEN S = {}
       ELSE Cardinality(mapOrphanBlocks \ S) = MaxOrphans

(* Mutated: pruned orphans leave their stakes behind.                      *)
ReceiveOrphanLeaky(b) ==
    /\ Outside
    /\ IsNews(b)
    /\ Prev[b] \notin mapBlockIndex
    /\ Stake[b] \in setStakeSeenOrphan => OrphansOf(b) # {}
    /\ \E S \in SUBSET mapOrphanBlocks :
          /\ IsPruning(S)
          /\ mapOrphanBlocks' = (mapOrphanBlocks \ S) \cup {b}
          /\ setStakeSeenOrphan' = setStakeSeenOrphan \cup StakesOf({b})
          /\ stranded' = stranded \ S
    /\ UNCHANGED <<vars, setStakeSeen, vWorkQueue, accepting>>

(* ProcessBlock for a block whose predecessor is unknown.                  *)
ReceiveOrphan(b) ==
    /\ Outside
    /\ IsNews(b)
    /\ Prev[b] \notin mapBlockIndex
    /\ Stake[b] \in setStakeSeenOrphan => OrphansOf(b) # {}
    /\ \E S \in SUBSET mapOrphanBlocks :
          /\ IsPruning(S)
          /\ mapOrphanBlocks' = (mapOrphanBlocks \ S) \cup {b}
          /\ setStakeSeenOrphan' = (setStakeSeenOrphan \ StakesOf(S)) \cup StakesOf({b})
          /\ stranded' = stranded \ S
    /\ UNCHANGED <<vars, setStakeSeen, vWorkQueue, accepting>>

(* ProcessBlock for a block whose predecessor is known.                    *)
ReceiveBlock(b) ==
    /\ Outside
    /\ IsNews(b)
    /\ AcceptBlock(b)
    /\ UNCHANGED <<mapOrphanBlocks, setStakeSeenOrphan, vWorkQueue, stranded>>

(* The inner loop takes an orphan of the first block of the work queue.    *)
AcceptOrphan(b) ==
    /\ pc = "idle" /\ accepting = None /\ vWorkQueue # << >>
    /\ b \in OrphansOf(Head(vWorkQueue))
    /\ AcceptBlock(b)
    /\ UNCHANGED <<mapOrphanBlocks, setStakeSeenOrphan, vWorkQueue, stranded>>

(* Mutated: the orphan stays in mapOrphanBlocks.                           *)
ForgetStakeOnly(b) ==
    /\ setStakeSeenOrphan' = setStakeSeenOrphan \ StakesOf({b} \cap mapOrphanBlocks)
    /\ UNCHANGED mapOrphanBlocks

(* What the loop forgets of b: nothing, if b came from a peer.             *)
Forget(b) ==
    /\ mapOrphanBlocks' = mapOrphanBlocks \ {b}
    /\ setStakeSeenOrphan' = setStakeSeenOrphan \ StakesOf({b} \cap mapOrphanBlocks)

(* AcceptBlock refuses the orphan, which is forgotten all the same.        *)
RefuseOrphan(b) ==
    /\ pc = "idle" /\ accepting = None /\ vWorkQueue # << >>
    /\ b \in OrphansOf(Head(vWorkQueue))
    /\ Forget(b)
    /\ stranded' = stranded \ {b}
    /\ UNCHANGED <<vars, setStakeSeen, vWorkQueue, accepting>>

(* AcceptBlock returns: its orphans are next, unless AddToBlockIndex       *)
(* failed.  Then they stay in the pool, although b is in the index.        *)
Accepted ==
    /\ pc = "idle" /\ accepting # None
    /\ accepting' = None
    /\ Forget(accepting)
    /\ \/ /\ returned
          /\ vWorkQueue' = Append(vWorkQueue, accepting)
          /\ stranded' = stranded \ {accepting}
       \/ /\ ~returned
          /\ stranded' = (stranded \cup OrphansOf(accepting)) \ {accepting}
          /\ UNCHANGED vWorkQueue
    /\ UNCHANGED <<vars, setStakeSeen>>

(* Mutated: one orphan of each block is processed, the others are not.     *)
NextInQueueEarly ==
    /\ pc = "idle" /\ accepting = None /\ vWorkQueue # << >>
    /\ vWorkQueue' = Tail(vWorkQueue)
    /\ UNCHANGED <<vars, mapOrphanBlocks, setStakeSeen, setStakeSeenOrphan, accepting, stranded>>

(* Mutated: the loop over the work queue does not advance.                 *)
NextInQueueNever ==
    /\ pc = "idle" /\ accepting = None /\ vWorkQueue # << >>
    /\ OrphansOf(Head(vWorkQueue)) = {}
    /\ UNCHANGED <<vars, intake>>

(* The first block of the work queue has no orphans left.                  *)
NextInQueue ==
    /\ pc = "idle" /\ accepting = None /\ vWorkQueue # << >>
    /\ OrphansOf(Head(vWorkQueue)) = {}
    /\ vWorkQueue' = Tail(vWorkQueue)
    /\ UNCHANGED <<vars, mapOrphanBlocks, setStakeSeen, setStakeSeenOrphan, accepting, stranded>>

(* Mutated: LoadBlockIndex makes orphans of the blocks it keeps.           *)
RestartIntakeReversed ==
    /\ Restart
    /\ setStakeSeen' = StakesOf(disk.bidx)
    /\ mapOrphanBlocks' = mapBlockIndex'
    /\ setStakeSeenOrphan' = StakesOf(mapOrphanBlocks')
    /\ vWorkQueue' = << >>
    /\ accepting' = None
    /\ stranded' = {}

(* LoadBlockIndex: it notes the stake of every block on disk, then makes   *)
(* orphans of those it drops, whether or not it has kept their             *)
(* predecessor.                                                            *)
RestartIntake ==
    /\ Restart
    /\ setStakeSeen' = StakesOf(disk.bidx)
    /\ mapOrphanBlocks' = disk.bidx \ mapBlockIndex'
    /\ setStakeSeenOrphan' = StakesOf(mapOrphanBlocks')
    /\ vWorkQueue' = << >>
    /\ accepting' = None
    /\ stranded' = {o \in mapOrphanBlocks' : Prev[o] \in mapBlockIndex'}

(* A step of SetBestChain.                                                 *)
WorkOnChain == Work /\ UNCHANGED intake

(* What the thread inside ProcessBlock does next.                          *)
Process ==
    \/ WorkOnChain
    \/ \E b \in Blocks : AcceptOrphan(b) \/ RefuseOrphan(b)
    \/ Accepted
    \/ NextInQueue

IntakeNext ==
    \/ \E b \in Blocks : ReceiveOrphan(b) \/ ReceiveBlock(b)
    \/ Process
    \/ RestartIntake

IntakeSpec == IntakeInit /\ [][IntakeNext]_intakeVars

(* The thread that has entered ProcessBlock keeps running.                 *)
FairIntake == IntakeSpec /\ WF_intakeVars(Process)

-----------------------------------------------------------------------------
(* Every variable of the intake has its type.                              *)
IntakeTypeOK ==
    /\ mapOrphanBlocks \subseteq Blocks \ {Genesis}
    /\ setStakeSeen \subseteq StakesOf(Blocks)
    /\ setStakeSeenOrphan \subseteq StakesOf(Blocks)
    /\ vWorkQueue \in Seq(Blocks)
    /\ accepting \in Blocks \cup {None}
    /\ stranded \subseteq mapOrphanBlocks

(* No block is in the pool and in the index, but for the orphan that       *)
(* AcceptBlock has just written: AlreadyHave and ProcessBlock rely on it   *)
(* to tell an orphan from a block.                                         *)
OrphansAreNotIndexed == mapOrphanBlocks \cap mapBlockIndex \subseteq {accepting}

(* An orphan whose predecessor is in the index is one that ProcessBlock is *)
(* about to process, or one of two kinds: a restart made it an orphan, or  *)
(* its predecessor entered the index in a call of AddToBlockIndex that     *)
(* failed.                                                                 *)
OrphansWait ==
    \A o \in mapOrphanBlocks :
        Prev[o] \in mapBlockIndex =>
            \/ o \in stranded
            \/ Prev[o] = accepting
            \/ \E i \in DOMAIN vWorkQueue : vWorkQueue[i] = Prev[o]

(* The stake of every block of the index is one ProcessBlock recognises,   *)
(* also after a restart.                                                   *)
StakesAreSeen == StakesOf(mapBlockIndex) \subseteq setStakeSeen

(* No stake outlives its orphans in setStakeSeenOrphan, where it would     *)
(* keep out the next orphan that has it.                                   *)
NoStakeLeak == setStakeSeenOrphan \subseteq StakesOf(mapOrphanBlocks)

(* ProcessBlock returns, whatever orphans it finds and whatever fails.     *)
ProcessReturns == ~Outside ~> Outside

(* "If don't already have its previous block, shunt it off to holding area *)
(* until we get it": outside ProcessBlock, an orphan's predecessor is one  *)
(* the node does not have.                                                 *)
OrphansWaitForParent ==
    Outside => \A o \in mapOrphanBlocks : Prev[o] \notin mapBlockIndex
=============================================================================
