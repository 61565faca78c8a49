-------------------------- MODULE BlockIntakeProofs -------------------------
(***************************************************************************)
(* Proofs about BlockIntake: it is a way of running ChainState, so that    *)
(* what is proved of the chain state holds of the node that takes blocks   *)
(* from its peers, and its pool of orphans is kept as its comments say     *)
(* except where AddToBlockIndex fails or the node restarts.                *)
(***************************************************************************)
EXTENDS BlockIntake, ChainStateProofs, SequenceTheorems

-----------------------------------------------------------------------------
(* Every step of the intake is a step of the chain state, or none.         *)

LEMMA IntakeStep == [IntakeNext]_intakeVars => [Next]_vars
<1> SUFFICES ASSUME [IntakeNext]_intakeVars
             PROVE  [Next]_vars
  OBVIOUS
<1>1. CASE UNCHANGED intakeVars
  BY <1>1 DEF intakeVars
<1>2. ASSUME NEW b \in Blocks, ReceiveOrphan(b) \/ RefuseOrphan(b)
      PROVE  UNCHANGED vars
  BY <1>2 DEF ReceiveOrphan, RefuseOrphan
<1>3. ASSUME NEW b \in Blocks, ReceiveBlock(b) \/ AcceptOrphan(b)
      PROVE  AddToBlockIndex(b)
  BY <1>3 DEF ReceiveBlock, AcceptOrphan, AcceptBlock
<1>4. CASE Accepted \/ NextInQueue
  BY <1>4 DEF Accepted, NextInQueue
<1>5. CASE WorkOnChain
  BY <1>5 DEF WorkOnChain, Next
<1>6. CASE RestartIntake
  BY <1>6 DEF RestartIntake, Next
<1> QED
  BY <1>1, <1>2, <1>3, <1>4, <1>5, <1>6 DEF IntakeNext, Process, Next

(* ProcessBlock, whatever blocks it is given, only ever drives the chain   *)
(* state the way ChainState says.                                          *)
THEOREM IntakeRunsChainState == IntakeSpec => Spec
<1>1. IntakeInit => Init
  BY DEF IntakeInit
<1> QED
  BY <1>1, IntakeStep, PTL DEF IntakeSpec, Spec

-----------------------------------------------------------------------------
(* The inductive invariant: beside the properties themselves, AcceptBlock  *)
(* is the only caller of AddToBlockIndex, and the block it accepts is in   *)
(* the index by the time anything else happens.                            *)
IntakeInv ==
    /\ IntakeTypeOK
    /\ OrphansAreNotIndexed
    /\ OrphansWait
    /\ StakesAreSeen
    /\ NoStakeLeak
    /\ pc # "idle" => accepting # None
    /\ accepting # None => accepting \in mapBlockIndex

(* Work changes neither the index nor, unless it returns, the phase.       *)
LEMMA WorkKeepsIndex == Work => mapBlockIndex' = mapBlockIndex /\ pc # "idle"
  BY DEF Work, SetBestChain, DisconnectBlock, ConnectBlock, BlockFails, TxnCommit,
     NextSecondary, NewBestBlock, memory

LEMMA IntakeInitInv == IntakeInit => IntakeInv
<1> SUFFICES ASSUME IntakeInit PROVE IntakeInv
  OBVIOUS
<1>1. /\ mapBlockIndex = {Genesis} /\ pc = "idle" /\ mapOrphanBlocks = {}
      /\ setStakeSeen = StakesOf({Genesis}) /\ setStakeSeenOrphan = {}
      /\ vWorkQueue = << >> /\ accepting = None /\ stranded = {}
  BY DEF IntakeInit, Init
<1>2. StakesOf({Genesis}) \subseteq StakesOf(Blocks)
  BY ChainAssumption DEF StakesOf
<1>3. IntakeTypeOK
  <2>1. vWorkQueue \in Seq(Blocks)
    BY <1>1
  <2> QED
    BY <1>1, <1>2, <2>1 DEF IntakeTypeOK
<1>4. OrphansWait /\ OrphansAreNotIndexed /\ StakesAreSeen /\ NoStakeLeak
  BY <1>1 DEF OrphansAreNotIndexed, OrphansWait, StakesAreSeen, NoStakeLeak
<1> QED
  BY <1>1, <1>3, <1>4 DEF IntakeInv

(* The stakes of a union, and of what remains without some blocks.         *)
LEMMA StakesOfUnion ==
    ASSUME NEW S, NEW T
    PROVE  /\ StakesOf(S \cup T) = StakesOf(S) \cup StakesOf(T)
           /\ StakesOf(S) \ StakesOf(T) \subseteq StakesOf(S \ T)
           /\ S \subseteq T => StakesOf(S) \subseteq StakesOf(T)
  BY DEF StakesOf

LEMMA AcceptBlockFacts ==
    ASSUME NEW b \in Blocks, AcceptBlock(b)
    PROVE  /\ pc = "idle" /\ b # Genesis /\ b \notin mapBlockIndex
           /\ mapBlockIndex' = mapBlockIndex \cup {b}
           /\ accepting' = b /\ b # None
           /\ setStakeSeen' = setStakeSeen \cup StakesOf({b})
  BY ChainAssumption DEF AcceptBlock, AddToBlockIndex

LEMMA ReceiveOrphanInv ==
    ASSUME IntakeInv, NEW b \in Blocks, ReceiveOrphan(b)
    PROVE  IntakeInv'
<1> USE DEF IntakeInv
<1>1. PICK S \in SUBSET mapOrphanBlocks :
        /\ mapOrphanBlocks' = (mapOrphanBlocks \ S) \cup {b}
        /\ setStakeSeenOrphan' = (setStakeSeenOrphan \ StakesOf(S)) \cup StakesOf({b})
        /\ stranded' = stranded \ S
  BY DEF ReceiveOrphan
<1>2. /\ b \notin mapBlockIndex /\ b # Genesis /\ Prev[b] \notin mapBlockIndex
      /\ pc = "idle" /\ accepting = None
      /\ mapBlockIndex' = mapBlockIndex /\ pc' = pc
      /\ setStakeSeen' = setStakeSeen /\ vWorkQueue' = vWorkQueue /\ accepting' = accepting
  BY DEF ReceiveOrphan, IsNews, Outside, vars
<1>3. IntakeTypeOK'
  <2>1. StakesOf({b}) \subseteq StakesOf(Blocks)
    BY StakesOfUnion
  <2> QED
    BY <1>1, <1>2, <2>1 DEF IntakeTypeOK
<1>4. OrphansAreNotIndexed'
  BY <1>1, <1>2 DEF OrphansAreNotIndexed
<1>5. OrphansWait'
  BY <1>1, <1>2 DEF OrphansWait
<1>6. StakesAreSeen'
  BY <1>2 DEF StakesAreSeen
<1>7. NoStakeLeak'
  <2>1. setStakeSeenOrphan \ StakesOf(S) \subseteq StakesOf(mapOrphanBlocks \ S)
    BY StakesOfUnion DEF NoStakeLeak
  <2>2. StakesOf(mapOrphanBlocks') = StakesOf(mapOrphanBlocks \ S) \cup StakesOf({b})
    BY <1>1, StakesOfUnion
  <2> QED
    BY <1>1, <2>1, <2>2 DEF NoStakeLeak
<1> QED
  BY <1>2, <1>3, <1>4, <1>5, <1>6, <1>7

(* A block from a peer, or an orphan of the first block in the queue.      *)
LEMMA AcceptBlockInv ==
    ASSUME IntakeInv, NEW b \in Blocks, AcceptBlock(b), accepting = None,
           UNCHANGED <<mapOrphanBlocks, setStakeSeenOrphan, vWorkQueue, stranded>>
    PROVE  IntakeInv'
<1> USE DEF IntakeInv
<1>1. /\ b # Genesis /\ b \notin mapBlockIndex
      /\ mapBlockIndex' = mapBlockIndex \cup {b}
      /\ accepting' = b /\ b # None
      /\ setStakeSeen' = setStakeSeen \cup StakesOf({b})
  BY AcceptBlockFacts
<1>2. /\ mapOrphanBlocks' = mapOrphanBlocks /\ setStakeSeenOrphan' = setStakeSeenOrphan
      /\ vWorkQueue' = vWorkQueue /\ stranded' = stranded
  OBVIOUS
<1>3. IntakeTypeOK'
  <2>1. StakesOf({b}) \subseteq StakesOf(Blocks)
    BY StakesOfUnion
  <2> QED
    BY <1>1, <1>2, <2>1 DEF IntakeTypeOK
<1>4. mapOrphanBlocks \cap mapBlockIndex = {}
  <2>1. None \notin Blocks
    BY ChainAssumption
  <2> QED
    BY <2>1 DEF OrphansAreNotIndexed, IntakeTypeOK
<1>5. OrphansAreNotIndexed'
  BY <1>1, <1>2, <1>4 DEF OrphansAreNotIndexed
<1>6. OrphansWait'
  <2> SUFFICES ASSUME NEW o \in mapOrphanBlocks, Prev[o] \in mapBlockIndex \cup {b}
               PROVE  \/ o \in stranded
                      \/ Prev[o] = b
                      \/ \E i \in DOMAIN vWorkQueue : vWorkQueue[i] = Prev[o]
    BY <1>1, <1>2 DEF OrphansWait
  <2>1. Prev[o] # None \/ Prev[o] \notin mapBlockIndex
    BY <1>4, ChainAssumption DEF IntakeTypeOK
  <2> QED
    BY <2>1 DEF OrphansWait
<1>7. StakesAreSeen'
  BY <1>1, StakesOfUnion DEF StakesAreSeen
<1>8. NoStakeLeak'
  BY <1>2 DEF NoStakeLeak
<1> QED
  BY <1>1, <1>3, <1>5, <1>6, <1>7, <1>8

LEMMA RefuseOrphanInv ==
    ASSUME IntakeInv, NEW b \in Blocks, RefuseOrphan(b)
    PROVE  IntakeInv'
<1> USE DEF IntakeInv
<1>1. /\ b \in mapOrphanBlocks
      /\ mapOrphanBlocks' = mapOrphanBlocks \ {b}
      /\ setStakeSeenOrphan' = setStakeSeenOrphan \ StakesOf({b})
      /\ stranded' = stranded \ {b}
      /\ mapBlockIndex' = mapBlockIndex /\ pc' = pc
      /\ setStakeSeen' = setStakeSeen /\ vWorkQueue' = vWorkQueue /\ accepting' = accepting
  <2>1. b \in mapOrphanBlocks
    BY DEF RefuseOrphan, OrphansOf
  <2>2. {b} \cap mapOrphanBlocks = {b}
    BY <2>1
  <2> QED
    BY <2>1, <2>2 DEF RefuseOrphan, Forget, vars
<1>2. IntakeTypeOK'
  BY <1>1 DEF IntakeTypeOK
<1>3. OrphansAreNotIndexed' /\ OrphansWait' /\ StakesAreSeen'
  BY <1>1 DEF OrphansAreNotIndexed, OrphansWait, StakesAreSeen
<1>4. NoStakeLeak'
  <2>1. StakesOf(mapOrphanBlocks) \ StakesOf({b}) \subseteq StakesOf(mapOrphanBlocks \ {b})
    BY StakesOfUnion
  <2> QED
    BY <1>1, <2>1 DEF NoStakeLeak
<1> QED
  BY <1>1, <1>2, <1>3, <1>4

(* AcceptBlock returns: the orphans of the block are queued or stranded.   *)
LEMMA AcceptedInv ==
    ASSUME IntakeInv, Accepted
    PROVE  IntakeInv'
<1> USE DEF IntakeInv
<1> DEFINE b == accepting
<1>1. /\ b # None /\ accepting' = None /\ pc' = "idle"
      /\ mapOrphanBlocks' = mapOrphanBlocks \ {b}
      /\ setStakeSeenOrphan' = setStakeSeenOrphan \ StakesOf({b} \cap mapOrphanBlocks)
      /\ mapBlockIndex' = mapBlockIndex /\ setStakeSeen' = setStakeSeen
  BY DEF Accepted, Forget, vars
<1>2. b \in Blocks /\ b \in mapBlockIndex
  BY <1>1 DEF IntakeTypeOK
<1>3. /\ vWorkQueue' \in Seq(Blocks)
      /\ \A i \in DOMAIN vWorkQueue : i \in DOMAIN vWorkQueue' /\ vWorkQueue'[i] = vWorkQueue[i]
      /\ stranded' \subseteq mapOrphanBlocks'
      /\ stranded \ {b} \subseteq stranded'
      /\ \/ \E i \in DOMAIN vWorkQueue' : vWorkQueue'[i] = b
         \/ OrphansOf(b) \ {b} \subseteq stranded'
  <2>1. vWorkQueue \in Seq(Blocks) /\ stranded \subseteq mapOrphanBlocks
    BY DEF IntakeTypeOK
  <2>2. CASE vWorkQueue' = Append(vWorkQueue, b) /\ stranded' = stranded \ {b}
    <3>1. /\ vWorkQueue' \in Seq(Blocks)
          /\ \A i \in DOMAIN vWorkQueue : i \in DOMAIN vWorkQueue' /\ vWorkQueue'[i] = vWorkQueue[i]
          /\ Len(vWorkQueue) + 1 \in DOMAIN vWorkQueue' /\ vWorkQueue'[Len(vWorkQueue) + 1] = b
      BY <1>2, <2>1, <2>2
    <3> QED
      BY <1>1, <2>1, <2>2, <3>1
  <2>3. CASE vWorkQueue' = vWorkQueue /\ stranded' = (stranded \cup OrphansOf(b)) \ {b}
    BY <1>1, <2>1, <2>3 DEF OrphansOf
  <2> QED
    BY <2>2, <2>3 DEF Accepted
<1>4. IntakeTypeOK'
  BY <1>1, <1>3 DEF IntakeTypeOK
<1>5. OrphansAreNotIndexed'
  BY <1>1 DEF OrphansAreNotIndexed
<1>6. OrphansWait'
  <2> SUFFICES ASSUME NEW o \in mapOrphanBlocks \ {b}, Prev[o] \in mapBlockIndex
               PROVE  \/ o \in stranded'
                      \/ \E i \in DOMAIN vWorkQueue' : vWorkQueue'[i] = Prev[o]
    BY <1>1 DEF OrphansWait
  <2>1. CASE o \in stranded
    BY <1>3, <2>1
  <2>2. CASE Prev[o] = b
    <3>1. o \in OrphansOf(b)
      BY <2>2 DEF OrphansOf, IntakeTypeOK
    <3> QED
      BY <1>3, <2>2, <3>1
  <2>3. CASE \E i \in DOMAIN vWorkQueue : vWorkQueue[i] = Prev[o]
    BY <1>3, <2>3
  <2> QED
    BY <2>1, <2>2, <2>3 DEF OrphansWait
<1>7. StakesAreSeen'
  BY <1>1 DEF StakesAreSeen
<1>8. NoStakeLeak'
  <2>1. StakesOf(mapOrphanBlocks) \ StakesOf({b} \cap mapOrphanBlocks)
           \subseteq StakesOf(mapOrphanBlocks \ ({b} \cap mapOrphanBlocks))
    BY StakesOfUnion
  <2>2. mapOrphanBlocks \ ({b} \cap mapOrphanBlocks) = mapOrphanBlocks \ {b}
    OBVIOUS
  <2> QED
    BY <1>1, <2>1, <2>2 DEF NoStakeLeak
<1> QED
  BY <1>1, <1>4, <1>5, <1>6, <1>7, <1>8

LEMMA NextInQueueInv ==
    ASSUME IntakeInv, NextInQueue
    PROVE  IntakeInv'
<1> USE DEF IntakeInv
<1>1. /\ vWorkQueue # << >> /\ OrphansOf(Head(vWorkQueue)) = {}
      /\ vWorkQueue' = Tail(vWorkQueue)
      /\ mapBlockIndex' = mapBlockIndex /\ pc' = pc /\ mapOrphanBlocks' = mapOrphanBlocks
      /\ setStakeSeen' = setStakeSeen /\ setStakeSeenOrphan' = setStakeSeenOrphan
      /\ accepting' = accepting /\ stranded' = stranded
  BY DEF NextInQueue, vars
<1>2. vWorkQueue \in Seq(Blocks) /\ Tail(vWorkQueue) \in Seq(Blocks)
  BY <1>1 DEF IntakeTypeOK
<1>3. IntakeTypeOK'
  BY <1>1, <1>2 DEF IntakeTypeOK
<1>4. OrphansWait'
  <2> SUFFICES ASSUME NEW o \in mapOrphanBlocks,
                      NEW i \in DOMAIN vWorkQueue, vWorkQueue[i] = Prev[o]
               PROVE  \E j \in DOMAIN Tail(vWorkQueue) : Tail(vWorkQueue)[j] = Prev[o]
    BY <1>1 DEF OrphansWait
  <2>1. i # 1
    <3>1. o # Genesis
      BY DEF IntakeTypeOK
    <3>2. Prev[o] # Head(vWorkQueue)
      BY <1>1, <3>1 DEF OrphansOf
    <3> QED
      BY <1>1, <1>2, <3>2
  <2>2. i - 1 \in DOMAIN Tail(vWorkQueue) /\ Tail(vWorkQueue)[i - 1] = vWorkQueue[i]
    BY <1>1, <1>2, <2>1
  <2> QED
    BY <2>2
<1> QED
  BY <1>1, <1>3, <1>4 DEF OrphansAreNotIndexed, StakesAreSeen, NoStakeLeak

LEMMA RestartIntakeInv ==
    ASSUME Inv, Inv', IntakeInv, RestartIntake
    PROVE  IntakeInv'
<1>1. /\ mapBlockIndex' = {b \in disk.bidx : Height[b] <= Height[disk.hashBestChain]}
      /\ pc' = "idle"
      /\ setStakeSeen' = StakesOf(disk.bidx)
      /\ mapOrphanBlocks' = disk.bidx \ mapBlockIndex'
      /\ setStakeSeenOrphan' = StakesOf(mapOrphanBlocks')
      /\ vWorkQueue' = << >> /\ accepting' = None
      /\ stranded' = {o \in mapOrphanBlocks' : Prev[o] \in mapBlockIndex'}
  BY DEF RestartIntake, Restart, Return
<1>2. /\ disk.bidx \subseteq Blocks /\ Genesis \in mapBlockIndex'
      /\ mapBlockIndex' \subseteq disk.bidx
  <2>1. disk.bidx \subseteq Blocks /\ disk.hashBestChain \in disk.bidx
    BY DEF Inv, TypeOK, IsDatabase, RootedInv
  <2>2. Chain[disk.hashBestChain] \subseteq disk.bidx
    BY <2>1, ClosedHoldsChains DEF Inv, RootedInv
  <2>3. Genesis \in disk.bidx
    BY <2>1, <2>2, GenesisOnChain
  <2>4. Height[Genesis] <= Height[disk.hashBestChain]
    BY <2>1, ChainAssumption
  <2> QED
    BY <1>1, <2>1, <2>3, <2>4
<1>3. IntakeTypeOK'
  <2>1. StakesOf(disk.bidx) \subseteq StakesOf(Blocks)
    BY <1>2, StakesOfUnion
  <2>2. mapOrphanBlocks' \subseteq Blocks \ {Genesis}
    BY <1>1, <1>2
  <2>3. StakesOf(mapOrphanBlocks') \subseteq StakesOf(Blocks)
    BY <2>2, StakesOfUnion
  <2>4. vWorkQueue' \in Seq(Blocks)
    BY <1>1
  <2> QED
    BY <1>1, <2>1, <2>2, <2>3, <2>4 DEF IntakeTypeOK
<1>4. OrphansAreNotIndexed' /\ OrphansWait' /\ NoStakeLeak'
  BY <1>1 DEF OrphansAreNotIndexed, OrphansWait, NoStakeLeak
<1>5. StakesAreSeen'
  BY <1>1, <1>2, StakesOfUnion DEF StakesAreSeen
<1> QED
  BY <1>1, <1>3, <1>4, <1>5 DEF IntakeInv

LEMMA IntakeNextInv == Inv /\ Inv' /\ IntakeInv /\ [IntakeNext]_intakeVars => IntakeInv'
<1> SUFFICES ASSUME Inv, Inv', IntakeInv, [IntakeNext]_intakeVars
             PROVE  IntakeInv'
  OBVIOUS
<1>1. CASE UNCHANGED intakeVars
  BY <1>1 DEF intakeVars, vars, intake, IntakeInv, IntakeTypeOK, OrphansAreNotIndexed,
     OrphansWait, StakesAreSeen, NoStakeLeak
<1>2. CASE \E b \in Blocks : ReceiveOrphan(b) \/ RefuseOrphan(b)
  BY <1>2, ReceiveOrphanInv, RefuseOrphanInv
<1>3. CASE \E b \in Blocks : ReceiveBlock(b) \/ AcceptOrphan(b)
  BY <1>3, AcceptBlockInv DEF ReceiveBlock, AcceptOrphan, Outside
<1>4. CASE Accepted \/ NextInQueue
  BY <1>4, AcceptedInv, NextInQueueInv
<1>5. CASE WorkOnChain
  <2>1. mapBlockIndex' = mapBlockIndex /\ pc # "idle"
    BY <1>5, WorkKeepsIndex DEF WorkOnChain
  <2>2. /\ mapOrphanBlocks' = mapOrphanBlocks /\ setStakeSeen' = setStakeSeen
        /\ setStakeSeenOrphan' = setStakeSeenOrphan /\ vWorkQueue' = vWorkQueue
        /\ accepting' = accepting /\ stranded' = stranded
    BY <1>5 DEF WorkOnChain, intake
  <2> QED
    BY <2>1, <2>2 DEF IntakeInv, IntakeTypeOK, OrphansAreNotIndexed,
       OrphansWait, StakesAreSeen, NoStakeLeak
<1>6. CASE RestartIntake
  BY <1>6, RestartIntakeInv
<1> QED
  BY <1>1, <1>2, <1>3, <1>4, <1>5, <1>6 DEF IntakeNext, Process

THEOREM IntakeInvariance == IntakeSpec => []IntakeInv
<1>1. IntakeSpec => []Inv
  BY IntakeRunsChainState, Invariance, PTL
<1> QED
  BY <1>1, IntakeInitInv, IntakeNextInv, PTL DEF IntakeSpec

(* ProcessBlock and LoadBlockIndex leave in the pool, with a predecessor   *)
(* the node has, only the orphans that a failed AddToBlockIndex or a       *)
(* restart has stranded.                                                   *)
THEOREM OnlyStrandedOrphansAreLeft == IntakeSpec => []OrphansWait
<1>1. IntakeInv => OrphansWait
  BY DEF IntakeInv
<1> QED
  BY <1>1, IntakeInvariance, PTL

(* mapOrphanBlocks and mapBlockIndex never share a block, except while     *)
(* ProcessBlock moves it from the one to the other.                        *)
THEOREM OrphanOrIndexed == IntakeSpec => []OrphansAreNotIndexed
<1>1. IntakeInv => OrphansAreNotIndexed
  BY DEF IntakeInv
<1> QED
  BY <1>1, IntakeInvariance, PTL

(* setStakeSeen covers the index and setStakeSeenOrphan holds no stake of  *)
(* a block that is no orphan, so that the duplicate checks of ProcessBlock *)
(* neither miss an indexed stake nor shut out an orphan for ever.          *)
THEOREM StakeSetsAreRight == IntakeSpec => [](StakesAreSeen /\ NoStakeLeak)
<1>1. IntakeInv => StakesAreSeen /\ NoStakeLeak
  BY DEF IntakeInv
<1> QED
  BY <1>1, IntakeInvariance, PTL

(* setStakeSeenOrphan forgets the stake of an orphan when the orphan goes, *)
(* to the index or out of the pool: the stake of a block that is no orphan *)
(* any more does not make ProcessBlock refuse it for ever.                 *)
THEOREM OrphanStakesGo == IntakeSpec => []NoStakeLeak
<1>1. IntakeInv => NoStakeLeak
  BY DEF IntakeInv
<1> QED
  BY <1>1, IntakeInvariance, PTL

(* Every variable of the intake has its type; in particular an orphan that *)
(* waits for nothing any more ("stranded") is in the pool.                 *)
THEOREM IntakeTypes == IntakeSpec => []IntakeTypeOK
<1>1. IntakeInv => IntakeTypeOK
  BY DEF IntakeInv
<1> QED
  BY <1>1, IntakeInvariance, PTL

(* The node that takes blocks from its peers in any order, holds orphans   *)
(* back and restarts at any step keeps a database that implements the      *)
(* abstract ledger.                                                        *)
THEOREM IntakeKeepsLedger == IntakeSpec => ImplementsLedger
  BY IntakeRunsChainState, DatabaseImplementsLedger, PTL
=============================================================================
