-------------------------- MODULE StakeMinerProofs --------------------------
(***************************************************************************)
(* Proofs about TxMemPool and StakeMiner, which extends it.  The pool runs *)
(* ChainState, its two maps agree, what the chain confirms leaves it, and  *)
(* what leaves it otherwise takes its dependents along.  The miner runs    *)
(* TxMemPool, and what its thread hands to ProcessBlock can be connected   *)
(* where it does.                                                          *)
(***************************************************************************)
EXTENDS StakeMiner, ChainStateProofs, SequenceTheorems

-----------------------------------------------------------------------------
(* Every step of the pool is a step of the chain state, or none.           *)

LEMMA PoolStepRuns == PoolStep => [Next]_vars
<1>1. ASSUME NEW t \in Txs, ReceiveTx(t)
      PROVE  UNCHANGED vars
  BY <1>1 DEF ReceiveTx
<1>2. CASE DisconnectPool \/ FailPool
  BY <1>2 DEF DisconnectPool, FailPool, Next, Work
<1>3. ASSUME NEW x \in Blocks, ConnectPool(x)
      PROVE  Next
  BY <1>3 DEF ConnectPool, Next, Work
<1>4. CASE ResurrectTx \/ DeleteTx \/ RemoveTx
  BY <1>4 DEF ResurrectTx, DeleteTx, RemoveTx
<1>5. CASE ChainOnly
  BY <1>5 DEF ChainOnly, Next, Work
<1> QED
  BY <1>1, <1>2, <1>3, <1>4, <1>5 DEF PoolStep

LEMMA PoolNextRuns == [PoolNext]_poolVars => [Next]_vars
<1>1. RestartPool => Next
  BY DEF RestartPool, Next
<1>2. UNCHANGED poolVars => UNCHANGED vars
  BY DEF poolVars
<1> QED
  BY <1>1, <1>2, PoolStepRuns DEF PoolNext

(* What Reorganize and SetBestChainInner do to the pool changes nothing of *)
(* what they do to the chain.                                              *)
THEOREM PoolRunsChainState == PoolSpec => Spec
<1>1. PoolInit => Init
  BY DEF PoolInit
<1> QED
  BY <1>1, PoolNextRuns, PTL DEF PoolSpec, Spec

-----------------------------------------------------------------------------
(* The inductive invariant.  While blocks are connected, the lists name    *)
(* what the open batch adds to the index; once it is committed, what of    *)
(* the index may still be in the pool.                                     *)

RangeOf(s) == {s[i] : i \in DOMAIN s}
Listed == RangeOf(vDelete) \cup RangeOf(vtx)

ListsInv ==
    /\ pc \in {"idle", "begin", "disconnect"} => vDelete = << >> /\ vtx = << >>
    /\ Working => Listed \subseteq DOMAIN batch.txindex
    /\ Working => DOMAIN batch.txindex \subseteq DOMAIN disk.txindex \cup Listed
    /\ Committed => Listed \subseteq DOMAIN disk.txindex
    /\ pc \in {"extend", "postponed"} /\ job.cursor = job.pfork =>
          batch.txindex = disk.txindex

ConfirmedInv ==
    mapTx \cap DOMAIN disk.txindex \subseteq IF Committed THEN Listed ELSE {}

InputsInv == \A o \in DOMAIN mapNextTx : o[2] < NOut[o[1]]

PoolInv ==
    /\ PoolTypeOK
    /\ NextTxMatches
    /\ ListsInv
    /\ ConfirmedInv
    /\ InputsInv

LEMMA PoolInitInv == PoolInit => PoolInv
<1> SUFFICES ASSUME PoolInit
             PROVE  PoolInv
  OBVIOUS
<1>1. /\ mapTx = {} /\ mapNextTx = [o \in {} |-> None]
      /\ vResurrect = << >> /\ vDelete = << >> /\ vtx = << >> /\ pc = "idle"
  BY DEF PoolInit, Init
<1>2. DOMAIN mapNextTx = {}
  BY <1>1
<1> QED
  BY <1>1, <1>2 DEF PoolInv, PoolTypeOK, NextTxMatches, ListsInv, ConfirmedInv, InputsInv,
     Working, Committed

-----------------------------------------------------------------------------
(* What the operations on the pool keep.                                   *)

MapsOK ==
    /\ mapTx \subseteq Txs \ Generated
    /\ DOMAIN mapNextTx \subseteq Txs \X Nat
    /\ mapNextTx \in [DOMAIN mapNextTx -> mapTx]
    /\ NextTxMatches
    /\ InputsInv

LEMMA AcceptKeepsMaps ==
    ASSUME MapsOK, NEW t \in Txs, Acceptable(t), addUnchecked(t)
    PROVE  MapsOK' /\ mapTx' = mapTx \cup {t}
<1> USE DEF MapsOK
<1>1. /\ mapTx' = mapTx \cup {t}
      /\ mapNextTx' = [o \in DOMAIN mapNextTx \cup Vin[t] |->
                          IF o \in Vin[t] THEN t ELSE mapNextTx[o]]
  BY DEF addUnchecked
<1>2. /\ t \notin mapTx \cup Generated
      /\ Vin[t] \cap DOMAIN mapNextTx = {}
      /\ \A o \in Vin[t] : o[2] < NOut[o[1]]
  BY DEF Acceptable, InputConnects
<1>3. Vin[t] \subseteq Txs \X Nat
  BY TxAssumption
<1>4. DOMAIN mapNextTx' = DOMAIN mapNextTx \cup Vin[t]
  BY <1>1
<1>5. NextTxMatches'
  <2>1. DOMAIN mapNextTx' = UNION {Vin[u] : u \in mapTx'}
    BY <1>1, <1>4 DEF NextTxMatches
  <2>2. ASSUME NEW u \in mapTx', NEW o \in Vin[u]
        PROVE  mapNextTx'[o] = u
    BY <1>1, <1>2, <2>2 DEF NextTxMatches
  <2> QED
    BY <2>1, <2>2 DEF NextTxMatches
<1> QED
  BY <1>1, <1>2, <1>3, <1>4, <1>5 DEF InputsInv

LEMMA RemovalKeepsMaps ==
    ASSUME MapsOK, NEW S \in SUBSET mapTx, RemoveAll(S)
    PROVE  MapsOK' /\ mapTx' = mapTx \ S
<1> USE DEF MapsOK
<1>1. /\ mapTx' = mapTx \ S
      /\ mapNextTx' = [o \in DOMAIN mapNextTx \ UNION {Vin[t] : t \in S} |-> mapNextTx[o]]
  BY DEF RemoveAll
<1>2. DOMAIN mapNextTx' = DOMAIN mapNextTx \ UNION {Vin[t] : t \in S}
  BY <1>1
<1>3. NextTxMatches'
  <2>1. ASSUME NEW o
        PROVE  o \in DOMAIN mapNextTx' <=> \E u \in mapTx \ S : o \in Vin[u]
    BY <1>2, <2>1 DEF NextTxMatches
  <2>2. DOMAIN mapNextTx' = UNION {Vin[u] : u \in mapTx'}
    BY <1>1, <2>1
  <2>3. ASSUME NEW u \in mapTx', NEW o \in Vin[u]
        PROVE  mapNextTx'[o] = u
    BY <1>1, <1>2, <2>1, <2>3 DEF NextTxMatches
  <2> QED
    BY <2>2, <2>3 DEF NextTxMatches
<1>4. \A o \in DOMAIN mapNextTx' : o \in DOMAIN mapNextTx /\ mapNextTx'[o] \in mapTx'
  BY <1>1, <1>2, <1>3 DEF NextTxMatches
<1> QED
  BY <1>1, <1>2, <1>3, <1>4 DEF InputsInv

LEMMA RedundantInPool ==
    ASSUME NEW t
    PROVE  Redundant(t) \subseteq mapTx /\ (t \in mapTx => Redundant(t) = {t})
  BY DEF Redundant, Dependents

(* What spends an output of a transaction that removeConflicts reaches is  *)
(* reached, too.                                                           *)
LEMMA RedundantClosed ==
    ASSUME MapsOK, NEW h, h \notin mapTx,
           NEW t \in Redundant(h), NEW u \in mapTx, NEW o \in Vin[u], o[1] = t
    PROVE  u \in Redundant(h)
<1>1. PICK p \in Vin[h] \cap DOMAIN mapNextTx : t \in Dependents(mapNextTx[p])
  BY DEF Redundant
<1>2. o \in DOMAIN mapNextTx /\ mapNextTx[o] = u /\ o[2] < NOut[o[1]]
  BY DEF MapsOK, NextTxMatches, InputsInv
<1>3. u \in Dependents(mapNextTx[p])
  <2> SUFFICES ASSUME NEW S \in SUBSET mapTx, mapNextTx[p] \in S,
                      \A q \in DOMAIN mapNextTx :
                          q[1] \in S /\ q[2] < NOut[q[1]] => mapNextTx[q] \in S
               PROVE  u \in S
    BY DEF Dependents
  <2>1. t \in S
    BY <1>1 DEF Dependents
  <2> QED
    BY <1>2, <2>1
<1> QED
  BY <1>1, <1>3 DEF Redundant

-----------------------------------------------------------------------------
(* The lists, as sequences.                                                *)

LEMMA RangeOfParts ==
    ASSUME NEW s \in Seq(Txs)
    PROVE  /\ RangeOf(s) \subseteq Txs
           /\ s # << >> => /\ Head(s) \in Txs /\ Head(s) \in RangeOf(s)
                          /\ Tail(s) \in Seq(Txs)
                          /\ RangeOf(Tail(s)) \subseteq RangeOf(s)
                          /\ RangeOf(s) \subseteq {Head(s)} \cup RangeOf(Tail(s))
<1>1. DOMAIN s = 1 .. Len(s) /\ Len(s) \in Nat /\ \A i \in 1 .. Len(s) : s[i] \in Txs
  OBVIOUS
<1>2. RangeOf(s) \subseteq Txs
  BY <1>1 DEF RangeOf
<1>3. ASSUME s # << >>
      PROVE  /\ Head(s) \in Txs /\ Head(s) \in RangeOf(s)
             /\ Tail(s) \in Seq(Txs)
             /\ RangeOf(Tail(s)) \subseteq RangeOf(s)
             /\ RangeOf(s) \subseteq {Head(s)} \cup RangeOf(Tail(s))
  <2>1. /\ Len(s) \in Nat \ {0} /\ Head(s) = s[1]
        /\ Tail(s) \in Seq(Txs) /\ Len(Tail(s)) = Len(s) - 1
        /\ \A i \in 1 .. Len(Tail(s)) : Tail(s)[i] = s[i + 1]
    BY <1>3, HeadTailProperties, EmptySeq
  <2>2. DOMAIN Tail(s) = 1 .. Len(s) - 1
    BY <2>1
  <2>3. Head(s) \in Txs /\ Head(s) \in RangeOf(s)
    BY <1>1, <2>1 DEF RangeOf
  <2>4. RangeOf(Tail(s)) \subseteq RangeOf(s)
    <3> SUFFICES ASSUME NEW i \in 1 .. Len(s) - 1
                 PROVE  Tail(s)[i] \in RangeOf(s)
      BY <2>2 DEF RangeOf
    <3>1. Tail(s)[i] = s[i + 1] /\ i + 1 \in 1 .. Len(s)
      BY <2>1
    <3> QED
      BY <1>1, <3>1 DEF RangeOf
  <2>5. RangeOf(s) \subseteq {Head(s)} \cup RangeOf(Tail(s))
    <3> SUFFICES ASSUME NEW i \in 1 .. Len(s), i # 1
                 PROVE  s[i] \in RangeOf(Tail(s))
      BY <1>1, <2>1 DEF RangeOf
    <3>1. i - 1 \in 1 .. Len(s) - 1 /\ Tail(s)[i - 1] = s[i]
      BY <2>1
    <3> QED
      BY <2>2, <3>1 DEF RangeOf
  <2> QED
    BY <2>1, <2>3, <2>4, <2>5
<1> QED
  BY <1>2, <1>3

LEMMA RangeOfConcat ==
    ASSUME NEW s \in Seq(Txs), NEW u \in Seq(Txs)
    PROVE  s \o u \in Seq(Txs) /\ RangeOf(s \o u) = RangeOf(s) \cup RangeOf(u)
<1>1. /\ s \o u \in Seq(Txs)
      /\ Len(s \o u) = Len(s) + Len(u) /\ Len(s) \in Nat /\ Len(u) \in Nat
      /\ \A i \in 1 .. Len(s) + Len(u) :
            (s \o u)[i] = IF i <= Len(s) THEN s[i] ELSE u[i - Len(s)]
      /\ DOMAIN s = 1 .. Len(s) /\ DOMAIN u = 1 .. Len(u)
      /\ DOMAIN (s \o u) = 1 .. Len(s) + Len(u)
  BY ConcatProperties
<1>2. RangeOf(s \o u) \subseteq RangeOf(s) \cup RangeOf(u)
  <2> SUFFICES ASSUME NEW i \in 1 .. Len(s) + Len(u)
               PROVE  (s \o u)[i] \in RangeOf(s) \cup RangeOf(u)
    BY <1>1 DEF RangeOf
  <2>1. CASE i <= Len(s)
    <3>1. (s \o u)[i] = s[i] /\ i \in DOMAIN s
      BY <1>1, <2>1
    <3> QED
      BY <3>1 DEF RangeOf
  <2>2. CASE i > Len(s)
    <3>1. (s \o u)[i] = u[i - Len(s)] /\ i - Len(s) \in DOMAIN u
      BY <1>1, <2>2
    <3> QED
      BY <3>1 DEF RangeOf
  <2> QED
    BY <1>1, <2>1, <2>2
<1>3. RangeOf(s) \subseteq RangeOf(s \o u)
  <2> SUFFICES ASSUME NEW i \in DOMAIN s
               PROVE  s[i] \in RangeOf(s \o u)
    BY DEF RangeOf
  <2>1. i \in DOMAIN (s \o u) /\ (s \o u)[i] = s[i]
    BY <1>1
  <2> QED
    BY <2>1 DEF RangeOf
<1>4. RangeOf(u) \subseteq RangeOf(s \o u)
  <2> SUFFICES ASSUME NEW i \in DOMAIN u
               PROVE  u[i] \in RangeOf(s \o u)
    BY DEF RangeOf
  <2>1. i + Len(s) \in DOMAIN (s \o u) /\ (s \o u)[i + Len(s)] = u[i]
    BY <1>1
  <2> QED
    BY <2>1 DEF RangeOf
<1> QED
  BY <1>1, <1>2, <1>3, <1>4

LEMMA RangeOfNone == RangeOf(<< >>) = {} /\ << >> \in Seq(Txs)
  BY DEF RangeOf

LEMMA RangeOfBlock == ASSUME NEW b \in Blocks PROVE RangeOf(Vtx[b]) = TxsIn(b)
  BY DEF RangeOf, TxsIn

-----------------------------------------------------------------------------
(* Every step preserves the invariant.                                     *)

LEMMA ReceiveTxInv ==
    ASSUME PoolInv, NEW t \in Txs, ReceiveTx(t)
    PROVE  PoolInv'
<1>1. /\ pc = "idle" /\ Acceptable(t) /\ addUnchecked(t)
      /\ UNCHANGED <<disk, batch, pc, job, vResurrect, vDelete, vtx>>
  BY DEF ReceiveTx, vars, lists
<1>2. MapsOK' /\ mapTx' = mapTx \cup {t}
  BY <1>1, AcceptKeepsMaps DEF PoolInv, PoolTypeOK, MapsOK
<1>3. PoolTypeOK'
  BY <1>1, <1>2 DEF PoolInv, PoolTypeOK, MapsOK
<1>4. ListsInv' /\ ConfirmedInv'
  BY <1>1, <1>2 DEF PoolInv, ListsInv, ConfirmedInv, Working, Committed, Listed, RangeOf, Acceptable
<1> QED
  BY <1>2, <1>3, <1>4 DEF PoolInv, MapsOK

LEMMA DisconnectPoolInv ==
    ASSUME Inv, PoolInv, DisconnectPool
    PROVE  PoolInv'
<1>1. /\ pc = "disconnect" /\ batch' = DisconnectIn(batch, job.cursor)
      /\ pc' \in {"disconnect", "connect"}
      /\ UNCHANGED <<disk, mapTx, mapNextTx, vDelete, vtx>>
      /\ vDelete = << >> /\ vtx = << >>
  BY DEF DisconnectPool, DisconnectBlock, pool, PoolInv, ListsInv
<1>2. job.cursor \in Blocks \ {Genesis} /\ IsDatabase(batch)
  <2>1. /\ job.cursor \in Chain[pindexBest] /\ job.cursor # job.pfork
        /\ job.pfork \in Chain[job.cursor] /\ IsDatabase(batch) /\ pindexBest \in Blocks
    BY <1>1 DEF Inv, JobInv, Working, TypeOK
  <2>2. job.cursor \in Blocks
    BY <2>1, ChainBasics
  <2>3. job.cursor # Genesis
    BY <2>1, ChainGenesis
  <2> QED
    BY <2>1, <2>2, <2>3
<1>3. DOMAIN batch'.txindex = DOMAIN batch.txindex \ TxsIn(job.cursor)
  <2>1. batch'.txindex = DisconnectTxs(batch.txindex, job.cursor)
    BY <1>1, <1>2, DisconnectInType
  <2> QED
    BY <2>1 DEF DisconnectTxs
<1>4. vResurrect' \in Seq(Txs)
  <2>1. Vtx[job.cursor] \in Seq(Txs) /\ vResurrect \in Seq(Txs)
    BY <1>2, TxAssumption DEF PoolInv, PoolTypeOK
  <2> QED
    BY <2>1, RangeOfConcat DEF DisconnectPool
<1>5. PoolTypeOK' /\ NextTxMatches' /\ InputsInv'
  BY <1>1, <1>4, RangeOfNone DEF PoolInv, PoolTypeOK, NextTxMatches, InputsInv
<1>6. ListsInv' /\ ConfirmedInv'
  BY <1>1, <1>3, RangeOfNone DEF PoolInv, ListsInv, ConfirmedInv, Working, Committed, Listed
<1> QED
  BY <1>5, <1>6 DEF PoolInv

LEMMA ConnectPoolInv ==
    ASSUME Inv, PoolInv, NEW x \in Blocks, ConnectPool(x)
    PROVE  PoolInv'
<1>1. /\ pc \in {"connect", "extend", "postponed"} /\ pc' = pc
      /\ IsNextOn(x, job.cursor, job.pindexIntermediate)
      /\ batch' = ConnectIn(batch, x) /\ job' = [job EXCEPT !.cursor = x]
      /\ UNCHANGED <<disk, mapTx, mapNextTx, vResurrect>>
      /\ \/ pc = "connect" /\ vDelete' = vDelete \o Vtx[x] /\ vtx' = vtx
         \/ pc # "connect" /\ vtx' = Vtx[x] /\ vDelete' = vDelete
  BY DEF ConnectPool, ConnectBlock, pool
<1>2. x \in Blocks \ {Genesis} /\ IsDatabase(batch) /\ pnext \in [Blocks -> Blocks \cup {None}]
  BY <1>1 DEF IsNextOn, Inv, JobInv, Working, TypeOK
<1>3. DOMAIN batch'.txindex = DOMAIN batch.txindex \cup TxsIn(x)
  <2>1. batch'.txindex = ConnectTxs(batch.txindex, x)
    BY <1>1, <1>2, ConnectInType
  <2> QED
    BY <2>1 DEF ConnectTxs
<1>4. /\ Vtx[x] \in Seq(Txs) /\ vDelete \in Seq(Txs) /\ vtx \in Seq(Txs)
      /\ vDelete \o Vtx[x] \in Seq(Txs)
      /\ RangeOf(vDelete \o Vtx[x]) = RangeOf(vDelete) \cup TxsIn(x)
      /\ RangeOf(Vtx[x]) = TxsIn(x)
  <2>1. Vtx[x] \in Seq(Txs) /\ vDelete \in Seq(Txs) /\ vtx \in Seq(Txs)
    BY TxAssumption DEF PoolInv, PoolTypeOK
  <2> QED
    BY <2>1, RangeOfConcat, RangeOfBlock
<1>5. pc # "connect" => /\ DOMAIN batch.txindex = DOMAIN disk.txindex
                        /\ x # job.pfork
  <2> SUFFICES ASSUME pc # "connect"
               PROVE  DOMAIN batch.txindex = DOMAIN disk.txindex /\ x # job.pfork
    OBVIOUS
  <2>1. /\ job.cursor \in {job.pfork, job.pindexIntermediate}
        /\ job.pindexIntermediate \in Chain[job.pindexNew]
        /\ job.pindexNew \in Blocks
    BY <1>1 DEF Inv, JobInv, Working, TypeOK
  <2>2. job.pindexIntermediate \in Blocks /\ x \in Chain[job.pindexIntermediate]
    BY <1>1, <2>1, ChainBasics DEF IsNextOn
  <2>3. Prev[x] = job.cursor /\ Height[x] = Height[job.cursor] + 1
    BY <1>1, <1>2, ChainAssumption DEF IsNextOn
  <2>4. x = job.pindexIntermediate \/ Height[x] < Height[job.pindexIntermediate]
    BY <2>2, ChainBelow
  <2>5. job.cursor \in Blocks
    BY <1>2, <2>3, ChainStep
  <2>6. Height[job.cursor] \in Nat /\ Height[x] \in Nat
    BY <1>2, <2>5, ChainAssumption
  <2>7. job.cursor # job.pindexIntermediate
    BY <2>3, <2>4, <2>6
  <2>8. job.cursor = job.pfork
    BY <2>1, <2>7
  <2>9. batch.txindex = disk.txindex
    BY <1>1, <2>8 DEF PoolInv, ListsInv
  <2> QED
    BY <2>3, <2>6, <2>8, <2>9
<1>6. PoolTypeOK' /\ NextTxMatches' /\ InputsInv'
  <2>1. vDelete' \in Seq(Txs) /\ vtx' \in Seq(Txs)
    BY <1>1, <1>4
  <2> QED
    BY <1>1, <2>1 DEF PoolInv, PoolTypeOK, NextTxMatches, InputsInv
<1>7. job'.cursor = x /\ job'.pfork = job.pfork
  BY <1>1 DEF Inv, TypeOK
<1>8. /\ Listed \subseteq DOMAIN batch.txindex
      /\ DOMAIN batch.txindex \subseteq DOMAIN disk.txindex \cup Listed
  BY <1>1 DEF PoolInv, ListsInv, Working
<1>9. /\ Listed' \subseteq DOMAIN batch'.txindex
      /\ DOMAIN batch'.txindex \subseteq DOMAIN disk.txindex \cup Listed'
  <2>1. CASE pc = "connect"
    <3>1. Listed' = Listed \cup TxsIn(x)
      BY <1>1, <1>4, <2>1 DEF Listed
    <3> QED
      BY <1>3, <1>8, <3>1
  <2>2. CASE pc # "connect"
    <3>1. Listed' = RangeOf(vDelete) \cup TxsIn(x)
      BY <1>1, <1>4, <2>2 DEF Listed
    <3>2. RangeOf(vDelete) \subseteq Listed
      BY DEF Listed
    <3> QED
      BY <1>3, <1>5, <1>8, <2>2, <3>1, <3>2
  <2> QED
    BY <2>1, <2>2
<1>10. ListsInv'
  BY <1>1, <1>5, <1>7, <1>9 DEF ListsInv, Working, Committed
<1>11. ConfirmedInv'
  BY <1>1 DEF PoolInv, ConfirmedInv, Committed
<1> QED
  BY <1>6, <1>10, <1>11 DEF PoolInv

LEMMA ResurrectTxInv ==
    ASSUME PoolInv, ResurrectTx
    PROVE  PoolInv'
<1> DEFINE h == Head(vResurrect)
<1>1. /\ Committed /\ vResurrect' = Tail(vResurrect)
      /\ UNCHANGED <<disk, batch, pc, job, vDelete, vtx>>
  BY DEF ResurrectTx, vars
<1>2. h \in Txs /\ vResurrect' \in Seq(Txs)
  BY <1>1, RangeOfParts DEF ResurrectTx, PoolInv, PoolTypeOK
<1>3. /\ MapsOK'
      /\ \A t \in mapTx' : t \in mapTx \/ t \notin DOMAIN disk.txindex
  <2>1. CASE UNCHANGED pool
    BY <2>1 DEF pool, PoolInv, PoolTypeOK, MapsOK, NextTxMatches, InputsInv
  <2>2. CASE Acceptable(h) /\ addUnchecked(h)
    <3>1. MapsOK' /\ mapTx' = mapTx \cup {h}
      BY <1>2, <2>2, AcceptKeepsMaps DEF PoolInv, PoolTypeOK, MapsOK
    <3> QED
      BY <2>2, <3>1 DEF Acceptable
  <2> QED
    BY <2>1, <2>2 DEF ResurrectTx
<1>4. PoolTypeOK'
  BY <1>1, <1>2, <1>3 DEF PoolInv, PoolTypeOK, MapsOK
<1>5. ListsInv' /\ ConfirmedInv'
  BY <1>1, <1>3 DEF PoolInv, ListsInv, ConfirmedInv, Working, Committed, Listed, RangeOf
<1> QED
  BY <1>3, <1>4, <1>5 DEF PoolInv, MapsOK

LEMMA DeleteTxInv ==
    ASSUME PoolInv, DeleteTx
    PROVE  PoolInv'
<1> DEFINE h == Head(vDelete)
<1>1. /\ Committed /\ vDelete' = Tail(vDelete) /\ vDelete # << >>
      /\ RemoveAll(Redundant(h))
      /\ UNCHANGED <<disk, batch, pc, job, vResurrect, vtx>>
  BY DEF DeleteTx, vars
<1>2. /\ vDelete' \in Seq(Txs)
      /\ RangeOf(vDelete') \subseteq RangeOf(vDelete)
      /\ RangeOf(vDelete) \subseteq {h} \cup RangeOf(vDelete')
  BY <1>1, RangeOfParts DEF PoolInv, PoolTypeOK
<1>3. MapsOK' /\ mapTx' = mapTx \ Redundant(h)
  BY <1>1, RedundantInPool, RemovalKeepsMaps DEF PoolInv, PoolTypeOK, MapsOK
<1>4. PoolTypeOK'
  BY <1>1, <1>2, <1>3 DEF PoolInv, PoolTypeOK, MapsOK
<1>5. h \notin mapTx'
  BY <1>3, RedundantInPool
<1>6. Listed' \subseteq Listed /\ Listed \subseteq {h} \cup Listed'
  BY <1>1, <1>2 DEF Listed
<1>7. ListsInv' /\ ConfirmedInv'
  BY <1>1, <1>3, <1>5, <1>6 DEF PoolInv, ListsInv, ConfirmedInv, Working, Committed
<1> QED
  BY <1>3, <1>4, <1>7 DEF PoolInv, MapsOK

LEMMA RemoveTxInv ==
    ASSUME PoolInv, RemoveTx
    PROVE  PoolInv'
<1> DEFINE h == Head(vtx)
<1>1. /\ Committed /\ vtx' = Tail(vtx) /\ vtx # << >>
      /\ RemoveAll({h} \cap mapTx)
      /\ UNCHANGED <<disk, batch, pc, job, vResurrect, vDelete>>
  BY DEF RemoveTx, vars
<1>2. /\ vtx' \in Seq(Txs)
      /\ RangeOf(vtx') \subseteq RangeOf(vtx)
      /\ RangeOf(vtx) \subseteq {h} \cup RangeOf(vtx')
  BY <1>1, RangeOfParts DEF PoolInv, PoolTypeOK
<1>3. MapsOK' /\ mapTx' = mapTx \ ({h} \cap mapTx)
  BY <1>1, RemovalKeepsMaps DEF PoolInv, PoolTypeOK, MapsOK
<1>4. PoolTypeOK'
  BY <1>1, <1>2, <1>3 DEF PoolInv, PoolTypeOK, MapsOK
<1>5. h \notin mapTx'
  BY <1>3
<1>6. Listed' \subseteq Listed /\ Listed \subseteq {h} \cup Listed'
  BY <1>1, <1>2 DEF Listed
<1>7. ListsInv' /\ ConfirmedInv'
  BY <1>1, <1>3, <1>5, <1>6 DEF PoolInv, ListsInv, ConfirmedInv, Working, Committed
<1> QED
  BY <1>3, <1>4, <1>7 DEF PoolInv, MapsOK

LEMMA FailPoolInv ==
    ASSUME Inv, PoolInv, FailPool
    PROVE  PoolInv'
<1>1. /\ pc \in {"disconnect", "connect", "extend", "secondary", "postponed"}
      /\ pc' \in {"idle", "finish"}
      /\ pc = "secondary" => vDelete = << >> /\ vtx = << >>
      /\ vResurrect' = << >> /\ vDelete' = << >> /\ vtx' = << >>
      /\ UNCHANGED <<disk, mapTx, mapNextTx>>
  BY DEF FailPool, BlockFails, Return, Emptied, pool
<1>2. PoolTypeOK' /\ NextTxMatches' /\ InputsInv'
  BY <1>1, RangeOfNone DEF PoolInv, PoolTypeOK, NextTxMatches, InputsInv
<1>3. ListsInv' /\ Listed' = {}
  BY <1>1, RangeOfNone DEF ListsInv, Working, Committed, Listed
<1>4. mapTx \cap DOMAIN disk.txindex = {}
  BY <1>1, RangeOfNone DEF PoolInv, ConfirmedInv, Committed, Listed
<1> QED
  BY <1>1, <1>2, <1>3, <1>4 DEF PoolInv, ConfirmedInv

LEMMA ChainOnlyInv ==
    ASSUME Inv, PoolInv, ChainOnly
    PROVE  PoolInv'
<1>1. UNCHANGED <<mapTx, mapNextTx, vResurrect, vDelete, vtx>>
  BY DEF ChainOnly, pool, lists
<1>2. PoolTypeOK' /\ NextTxMatches' /\ InputsInv' /\ Listed' = Listed
  BY <1>1 DEF PoolInv, PoolTypeOK, NextTxMatches, InputsInv, Listed, RangeOf
<1>3. ASSUME NEW b \in Blocks, AddToBlockIndex(b)
      PROVE  ListsInv' /\ ConfirmedInv'
  <2>1. pc = "idle" /\ pc' \in {"idle", "begin"}
    BY <1>3 DEF AddToBlockIndex, Return
  <2>2. disk'.txindex = disk.txindex
    BY <1>3, NewEntryType DEF AddToBlockIndex, Inv, TypeOK
  <2> QED
    BY <1>1, <1>2, <2>1, <2>2 DEF PoolInv, ListsInv, ConfirmedInv, Working, Committed
<1>4. ASSUME SetBestChain
      PROVE  ListsInv' /\ ConfirmedInv'
  <2>1. /\ pc = "begin" /\ pc' \in {"extend", "connect", "disconnect"}
        /\ batch' = disk /\ disk' = disk
    BY <1>4 DEF SetBestChain
  <2>2. vDelete = << >> /\ vtx = << >>
    BY <2>1 DEF PoolInv, ListsInv
  <2>3. Listed' = {}
    BY <1>2, <2>2, RangeOfNone DEF Listed
  <2> QED
    BY <1>1, <2>1, <2>2, <2>3 DEF PoolInv, ListsInv, ConfirmedInv, Working, Committed
<1>5. ASSUME TxnCommit
      PROVE  ListsInv' /\ ConfirmedInv'
  <2>1. /\ pc \in {"connect", "extend", "postponed"} /\ pc' \in {"finish", "secondary"}
    BY <1>5 DEF TxnCommit
  <2>2. disk'.txindex = batch.txindex
    BY <1>5, TxnCommitEffect
  <2> QED
    BY <1>1, <1>2, <2>1, <2>2 DEF PoolInv, ListsInv, ConfirmedInv, Working, Committed
<1>6. ASSUME NEW x \in Blocks, NextSecondary(x), Emptied
      PROVE  ListsInv' /\ ConfirmedInv'
  <2>1. pc = "secondary" /\ pc' = "postponed" /\ batch' = disk /\ disk' = disk
    BY <1>6 DEF NextSecondary
  <2>2. Listed = {}
    BY <1>6, RangeOfNone DEF Emptied, Listed
  <2> QED
    BY <1>1, <1>2, <2>1, <2>2 DEF PoolInv, ListsInv, ConfirmedInv, Working, Committed
<1>7. ASSUME NewBestBlock, Emptied
      PROVE  ListsInv' /\ ConfirmedInv'
  <2>1. pc = "finish" /\ pc' = "idle" /\ disk' = disk
    BY <1>7 DEF NewBestBlock, Return
  <2>2. Listed = {} /\ vDelete = << >> /\ vtx = << >>
    BY <1>7, RangeOfNone DEF Emptied, Listed
  <2> QED
    BY <1>1, <1>2, <2>1, <2>2 DEF PoolInv, ListsInv, ConfirmedInv, Working, Committed
<1>8. ListsInv' /\ ConfirmedInv'
  BY <1>3, <1>4, <1>5, <1>6, <1>7 DEF ChainOnly
<1> QED
  BY <1>2, <1>8 DEF PoolInv

LEMMA RestartPoolInv ==
    ASSUME RestartPool
    PROVE  PoolInv'
<1>1. /\ mapTx' = {} /\ mapNextTx' = [o \in {} |-> None] /\ pc' = "idle"
      /\ vResurrect' = << >> /\ vDelete' = << >> /\ vtx' = << >>
  BY DEF RestartPool, Restart, Return
<1>2. DOMAIN mapNextTx' = {}
  BY <1>1
<1> QED
  BY <1>1, <1>2, RangeOfNone DEF PoolInv, PoolTypeOK, NextTxMatches, ListsInv, ConfirmedInv,
     InputsInv, Working, Committed

LEMMA PoolNextInv == Inv /\ PoolInv /\ [PoolNext]_poolVars => PoolInv'
<1> SUFFICES ASSUME Inv, PoolInv, [PoolNext]_poolVars
             PROVE  PoolInv'
  OBVIOUS
<1>1. CASE PoolStep
  BY <1>1, ReceiveTxInv, DisconnectPoolInv, ConnectPoolInv, ResurrectTxInv, DeleteTxInv,
     RemoveTxInv, FailPoolInv, ChainOnlyInv DEF PoolStep
<1>2. CASE RestartPool
  BY <1>2, RestartPoolInv
<1>3. CASE UNCHANGED poolVars
  <2>1. UNCHANGED <<disk, batch, pc, job, mapTx, mapNextTx, vResurrect, vDelete, vtx>>
    BY <1>3 DEF poolVars, vars, pool, lists
  <2>2. PoolTypeOK' /\ NextTxMatches' /\ InputsInv'
    BY <2>1 DEF PoolInv, PoolTypeOK, NextTxMatches, InputsInv
  <2>3. ListsInv' /\ ConfirmedInv'
    BY <2>1 DEF PoolInv, ListsInv, ConfirmedInv, Working, Committed, Listed, RangeOf
  <2> QED
    BY <2>2, <2>3 DEF PoolInv
<1> QED
  BY <1>1, <1>2, <1>3 DEF PoolNext

-----------------------------------------------------------------------------
(* The theorems.                                                           *)

LEMMA PoolInvariance == PoolSpec => []PoolInv
  BY PoolInitInv, PoolNextInv, PoolRunsChainState, Invariance, PTL DEF PoolSpec

(* The variables of the pool keep their types through AcceptToMemoryPool,  *)
(* SetBestChain, Reorganize and restarts.                                  *)
THEOREM PoolTypeCorrect == PoolSpec => []PoolTypeOK
  BY PoolInvariance, PTL DEF PoolInv

(* addUnchecked and remove keep mapNextTx, whose entries point into mapTx, *)
(* exactly as the inputs of mapTx demand.                                  *)
THEOREM NextTxAlwaysMatches == PoolSpec => []NextTxMatches
  BY PoolInvariance, PTL DEF PoolInv

(* The loops over vResurrect, vDelete and vtx together leave no confirmed  *)
(* transaction in the pool.                                                *)
THEOREM NothingConfirmedIsPooled == PoolSpec => []PoolNotConfirmed
<1>1. PoolInv => PoolNotConfirmed
  BY DEF PoolInv, ConfirmedInv, Committed, PoolNotConfirmed
<1> QED
  BY <1>1, PoolInvariance, PTL

(* What leaves the pool and is not in the new index took what spends it    *)
(* along.                                                                  *)
LEMMA LeavesWithDependents ==
    ASSUME Inv, PoolInv, [PoolNext]_poolVars,
           NEW t \in mapTx \ mapTx', t \notin DOMAIN disk'.txindex,
           NEW u \in mapTx', NEW o \in Vin[u]
    PROVE  o[1] # t
<1> SUFFICES ASSUME o[1] = t
             PROVE  FALSE
  OBVIOUS
<1>1. CASE DeleteTx
  <2> DEFINE h == Head(vDelete)
  <2>1. /\ Committed /\ disk' = disk /\ vDelete # << >> /\ RemoveAll(Redundant(h))
    BY <1>1 DEF DeleteTx, vars
  <2>2. mapTx' = mapTx \ Redundant(h)
    BY <2>1 DEF RemoveAll
  <2>3. h \in Listed /\ Listed \subseteq DOMAIN disk.txindex
    BY <2>1, RangeOfParts DEF PoolInv, PoolTypeOK, ListsInv, Listed
  <2>4. h \notin mapTx
    BY <2>1, <2>2, <2>3, RedundantInPool
  <2>5. u \in Redundant(h)
    BY <2>2, <2>4, RedundantClosed DEF PoolInv, PoolTypeOK, MapsOK
  <2> QED
    BY <2>2, <2>5
<1>2. CASE RemoveTx
  <2> DEFINE h == Head(vtx)
  <2>1. /\ Committed /\ disk' = disk /\ vtx # << >> /\ RemoveAll({h} \cap mapTx)
    BY <1>2 DEF RemoveTx, vars
  <2>2. mapTx' = mapTx \ ({h} \cap mapTx)
    BY <2>1 DEF RemoveAll
  <2>3. h \in Listed /\ Listed \subseteq DOMAIN disk.txindex
    BY <2>1, RangeOfParts DEF PoolInv, PoolTypeOK, ListsInv, Listed
  <2> QED
    BY <2>1, <2>2, <2>3
<1>3. CASE RestartPool
  BY <1>3 DEF RestartPool
<1>4. CASE ~(DeleteTx \/ RemoveTx \/ RestartPool)
  <2>1. ASSUME NEW v \in Txs, ReceiveTx(v)
        PROVE  mapTx \subseteq mapTx'
    BY <2>1 DEF ReceiveTx, addUnchecked
  <2>2. CASE ResurrectTx
    BY <2>2 DEF ResurrectTx, addUnchecked, pool
  <2>3. CASE \/ DisconnectPool \/ (\E x \in Blocks : ConnectPool(x)) \/ FailPool
             \/ ChainOnly \/ UNCHANGED poolVars
    BY <2>3 DEF DisconnectPool, ConnectPool, FailPool, ChainOnly, poolVars, pool
  <2> QED
    BY <1>4, <2>1, <2>2, <2>3 DEF PoolNext, PoolStep
<1> QED
  BY <1>1, <1>2, <1>3, <1>4

(* What removeConflicts and restarts take out of the pool, they take out   *)
(* together with its dependents.                                           *)
THEOREM DependentsLeave == PoolSpec => DependentsLeaveToo
<1>1. Inv /\ PoolInv /\ [PoolNext]_poolVars =>
          [\A t \in mapTx \ mapTx' :
              t \notin DOMAIN disk'.txindex =>
                  \A u \in mapTx' : \A o \in Vin[u] : o[1] # t]_poolVars
  BY LeavesWithDependents
<1> QED
  BY <1>1, PoolInvariance, PoolRunsChainState, Invariance, PTL DEF PoolSpec, DependentsLeaveToo

-----------------------------------------------------------------------------
(* The staking thread.                                                     *)

(* A step of the staking thread is a step of the pool's system, or none.   *)
LEMMA MinerNextRuns == [MinerNext]_minerVars => [PoolNext]_poolVars
<1>1. ASSUME MinerStep
      PROVE  [PoolNext]_poolVars
  <2>1. CASE \/ ReadBest \/ LockMain \/ Unlock \/ SignBlock \/ NoStake \/ CheckStake
             \/ \E t \in Txs : TakeTx(t)
    BY <2>1 DEF ReadBest, LockMain, Unlock, SignBlock, NoStake, CheckStake, TakeTx
  <2>2. CASE Submit
    <3>1. CASE UNCHANGED poolVars
      BY <3>1
    <3>2. ASSUME NEW b \in Blocks, AddToBlockIndex(b), UNCHANGED <<pool, lists>>
          PROVE  PoolNext
      BY <3>2 DEF PoolNext, PoolStep, ChainOnly
    <3> QED
      BY <2>2, <3>1, <3>2 DEF Submit
  <2> QED
    BY <1>1, <2>1, <2>2 DEF MinerStep
<1>2. PoolStep \/ RestartMiner => PoolNext
  BY DEF RestartMiner, PoolNext
<1>3. UNCHANGED minerVars => UNCHANGED poolVars
  BY DEF minerVars
<1> QED
  BY <1>1, <1>2, <1>3 DEF MinerNext

(* The staking thread does to the chain and to the pool only what the      *)
(* handlers of blocks and transactions do.                                 *)
THEOREM MinerRunsPool == MinerSpec => PoolSpec
<1>1. MinerInit => PoolInit
  BY DEF MinerInit
<1> QED
  BY <1>1, MinerNextRuns, PTL DEF MinerSpec, PoolSpec

-----------------------------------------------------------------------------
(* While pindexPrev is the best block and SetBestChain has committed no    *)
(* other, the index is the one that the transactions were chosen from.     *)

NotCommitted == pc \in {"idle", "begin", "disconnect", "connect", "extend"}

MinerInv ==
    /\ MinerTypeOK
    /\ step # "sleeping" => Trust[pindexPrev] <= Trust[pindexBest]
    /\ step = "collecting" => pc = "idle"
    /\ step = "submitting" => pc = "idle" /\ pindexPrev = pindexBest
    /\ step \in {"collecting", "signing"} => collected \in Seq(Txs)
    /\ /\ step \in {"collecting", "signing", "checking", "submitting"}
       /\ pindexPrev = pindexBest
       /\ NotCommitted
       => ConnectsAsBlock(collected)

LEMMA MinerInitInv == MinerInit => MinerInv
  BY DEF MinerInit, MinerInv, MinerTypeOK

(* No other thread changes the index under the same best block, unless it  *)
(* goes on to a new best block.                                            *)
LEMMA BestBlockMoves ==
    ASSUME Inv, PoolStep
    PROVE  /\ Trust[pindexBest] <= Trust[pindexBest']
           /\ pindexBest' # pindexBest => Trust[pindexBest] < Trust[pindexBest']
           /\ NotCommitted' /\ pindexBest' = pindexBest =>
                  NotCommitted /\ disk'.txindex = disk.txindex
<1>1. pindexBest \in Blocks /\ Trust[pindexBest] \in Nat
  BY ChainAssumption DEF Inv, TypeOK
<1>2. [Next]_vars
  BY PoolStepRuns
<1>3. ~TxnCommit => disk'.txindex = disk.txindex
  BY <1>2, OtherStepsKeepLedger
<1>4. CASE NewBestBlock
  <2>1. pc = "finish" /\ pindexBest' = job.pindexNew
    BY <1>4 DEF NewBestBlock
  <2>2. Trust[pindexBest] < Trust[job.pindexNew] /\ Trust[job.pindexNew] \in Nat
    BY <2>1, ChainAssumption DEF Inv, JobInv, TypeOK
  <2> QED
    BY <1>1, <2>1, <2>2
<1>5. CASE TxnCommit
  BY <1>1, <1>5 DEF TxnCommit, NotCommitted
<1>6. CASE ~NewBestBlock /\ ~TxnCommit
  <2>1. pindexBest' = pindexBest /\ (NotCommitted' => NotCommitted)
    <3>1. ASSUME NEW t \in Txs, ReceiveTx(t)
          PROVE  pindexBest' = pindexBest /\ pc' = pc
      BY <3>1 DEF ReceiveTx, vars
    <3>2. CASE ResurrectTx \/ DeleteTx \/ RemoveTx
      BY <3>2 DEF ResurrectTx, DeleteTx, RemoveTx, vars, NotCommitted
    <3>3. CASE DisconnectPool
      BY <3>3 DEF DisconnectPool, DisconnectBlock, memory, NotCommitted
    <3>4. ASSUME NEW x \in Blocks, ConnectPool(x)
          PROVE  pindexBest' = pindexBest /\ pc' = pc
      BY <3>4 DEF ConnectPool, ConnectBlock, memory
    <3>5. CASE FailPool
      BY <3>5 DEF FailPool, BlockFails, Return, memory, NotCommitted
    <3>6. CASE ChainOnly
      BY <1>6, <3>6 DEF ChainOnly, AddToBlockIndex, SetBestChain, NextSecondary, memory,
         NotCommitted
    <3> QED
      BY <3>1, <3>2, <3>3, <3>4, <3>5, <3>6 DEF PoolStep, NotCommitted
  <2> QED
    BY <1>1, <1>3, <1>6, <2>1
<1> QED
  BY <1>4, <1>5, <1>6

LEMMA OthersKeepMinerInv ==
    ASSUME Inv, Inv', MinerInv, ~HoldsMain, PoolStep, UNCHANGED miner
    PROVE  MinerInv'
<1>1. /\ step' = step /\ pindexPrev' = pindexPrev /\ collected' = collected
      /\ step \notin {"collecting", "submitting"}
  BY DEF miner, HoldsMain
<1>2. MinerTypeOK'
  BY <1>1 DEF MinerInv, MinerTypeOK
<1>3. pindexBest \in Blocks /\ pindexBest' \in Blocks /\ Trust \in [Blocks -> Nat]
  BY ChainAssumption DEF Inv, TypeOK
<1>4. step # "sleeping" => pindexPrev \in Blocks /\ Trust[pindexPrev] <= Trust[pindexBest]
  BY DEF MinerInv, MinerTypeOK
<1>5. step # "sleeping" => Trust[pindexPrev] <= Trust[pindexBest']
  BY <1>3, <1>4, BestBlockMoves
<1>6. ASSUME step \in {"signing", "checking"}, pindexPrev = pindexBest', NotCommitted'
      PROVE  ConnectsAsBlock(collected)'
  <2>1. pindexBest' = pindexBest
    BY <1>3, <1>4, <1>6, BestBlockMoves
  <2>2. NotCommitted /\ disk'.txindex = disk.txindex
    BY <1>6, <2>1, BestBlockMoves
  <2>3. ConnectsAsBlock(collected)
    BY <1>6, <2>1, <2>2 DEF MinerInv
  <2> QED
    BY <1>1, <2>1, <2>2, <2>3 DEF ConnectsAsBlock
<1> QED
  BY <1>1, <1>2, <1>5, <1>6 DEF MinerInv

-----------------------------------------------------------------------------
(* The steps of the staking thread.                                        *)

LEMMA SleepInv ==
    ASSUME Sleep
    PROVE  MinerInv'
<1>1. step' = "sleeping" /\ pindexPrev' = None /\ collected' = << >>
  BY DEF Sleep
<1>2. MinerTypeOK'
  BY <1>1 DEF MinerTypeOK
<1> QED
  BY <1>1, <1>2 DEF MinerInv

(* A transaction that is ready connects after those taken before.          *)
LEMMA TakeTxInv ==
    ASSUME PoolInv, MinerInv, NEW t \in Txs, TakeTx(t)
    PROVE  MinerInv'
<1> DEFINE n == Len(collected)
<1>1. /\ step = "collecting" /\ Ready(t) /\ MinerConnects(t)
      /\ collected' = Append(collected, t)
      /\ UNCHANGED <<disk, pc, pindexBest, step, pindexPrev>>
  BY DEF TakeTx, poolVars, vars
<1>2. /\ collected \in Seq(Txs) /\ pc = "idle"
      /\ pindexPrev \in Blocks /\ Trust[pindexPrev] <= Trust[pindexBest]
  BY <1>1 DEF MinerInv, MinerTypeOK
<1>3. /\ collected' \in Seq(Txs) /\ n \in Nat
      /\ DOMAIN collected = 1 .. n /\ DOMAIN collected' = 1 .. n + 1
      /\ collected'[n + 1] = t
      /\ \A i \in 1 .. n : collected'[i] = collected[i] /\ collected[i] \in Taken
  BY <1>1, <1>2 DEF Taken
<1>4. MinerTypeOK'
  <2>1. collected' \in [1 .. n + 1 -> Txs] /\ 1 .. n + 1 \subseteq Nat
    <3>1. Len(collected') = n + 1
      BY <1>1, <1>2
    <3> QED
      BY <1>3, <3>1, LenProperties
  <2> QED
    BY <1>1, <1>2, <1>3, <2>1 DEF MinerTypeOK
<1>5. ASSUME pindexPrev = pindexBest
      PROVE  ConnectsAsBlock(collected)'
  <2>1. ConnectsAsBlock(collected)
    BY <1>1, <1>2, <1>5 DEF MinerInv, NotCommitted
  <2>2. /\ t \in mapTx \ Taken
        /\ t \notin DOMAIN disk.txindex
    BY <1>1, <1>2 DEF Ready, PoolInv, ConfirmedInv, Committed
  <2>3. ASSUME NEW o \in Vin[t]
        PROVE  /\ \A i \in 1 .. n : o \notin Vin[collected[i]]
               /\ o[2] < NOut[o[1]] /\ Time[o[1]] <= Time[t]
               /\ \/ \E j \in 1 .. n : collected[j] = o[1]
                  \/ /\ o[1] \in DOMAIN disk.txindex
                     /\ o[2] \notin disk.txindex[o[1]].spent
                     /\ o[1] \in Generated => ~Immature(disk.txindex[o[1]].pos, pindexBest)
    <3>1. InputConnects(t, o, pindexPrev) /\ \A u \in Taken : o \notin Vin[u]
      BY <1>1 DEF MinerConnects
    <3>2. o[1] \in DOMAIN disk.txindex \cup Taken
      BY <1>1 DEF Ready
    <3>3. o[1] \in Taken => \E j \in 1 .. n : collected[j] = o[1]
      BY <1>3 DEF Taken
    <3> QED
      BY <1>3, <1>5, <3>1, <3>2, <3>3 DEF InputConnects
  <2>4. ASSUME NEW i \in 1 .. n + 1, NEW j \in 1 .. n + 1, i # j
        PROVE  collected'[i] # collected'[j] /\ Vin[collected'[i]] \cap Vin[collected'[j]] = {}
    <3>1. CASE i \in 1 .. n /\ j \in 1 .. n
      BY <1>3, <2>1, <2>4, <3>1 DEF ConnectsAsBlock
    <3>2. CASE i = n + 1 /\ j \in 1 .. n
      BY <1>3, <2>2, <2>3, <3>2
    <3>3. CASE i \in 1 .. n /\ j = n + 1
      BY <1>3, <2>2, <2>3, <3>3
    <3> QED
      BY <1>3, <2>4, <3>1, <3>2, <3>3
  <2>5. ASSUME NEW i \in 1 .. n + 1
        PROVE  /\ collected'[i] \notin DOMAIN disk.txindex
               /\ \A o \in Vin[collected'[i]] :
                     /\ o[2] < NOut[o[1]] /\ Time[o[1]] <= Time[collected'[i]]
                     /\ \/ \E j \in 1 .. n + 1 : j < i /\ collected'[j] = o[1]
                        \/ /\ o[1] \in DOMAIN disk.txindex
                           /\ o[2] \notin disk.txindex[o[1]].spent
                           /\ o[1] \in Generated => ~Immature(disk.txindex[o[1]].pos, pindexBest)
    <3>1. CASE i \in 1 .. n
      BY <1>3, <2>1, <3>1 DEF ConnectsAsBlock
    <3>2. CASE i = n + 1
      BY <1>3, <2>2, <2>3, <3>2
    <3> QED
      BY <1>3, <3>1, <3>2
  <2>6. ConnectsAsBlock(collected')
    <3> DEFINE txs == collected'
    <3>1. DOMAIN txs = 1 .. n + 1
      BY <1>3
    <3>2. \A i \in DOMAIN txs : \A j \in DOMAIN txs :
             i # j => txs[i] # txs[j] /\ Vin[txs[i]] \cap Vin[txs[j]] = {}
      BY <2>4, <3>1
    <3> HIDE DEF txs
    <3> QED
      BY <2>5, <3>1, <3>2 DEF ConnectsAsBlock, txs
  <2>7. disk' = disk /\ pindexBest' = pindexBest
    BY <1>1
  <2> QED
    BY <2>6, <2>7 DEF ConnectsAsBlock
<1> QED
  BY <1>1, <1>2, <1>3, <1>4, <1>5 DEF MinerInv

(* What stays when the younger ones are dropped still connects: an input   *)
(* is no younger than the transaction that spends it.                      *)
LEMMA SignBlockInv ==
    ASSUME MinerInv, SignBlock
    PROVE  MinerInv'
<1>1. PICK time \in StakeTimes :
          collected' = [i \in {j \in DOMAIN collected : Time[collected[j]] <= time} |->
                            collected[i]]
  BY DEF SignBlock
<1> DEFINE D == {j \in DOMAIN collected : Time[collected[j]] <= time}
<1>2. /\ step = "signing" /\ step' = "checking"
      /\ UNCHANGED <<disk, pc, pindexBest, pindexPrev>>
  BY DEF SignBlock, poolVars, vars
<1>3. /\ pindexPrev \in Blocks /\ Trust[pindexPrev] <= Trust[pindexBest]
      /\ DOMAIN collected \subseteq Nat /\ collected \in [DOMAIN collected -> Txs]
  BY <1>2 DEF MinerInv, MinerTypeOK
<1>4. DOMAIN collected' = D /\ \A i \in D : collected'[i] = collected[i]
  BY <1>1
<1>5. MinerTypeOK'
  BY <1>1, <1>2, <1>3 DEF MinerTypeOK
<1>6. time \in Nat /\ \A t \in Txs : Time[t] \in Nat
  BY MinerAssumption, PoolAssumption
<1>7. ASSUME ConnectsAsBlock(collected)
      PROVE  ConnectsAsBlock(collected)'
  <2>1. ASSUME NEW i \in D, NEW o \in Vin[collected[i]],
               NEW j \in DOMAIN collected, j < i, collected[j] = o[1],
               Time[o[1]] <= Time[collected[i]]
        PROVE  j \in D
    <3>1. Time[collected[j]] <= Time[collected[i]] /\ Time[collected[i]] <= time
      BY <2>1
    <3>2. Time[collected[j]] \in Nat /\ Time[collected[i]] \in Nat
      BY <1>3, <1>6
    <3> QED
      BY <1>6, <3>1, <3>2
  <2> HIDE DEF D
  <2>2. D \subseteq DOMAIN collected
    BY DEF D
  <2> QED
    BY <1>2, <1>4, <1>7, <2>1, <2>2 DEF ConnectsAsBlock
<1> QED
  BY <1>2, <1>3, <1>5, <1>7 DEF MinerInv, NotCommitted

LEMMA MinerStepInv ==
    ASSUME Inv, PoolInv, MinerInv, MinerStep
    PROVE  MinerInv'
<1>1. CASE ReadBest
  <2>1. /\ step' = "waiting" /\ pindexPrev' = pindexBest
        /\ UNCHANGED <<pindexBest, collected>>
    BY <1>1 DEF ReadBest, poolVars, vars
  <2>2. pindexBest \in Blocks /\ Trust[pindexBest] \in Nat
    BY ChainAssumption DEF Inv, TypeOK
  <2> QED
    BY <2>1, <2>2 DEF MinerInv, MinerTypeOK
<1>2. CASE LockMain
  <2>1. /\ step = "waiting" /\ pc = "idle" /\ step' = "collecting" /\ collected' = << >>
        /\ UNCHANGED <<pc, pindexBest, pindexPrev>>
    BY <1>2 DEF LockMain, poolVars, vars
  <2>2. collected' \in Seq(Txs) /\ DOMAIN collected' = {}
    BY <2>1
  <2>3. ConnectsAsBlock(collected)'
    BY <2>2 DEF ConnectsAsBlock
  <2>4. MinerTypeOK'
    BY <2>1, <2>2 DEF MinerInv, MinerTypeOK
  <2> QED
    BY <2>1, <2>2, <2>3, <2>4 DEF MinerInv
<1>3. CASE Unlock \/ (CheckStake /\ step' = "submitting")
  <2>1. /\ \/ step = "collecting" /\ step' = "signing"
           \/ /\ step = "checking" /\ step' = "submitting"
              /\ pc = "idle" /\ pindexPrev = pindexBest
        /\ UNCHANGED <<disk, pc, pindexBest, pindexPrev, collected>>
    BY <1>3 DEF Unlock, CheckStake, Sleep, poolVars, vars
  <2>2. MinerTypeOK'
    BY <2>1 DEF MinerInv, MinerTypeOK
  <2>3. ConnectsAsBlock(collected) => ConnectsAsBlock(collected)'
    BY <2>1 DEF ConnectsAsBlock
  <2> QED
    BY <2>1, <2>2, <2>3 DEF MinerInv, NotCommitted
<1>4. CASE SignBlock
  BY <1>4, SignBlockInv
<1>5. CASE NoStake \/ Submit \/ (CheckStake /\ Sleep)
  BY <1>5, SleepInv DEF NoStake, Submit
<1>6. ASSUME NEW t \in Txs, TakeTx(t)
      PROVE  MinerInv'
  BY <1>6, TakeTxInv
<1>7. CheckStake => Sleep \/ step' = "submitting"
  BY DEF CheckStake
<1> QED
  BY <1>1, <1>2, <1>3, <1>4, <1>5, <1>6, <1>7 DEF MinerStep

LEMMA MinerNextInv == Inv /\ Inv' /\ PoolInv /\ MinerInv /\ [MinerNext]_minerVars => MinerInv'
<1> SUFFICES ASSUME Inv, Inv', PoolInv, MinerInv, [MinerNext]_minerVars
             PROVE  MinerInv'
  OBVIOUS
<1>1. CASE UNCHANGED minerVars
  <2>1. UNCHANGED <<disk, pc, pindexBest, step, pindexPrev, collected>>
    BY <1>1 DEF minerVars, poolVars, vars, miner
  <2>2. MinerTypeOK'
    BY <2>1 DEF MinerInv, MinerTypeOK
  <2>3. ConnectsAsBlock(collected)' <=> ConnectsAsBlock(collected)
    BY <2>1 DEF ConnectsAsBlock
  <2> QED
    BY <2>1, <2>2, <2>3 DEF MinerInv, NotCommitted
<1>2. CASE RestartMiner
  BY <1>2, SleepInv DEF RestartMiner
<1> QED
  BY <1>1, <1>2, OthersKeepMinerInv, MinerStepInv DEF MinerNext

(* The variables of the staking thread keep their types.                   *)
THEOREM MinerTypeCorrect == MinerSpec => []MinerTypeOK
<1>1. MinerInv => MinerTypeOK
  BY DEF MinerInv
<1> QED
  BY <1>1, MinerInitInv, MinerNextInv, MinerRunsPool, PoolRunsChainState, Invariance,
     PoolInvariance, PTL DEF MinerSpec

(* CheckStake gives ProcessBlock only blocks whose transactions can be     *)
(* connected to the best chain of that moment.                             *)
THEOREM MinedBlocksConnect == MinerSpec => []MinedBlockConnects
<1>1. MinerInv => MinedBlockConnects
  BY DEF MinerInv, MinedBlockConnects, NotCommitted
<1> QED
  BY <1>1, MinerInitInv, MinerNextInv, MinerRunsPool, PoolRunsChainState, Invariance,
     PoolInvariance, PTL DEF MinerSpec
=============================================================================
