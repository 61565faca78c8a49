-------------------------- MODULE AnonLedgerProofs --------------------------
(***************************************************************************)
(* Proofs about AnonLedger: the records of key images and anonymous        *)
(* outputs are those of the chain, and no leftover makes the node refuse   *)
(* an honest block.                                                        *)
(***************************************************************************)
EXTENDS AnonLedger, BlockTreeProofs

(* The transactions of a block, by their place in it.                      *)
LEMMA BlockTxs ==
    ASSUME NEW b \in Blocks
    PROVE  /\ Len(Vtx[b]) \in Nat /\ DOMAIN Vtx[b] = 1 .. Len(Vtx[b])
           /\ TxsIn(b) \subseteq Txs
           /\ \A i \in 1 .. Len(Vtx[b]) : Vtx[b][i] \in TxsIn(b)
           /\ \A t \in TxsIn(b) : \E i \in 1 .. Len(Vtx[b]) : Vtx[b][i] = t
           /\ \A i, j \in 1 .. Len(Vtx[b]) : i # j => Vtx[b][i] # Vtx[b][j]
<1>1. Vtx[b] \in Seq(Txs)
  BY TxAssumption
<1> QED
  BY <1>1, TxAssumption DEF TxsIn

-----------------------------------------------------------------------------
(* What the wallets make of a block is made of its transactions one after  *)
(* the other.                                                              *)

Told(db, b, i, fConnect) ==
    IF fConnect THEN Processed(db, Vtx[b][i], Height[b]) ELSE Undone(db, Vtx[b][i])

IsTold(g, n, b, fConnect) ==
    g = [i \in 0 .. n |-> IF i = 0 THEN Now ELSE Told(g[i - 1], b, i, fConnect)]

(* The recursion over the transactions of a block is well defined: were it *)
(* not, there would be a shortest part of the block for which it is not.   *)
LEMMA ToldExists ==
    ASSUME NEW n \in Nat, NEW b, NEW fConnect
    PROVE  \E g : IsTold(g, n, b, fConnect)
<1> DEFINE T == {m \in Nat : ~ \E g : IsTold(g, m, b, fConnect)}
<1>1. SUFFICES ASSUME T # {}
               PROVE  FALSE
  OBVIOUS
<1> HIDE DEF T
<1>2. PICK m \in T : \A k \in T : m <= k
  <2>1. T \subseteq Nat
    BY DEF T
  <2> QED
    BY <1>1, <2>1, LeastOf
<1>3. m \in Nat /\ ~ \E g : IsTold(g, m, b, fConnect)
  BY <1>2 DEF T
<1>4. CASE m = 0
  <2> DEFINE h == [i \in 0 .. 0 |-> Now]
  <2>1. h = [i \in 0 .. 0 |-> IF i = 0 THEN Now ELSE Told(h[i - 1], b, i, fConnect)]
    OBVIOUS
  <2>2. IsTold(h, 0, b, fConnect)
    BY <2>1 DEF IsTold
  <2> HIDE DEF h
  <2> QED
    BY <1>3, <1>4, <2>2
<1>5. CASE m # 0
  <2>1. m - 1 \in Nat /\ m - 1 \notin T
    BY <1>2, <1>3, <1>5
  <2>2. PICK g : IsTold(g, m - 1, b, fConnect)
    BY <2>1 DEF T
  <2> DEFINE h == [i \in 0 .. m |-> IF i = m THEN Told(g[m - 1], b, m, fConnect) ELSE g[i]]
  <2>3. \A i \in 0 .. m - 1 : h[i] = g[i]
    BY <1>3
  <2>4. \A i \in 0 .. m - 1 : g[i] = IF i = 0 THEN Now ELSE Told(g[i - 1], b, i, fConnect)
    BY <2>2 DEF IsTold
  <2>5. h[m] = Told(g[m - 1], b, m, fConnect)
    BY <1>3
  <2>6. \A i \in 0 .. m : h[i] = IF i = 0 THEN Now ELSE Told(h[i - 1], b, i, fConnect)
    <3>1. ASSUME NEW i \in 0 .. m, i # m
          PROVE  h[i] = IF i = 0 THEN Now ELSE Told(h[i - 1], b, i, fConnect)
      <4>1. i \in 0 .. m - 1 /\ (i # 0 => i - 1 \in 0 .. m - 1)
        BY <1>3, <3>1
      <4> HIDE DEF h
      <4> QED
        BY <2>3, <2>4, <4>1
    <3>2. h[m] = Told(h[m - 1], b, m, fConnect)
      <4>1. m - 1 \in 0 .. m - 1
        BY <2>1
      <4>2. h[m - 1] = g[m - 1]
        BY <2>3, <4>1
      <4> HIDE DEF h
      <4> QED
        BY <2>5, <4>2
    <3> QED
      BY <1>5, <3>1, <3>2
  <2>7. h = [i \in 0 .. m |-> h[i]]
    OBVIOUS
  <2> HIDE DEF h
  <2>8. IsTold(h, m, b, fConnect)
    <3>1. [i \in 0 .. m |-> h[i]]
             = [i \in 0 .. m |-> IF i = 0 THEN Now ELSE Told(h[i - 1], b, i, fConnect)]
      BY <2>6
    <3> QED
      BY <2>7, <3>1 DEF IsTold
  <2> QED
    BY <1>3, <2>8
<1> QED
  BY <1>4, <1>5

(* The database after a block, by way of the databases after each of its   *)
(* transactions.                                                           *)
LEMMA ToldSteps ==
    ASSUME NEW b \in Blocks, NEW fConnect
    PROVE  \E g : /\ g[0] = Now
                  /\ \A i \in 1 .. Len(Vtx[b]) : g[i] = Told(g[i - 1], b, i, fConnect)
                  /\ SyncWithWallets(b, fConnect) = g[Len(Vtx[b])]
<1> DEFINE n == Len(Vtx[b])
           told == CHOOSE g : g = [i \in 0 .. n |-> IF i = 0 THEN Now ELSE Told(g[i - 1], b, i, fConnect)]
<1>1. n \in Nat
  BY BlockTxs
<1>2. SyncWithWallets(b, fConnect) = told[n]
  BY DEF SyncWithWallets, Told
<1>3. IsTold(told, n, b, fConnect)
  <2>1. \E g : IsTold(g, n, b, fConnect)
    BY <1>1, ToldExists
  <2>2. told = CHOOSE g : IsTold(g, n, b, fConnect)
    BY DEF IsTold
  <2> HIDE DEF told, n
  <2> QED
    BY <2>1, <2>2
<1> HIDE DEF told, n
<1>4. told[0] = Now
  BY <1>1, <1>3 DEF IsTold
<1>5. \A i \in 1 .. n : told[i] = Told(told[i - 1], b, i, fConnect)
  BY <1>1, <1>3 DEF IsTold
<1> QED
  BY <1>2, <1>4, <1>5 DEF n

-----------------------------------------------------------------------------
(* Where SetBestChain goes.                                                *)

(* Below the tip of a chain each of its blocks has one that follows it.    *)
LEMMA ChildOnChain ==
    ASSUME NEW tip \in Blocks, NEW a \in Chain[tip], a # tip
    PROVE  \E x \in Chain[tip] \ {Genesis} : Prev[x] = a
<1> SUFFICES ASSUME \A x \in Chain[tip] \ {Genesis} : Prev[x] # a
             PROVE  FALSE
  OBVIOUS
<1> DEFINE S == Chain[tip] \ {a}
<1>1. S \subseteq Blocks /\ tip \in S /\ \A x \in S \ {Genesis} : Prev[x] \in S
  BY ChainBasics
<1> HIDE DEF S
<1>2. Chain[tip] \subseteq S
  BY <1>1, ChainLeast
<1> QED
  BY <1>2 DEF S

LEMMA NextIsChild ==
    ASSUME NEW tip \in Blocks, cursor \in Chain[tip], cursor # tip
    PROVE  /\ NextOn(tip) \in Chain[tip] \ {Genesis}
           /\ NextOn(tip) \in Blocks /\ Prev[NextOn(tip)] = cursor
<1>1. \E x \in Chain[tip] \ {Genesis} : Prev[x] = cursor
  BY ChildOnChain
<1>2. NextOn(tip) \in Chain[tip] \ {Genesis} /\ Prev[NextOn(tip)] = cursor
  BY <1>1 DEF NextOn
<1> QED
  BY <1>2, ChainBasics

(* A block with more trust than the tip has a lowest block with more trust *)
(* on its chain: that is where the first batch goes.                       *)
LEMMA FirstBetter ==
    ASSUME NEW x \in Blocks, pindexBest \in Blocks, Trust[x] > Trust[pindexBest]
    PROVE  \E b \in Chain[x] \ {Genesis} : Trust[b] > Trust[pindexBest] /\ ~Postponed(b)
<1> DEFINE S == {b \in Chain[x] : Trust[b] > Trust[pindexBest]}
           H == {Height[b] : b \in S}
<1>1. S \subseteq Blocks /\ x \in S /\ Height \in [Blocks -> Nat] /\ Trust \in [Blocks -> Nat]
  BY ChainBasics, ChainAssumption
<1>2. PICK b \in S : \A c \in S : Height[b] <= Height[c]
  <2>1. H \subseteq Nat /\ H # {}
    BY <1>1
  <2> HIDE DEF H
  <2>2. PICK m \in H : \A k \in H : m <= k
    BY <2>1, LeastOf
  <2> QED
    BY <2>2 DEF H
<1>3. b # Genesis
  <2>1. Trust[Genesis] <= Trust[pindexBest]
    BY <1>1, GenesisOnChain, ChainBelow, ChainAssumption
  <2> QED
    BY <1>1, <2>1, ChainAssumption
<1>4. Prev[b] \in Blocks /\ Prev[b] \in Chain[x] /\ Height[b] = Height[Prev[b]] + 1
  BY <1>1, <1>3, ChainBasics, ChainAssumption
<1>5. Prev[b] \notin S
  BY <1>1, <1>2, <1>4
<1> QED
  BY <1>1, <1>3, <1>4, <1>5 DEF Postponed

JobInv ==
    /\ {hashBestChain, pindexBest, announced, target, cursor} \subseteq Blocks
    /\ pc \in {"idle", "accepted", "orphans", "batch", "pool"}
    /\ received \in Txs \cup {None} /\ (pc \in {"accepted", "orphans"} => received \in mapTx)
    /\ vResurrect \in Seq(Txs) /\ vDelete \in Seq(Txs) /\ mapTx \subseteq Txs
    /\ pc \notin {"batch", "pool"} =>
          cursor = hashBestChain /\ vResurrect = << >> /\ vDelete = << >>
    /\ pc = "batch" => /\ target \in Chain[announced]
                       /\ cursor \in Chain[hashBestChain] \cup Chain[target]
    /\ pc = "pool" => target \in Chain[announced] /\ cursor = target /\ hashBestChain = target

LEMMA DisconnectedBlock ==
    ASSUME JobInv, pc = "batch", cursor \notin Chain[target]
    PROVE  /\ cursor \in Blocks \ {Genesis} /\ cursor \in Chain[hashBestChain]
           /\ Prev[cursor] \in Blocks /\ Prev[cursor] \in Chain[hashBestChain]
<1>1. cursor \in Blocks \ {Genesis} /\ cursor \in Chain[hashBestChain]
  BY GenesisOnChain DEF JobInv
<1> QED
  BY <1>1, ChainBasics DEF JobInv

LEMMA ConnectedBlock ==
    ASSUME JobInv, pc = "batch", cursor \in Chain[target] \ {target}
    PROVE  LET b == NextOn(target)
           IN  /\ b \in Blocks \ {Genesis} /\ b \in Chain[target] /\ Prev[b] = cursor
               /\ Chain[b] = {b} \cup Chain[cursor] /\ b \notin Chain[cursor]
<1> DEFINE b == NextOn(target)
<1>1. b \in Blocks \ {Genesis} /\ b \in Chain[target] /\ Prev[b] = cursor /\ cursor \in Blocks
  BY NextIsChild DEF JobInv
<1> HIDE DEF b
<1>2. Chain[b] = {b} \cup Chain[cursor]
  BY <1>1, ChainStep
<1>3. b \notin Chain[cursor]
  <2>1. Height[b] = Height[cursor] + 1 /\ Height[cursor] \in Nat
    BY <1>1, ChainAssumption
  <2> QED
    BY <1>1, <2>1, ChainBelow
<1> QED
  BY <1>1, <1>2, <1>3 DEF b

LEMMA VtxIsSeq == \A b \in Blocks : Vtx[b] \in Seq(Txs)
BY TxAssumption

LEMMA JobInit == AnonInit => JobInv
BY ChainAssumption DEF AnonInit, JobInv

LEMMA JobStep ==
    ASSUME JobInv, [AnonNext]_anonVars
    PROVE  JobInv'
<1>1. CASE Received \/ TellWallets \/ EndTx
  <2>1. CASE Received
    <3>1. PICK t \in Txs : ReceiveTx(t) \/ AcceptOrphan(t)
      BY <2>1 DEF Received
    <3> QED
      BY <3>1 DEF ReceiveTx, AcceptOrphan, JobInv, tips, job
  <2>2. CASE TellWallets \/ EndTx
    BY <2>2 DEF TellWallets, EndTx, JobInv, tips, job
  <2> QED
    BY <1>1, <2>1, <2>2
<1>2. CASE Started
  <2>1. PICK x \in Blocks : StartSetBestChain(x)
    BY <1>2 DEF Started
  <2>2. /\ x \in Blocks /\ pindexBest \in Blocks /\ Trust[x] > Trust[pindexBest]
        /\ pc = "idle" /\ pc' = "batch" /\ announced' = x
        /\ target' = CHOOSE b \in Chain[x] \ {Genesis} : Trust[b] > Trust[pindexBest] /\ ~Postponed(b)
        /\ UNCHANGED <<tips, mapTx, received, cursor, vResurrect, vDelete>>
    BY <2>1 DEF StartSetBestChain, JobInv
  <2>3. \E b \in Chain[x] \ {Genesis} : Trust[b] > Trust[pindexBest] /\ ~Postponed(b)
    BY <2>2, FirstBetter
  <2>4. target' \in Chain[x] /\ target' \in Blocks
    <3>1. target' \in Chain[x] \ {Genesis}
      BY <2>2, <2>3
    <3> QED
      BY <3>1, ChainBasics
  <2> QED
    BY <2>2, <2>4, ChainBasics DEF JobInv, tips
<1>3. CASE Disconnect
  <2>1. cursor' = Prev[cursor] /\ pc = "batch" /\ cursor \notin Chain[target]
        /\ vResurrect' = Vtx[cursor] \o vResurrect
        /\ UNCHANGED <<tips, mapTx, received, pc, announced, target, vDelete>>
    BY <1>3 DEF Disconnect
  <2>2. vResurrect' \in Seq(Txs)
    BY <2>1, VtxIsSeq DEF JobInv
  <2> QED
    BY <2>1, <2>2, DisconnectedBlock DEF JobInv, tips
<1>4. CASE Connect
  <2>1. /\ cursor' = NextOn(target) /\ pc = "batch" /\ cursor \in Chain[target] \ {target}
        /\ vDelete' = vDelete \o Vtx[NextOn(target)]
        /\ UNCHANGED <<tips, mapTx, received, pc, announced, target, vResurrect>>
    BY <1>4 DEF Connect
  <2>2. cursor' \in Blocks /\ cursor' \in Chain[target]
    BY <2>1, ConnectedBlock
  <2>3. vDelete' \in Seq(Txs)
    BY <2>1, <2>2, VtxIsSeq DEF JobInv
  <2> QED
    BY <2>1, <2>2, <2>3 DEF JobInv, tips
<1>5. CASE GiveUp
  BY <1>5 DEF GiveUp, JobInv
<1>6. CASE Commit
  BY <1>6 DEF Commit, JobInv, job
<1>7. CASE Resurrect
  <2>1. /\ pc = "pool" /\ vResurrect # << >> /\ vResurrect' = Tail(vResurrect)
        /\ mapTx' = mapTx \cup {Head(vResurrect)} \/ UNCHANGED mapTx
        /\ UNCHANGED <<tips, received, pc, announced, target, cursor, vDelete>>
    BY <1>7 DEF Resurrect
  <2> QED
    BY <2>1 DEF JobInv, tips
<1>8. CASE Delete
  <2>1. /\ pc = "pool" /\ vDelete # << >> /\ vDelete' = Tail(vDelete)
        /\ mapTx' \subseteq mapTx
        /\ UNCHANGED <<tips, received, pc, announced, target, cursor, vResurrect>>
    BY <1>8 DEF Delete, RemoveFromPool
  <2> QED
    BY <2>1 DEF JobInv, tips
<1>9. CASE NextSecondary
  <2>1. /\ pc = "pool" /\ target # announced /\ pc' = "batch" /\ target' = NextOn(announced)
        /\ UNCHANGED <<tips, mapTx, received, announced, cursor, vResurrect, vDelete>>
    BY <1>9 DEF NextSecondary
  <2>2. announced \in Blocks /\ cursor \in Chain[announced] /\ cursor # announced
    BY <2>1 DEF JobInv
  <2>3. target' \in Chain[announced] /\ target' \in Blocks
    BY <2>1, <2>2, NextIsChild
  <2>4. cursor \in Chain[hashBestChain]
    BY <2>1, ChainBasics DEF JobInv
  <2> QED
    BY <2>1, <2>3, <2>4 DEF JobInv, tips
<1>10. CASE NewBestBlock
  BY <1>10 DEF NewBestBlock, JobInv, job
<1>11. CASE Restart
  BY <1>11 DEF Restart, JobInv
<1>12. CASE UNCHANGED anonVars
  BY <1>12 DEF anonVars, tips, job, JobInv
<1> QED
  BY <1>1, <1>2, <1>3, <1>4, <1>5, <1>6, <1>7, <1>8, <1>9, <1>10, <1>11, <1>12 DEF AnonNext

-----------------------------------------------------------------------------
(* One transaction.                                                        *)

Record(i, o, p) == [images |-> i, outputs |-> o, pool |-> p]

(* A database with its pool of images, of the right types.                 *)
Db(db) ==
    /\ db = Record(db.images, db.outputs, db.pool)
    /\ db.images \in [DOMAIN db.images -> Txs] /\ DOMAIN db.images \subseteq Coins
    /\ db.outputs \in [DOMAIN db.outputs -> Nat] /\ DOMAIN db.outputs \subseteq Coins
    /\ db.pool \in [DOMAIN db.pool -> Txs] /\ DOMAIN db.pool \subseteq Coins

LEMMA RecordFields ==
    ASSUME NEW i, NEW o, NEW p
    PROVE  /\ Record(i, o, p).images = i /\ Record(i, o, p).outputs = o
           /\ Record(i, o, p).pool = p
BY DEF Record

WithImagesOutputs(r, x, y) == [r EXCEPT !.images = x, !.outputs = y]
WithImagesPool(r, x, y) == [r EXCEPT !.images = x, !.pool = y]

LEMMA RecordChanges ==
    ASSUME NEW i, NEW o, NEW p, NEW x, NEW y
    PROVE  /\ WithImagesOutputs(Record(i, o, p), x, y) = Record(x, y, p)
           /\ WithImagesPool(Record(i, o, p), x, y) = Record(x, o, y)
<1>1. [Record(i, o, p) EXCEPT !.images = x] = Record(x, o, p)
  BY DEF Record
<1>2. [Record(x, o, p) EXCEPT !.outputs = y] = Record(x, y, p)
  BY DEF Record
<1>3. [Record(x, o, p) EXCEPT !.pool = y] = Record(x, o, y)
  BY DEF Record
<1>4. [Record(i, o, p) EXCEPT !.images = x, !.outputs = y] = Record(x, y, p)
  BY <1>1, <1>2
<1>5. [Record(i, o, p) EXCEPT !.images = x, !.pool = y] = Record(x, o, y)
  BY <1>1, <1>3
<1> QED
  BY <1>4, <1>5 DEF WithImagesOutputs, WithImagesPool

LEMMA PutFacts ==
    ASSUME NEW f, NEW x, NEW v
    PROVE  /\ DOMAIN Put(f, x, v) = DOMAIN f \cup {x}
           /\ Put(f, x, v)[x] = v
           /\ \A y \in DOMAIN f : y # x => Put(f, x, v)[y] = f[y]
BY DEF Put

LEMMA PutTyped ==
    ASSUME NEW f, NEW x, NEW R, NEW v \in R, f \in [DOMAIN f -> R]
    PROVE  Put(f, x, v) \in [DOMAIN Put(f, x, v) -> R]
BY DEF Put

LEMMA WithoutFacts ==
    ASSUME NEW f, NEW S
    PROVE  /\ DOMAIN Without(f, S) = DOMAIN f \ S
           /\ \A y \in DOMAIN f \ S : Without(f, S)[y] = f[y]
BY DEF Without

LEMMA WithoutTyped ==
    ASSUME NEW f, NEW S, NEW R, f \in [DOMAIN f -> R]
    PROVE  Without(f, S) \in [DOMAIN Without(f, S) -> R]
BY DEF Without

(* What is written of a transaction: its image, and its coin's height.     *)
Imaged(map, t) == IF Spends[t] = None THEN map ELSE Put(map, Spends[t], t)
Coined(map, t, height) == IF Creates[t] = None THEN map ELSE Put(map, Creates[t], height)

LEMMA TxTypes ==
    ASSUME NEW t \in Txs
    PROVE  /\ t # None /\ Ring[t] \subseteq Coins
           /\ Spends[t] # None => Spends[t] \in Coins
           /\ Creates[t] # None => Creates[t] \in Coins
           /\ Spends[t] = None => Ring[t] = {}
BY AnonAssumption

LEMMA ImagedTyped ==
    ASSUME NEW map, map \in [DOMAIN map -> Txs], DOMAIN map \subseteq Coins, NEW t \in Txs
    PROVE  Imaged(map, t) \in [DOMAIN Imaged(map, t) -> Txs] /\ DOMAIN Imaged(map, t) \subseteq Coins
<1>1. Put(map, Spends[t], t) \in [DOMAIN Put(map, Spends[t], t) -> Txs]
  BY PutTyped
<1>2. DOMAIN Put(map, Spends[t], t) = DOMAIN map \cup {Spends[t]}
  BY DEF Put
<1> QED
  BY <1>1, <1>2, TxTypes DEF Imaged

LEMMA CoinedTyped ==
    ASSUME NEW map, map \in [DOMAIN map -> Nat], DOMAIN map \subseteq Coins,
           NEW t \in Txs, NEW height \in Nat
    PROVE  /\ Coined(map, t, height) \in [DOMAIN Coined(map, t, height) -> Nat]
           /\ DOMAIN Coined(map, t, height) \subseteq Coins
<1>1. Put(map, Creates[t], height) \in [DOMAIN Put(map, Creates[t], height) -> Nat]
  BY PutTyped
<1>2. DOMAIN Put(map, Creates[t], height) = DOMAIN map \cup {Creates[t]}
  BY DEF Put
<1> QED
  BY <1>1, <1>2, TxTypes DEF Coined

LEMMA UpdatedIs ==
    ASSUME NEW i, NEW o, NEW p, NEW t, NEW height
    PROVE  Updated(Record(i, o, p), t, height) =
             IF Creates[t] # None /\ Creates[t] \notin DOMAIN o THEN Record(i, o, p)
             ELSE Record(Imaged(i, t), Coined(o, t, height), p)
<1> DEFINE db == Record(i, o, p)
           x == IF Spends[t] = None THEN db.images ELSE Put(db.images, Spends[t], t)
           y == IF Creates[t] = None THEN db.outputs ELSE Put(db.outputs, Creates[t], height)
<1>1. Updated(db, t, height) = IF Creates[t] # None /\ Creates[t] \notin DOMAIN db.outputs THEN db
                               ELSE [db EXCEPT !.images = x, !.outputs = y]
  BY DEF Updated
<1>2. db.images = i /\ db.outputs = o
  BY RecordFields
<1>3. x = Imaged(i, t) /\ y = Coined(o, t, height)
  BY <1>2 DEF Imaged, Coined
<1> HIDE DEF x, y
<1>4. [db EXCEPT !.images = x, !.outputs = y] = Record(x, y, p)
  <2>1. WithImagesOutputs(db, x, y) = Record(x, y, p)
    BY RecordChanges
  <2> QED
    BY <2>1 DEF WithImagesOutputs
<1> QED
  BY <1>1, <1>2, <1>3, <1>4

Unshown(db, t) == IF Spends[t] # None /\ ShownBy(db, Spends[t]) = t
                  THEN Without(db.images, {Spends[t]}) ELSE db.images

LEMMA UndoneIs ==
    ASSUME NEW db, Db(db), NEW t
    PROVE  Undone(db, t) = Record(Unshown(db, t), Without(db.outputs, {Creates[t]}), db.pool)
<1> DEFINE x == Unshown(db, t)
           y == Without(db.outputs, {Creates[t]})
           i == db.images
           o == db.outputs
           p == db.pool
<1>1. Undone(db, t) = [db EXCEPT !.images = x, !.outputs = y]
  BY DEF Undone, Unshown
<1>2. db = Record(i, o, p)
  BY DEF Db
<1> HIDE DEF x, y, i, o, p
<1>3. [db EXCEPT !.images = x, !.outputs = y] = Record(x, y, p)
  <2>1. WithImagesOutputs(db, x, y) = Record(x, y, p)
    BY <1>2, RecordChanges
  <2> QED
    BY <2>1 DEF WithImagesOutputs
<1> QED
  BY <1>1, <1>3 DEF x, y, p

(* ProcessAnonTransaction for the pool: nothing, the same as               *)
(* UpdateAnonTransaction, or an image of the pool and an unconfirmed coin. *)
LEMMA ProcessedForPool ==
    ASSUME NEW i, NEW o, NEW p, NEW t \in Txs
    PROVE  LET db == Record(i, o, p)
               known == Creates[t] # None /\ Creates[t] \in DOMAIN o
               shown == Spends[t] # None /\ ShownBy(db, Spends[t]) = t
           IN  \/ Processed(db, t, 0) = db
               \/ /\ shown /\ (Creates[t] # None => known)
                  /\ Processed(db, t, 0) = Record(Imaged(i, t), Coined(o, t, 0), p)
               \/ Processed(db, t, 0)
                     = Record(i, IF known THEN o ELSE Coined(o, t, 0), Imaged(p, t))
<1> DEFINE db == Record(i, o, p)
           image == Spends[t]
           coin == Creates[t]
           shown == IF image = None THEN None ELSE ShownBy(db, image)
           written == Record(i, o, Imaged(p, t))
<1>1. [db EXCEPT !.images = IF image = None \/ 0 = 0 THEN @ ELSE Put(@, image, t),
                 !.pool = IF image = None \/ 0 # 0 THEN @ ELSE Put(@, image, t)] = written
  <2> DEFINE x == IF image = None \/ 0 = 0 THEN db.images ELSE Put(db.images, image, t)
             y == IF image = None \/ 0 # 0 THEN db.pool ELSE Put(db.pool, image, t)
  <2>1. x = i /\ y = Imaged(p, t)
    BY RecordFields DEF Imaged
  <2> HIDE DEF x, y
  <2>2. [db EXCEPT !.images = x, !.pool = y] = Record(x, o, y)
    <3>1. WithImagesPool(db, x, y) = Record(x, o, y)
      BY RecordChanges
    <3> QED
      BY <3>1 DEF WithImagesPool
  <2> QED
    BY <2>1, <2>2 DEF x, y
<1>2. [written EXCEPT !.outputs = Put(@, coin, 0)] = Record(i, Put(o, coin, 0), Imaged(p, t))
  BY DEF Record
<1>3. [db EXCEPT !.pool = written.pool] = written
  BY DEF Record
<1>4. db.outputs = o
  BY RecordFields
<1>5. Processed(db, t, 0) =
        IF shown = t THEN Updated(db, t, 0)
        ELSE IF shown \in InSystem(hashBestChain) \cup mapTx \/ ~RingUsable(db, t) THEN db
        ELSE IF coin = None THEN written
        ELSE IF coin \notin DOMAIN o THEN [written EXCEPT !.outputs = Put(@, coin, 0)]
        ELSE [db EXCEPT !.pool = written.pool]
  BY <1>1, <1>4 DEF Processed
<1>6. shown = t => Spends[t] # None /\ ShownBy(db, Spends[t]) = t
  BY TxTypes
<1>7. Updated(db, t, 0) = IF coin # None /\ coin \notin DOMAIN o THEN db
                          ELSE Record(Imaged(i, t), Coined(o, t, 0), p)
  BY UpdatedIs
<1> HIDE DEF shown, written, db
<1>8. CASE shown = t
  BY <1>5, <1>6, <1>7, <1>8 DEF db
<1>9. CASE shown # t /\ (shown \in InSystem(hashBestChain) \cup mapTx \/ ~RingUsable(db, t))
  BY <1>5, <1>9 DEF db
<1>10. CASE shown # t /\ ~(shown \in InSystem(hashBestChain) \cup mapTx \/ ~RingUsable(db, t))
  <2>1. CASE coin = None
    BY <1>5, <1>10, <2>1 DEF Coined, written, db
  <2>2. CASE coin # None /\ coin \notin DOMAIN o
    BY <1>2, <1>5, <1>10, <2>2 DEF Coined, db
  <2>3. CASE coin # None /\ coin \in DOMAIN o
    BY <1>3, <1>5, <1>10, <2>3 DEF written, db
  <2> QED
    BY <2>1, <2>2, <2>3
<1> QED
  BY <1>8, <1>9, <1>10

(* ProcessAnonTransaction for a block: nothing, or image and coin.         *)
LEMMA ProcessedForBlock ==
    ASSUME NEW i, NEW o, NEW p, NEW t \in Txs, NEW height \in Nat \ {0}
    PROVE  LET db == Record(i, o, p)
               shown == IF Spends[t] = None THEN None ELSE ShownBy(db, Spends[t])
               noted == Record(Imaged(i, t), Coined(o, t, height), p)
           IN  /\ Processed(db, t, height) \in {db, noted}
               /\ shown = t /\ (Creates[t] # None => Creates[t] \in DOMAIN o)
                     => Processed(db, t, height) = noted
               /\ shown # t /\ shown \notin InSystem(hashBestChain) \cup mapTx /\ RingUsable(db, t)
                     => Processed(db, t, height) = noted
<1> DEFINE db == Record(i, o, p)
           image == Spends[t]
           coin == Creates[t]
           shown == IF image = None THEN None ELSE ShownBy(db, image)
           noted == Record(Imaged(i, t), Coined(o, t, height), p)
           written == Record(Imaged(i, t), o, p)
<1>1. [db EXCEPT !.images = IF image = None \/ height = 0 THEN @ ELSE Put(@, image, t),
                 !.pool = IF image = None \/ height # 0 THEN @ ELSE Put(@, image, t)] = written
  <2> DEFINE x == IF image = None \/ height = 0 THEN db.images ELSE Put(db.images, image, t)
             y == IF image = None \/ height # 0 THEN db.pool ELSE Put(db.pool, image, t)
  <2>1. x = Imaged(i, t) /\ y = p
    BY RecordFields DEF Imaged
  <2> HIDE DEF x, y
  <2>2. [db EXCEPT !.images = x, !.pool = y] = Record(x, o, y)
    <3>1. WithImagesPool(db, x, y) = Record(x, o, y)
      BY RecordChanges
    <3> QED
      BY <3>1 DEF WithImagesPool
  <2> QED
    BY <2>1, <2>2 DEF x, y
<1>2. [written EXCEPT !.outputs = Put(@, coin, height)] = Record(Imaged(i, t), Put(o, coin, height), p)
  BY DEF Record
<1>3. db.outputs = o
  BY RecordFields
<1>4. Processed(db, t, height) =
        IF shown = t THEN Updated(db, t, height)
        ELSE IF shown \in InSystem(hashBestChain) \cup mapTx \/ ~RingUsable(db, t) THEN db
        ELSE IF coin = None THEN written
        ELSE IF coin \notin DOMAIN o THEN [written EXCEPT !.outputs = Put(@, coin, height)]
        ELSE Updated(written, t, height)
  BY <1>1, <1>3 DEF Processed
<1>5. Updated(db, t, height) = IF coin # None /\ coin \notin DOMAIN o THEN db ELSE noted
  BY UpdatedIs
<1>6. coin = None => written = noted
  BY DEF Coined
<1>7. coin # None => [written EXCEPT !.outputs = Put(@, coin, height)] = noted
  BY <1>2 DEF Coined
<1>8. coin # None /\ coin \in DOMAIN o => Updated(written, t, height) = noted
  <2>1. Imaged(Imaged(i, t), t) = Imaged(i, t)
    BY DEF Imaged, Put
  <2>2. Updated(written, t, height) =
          IF coin # None /\ coin \notin DOMAIN o THEN written
          ELSE Record(Imaged(Imaged(i, t), t), Coined(o, t, height), p)
    BY UpdatedIs
  <2> QED
    BY <2>1, <2>2
<1> HIDE DEF shown, written, noted, db
<1>9. Processed(db, t, height) \in {db, noted}
  BY <1>4, <1>5, <1>6, <1>7, <1>8
<1>10. shown = t /\ (coin # None => coin \in DOMAIN o) => Processed(db, t, height) = noted
  BY <1>4, <1>5
<1>11. shown # t /\ shown \notin InSystem(hashBestChain) \cup mapTx /\ RingUsable(db, t)
          => Processed(db, t, height) = noted
  BY <1>4, <1>6, <1>7, <1>8
<1> QED
  BY <1>9, <1>10, <1>11 DEF shown, noted, db

-----------------------------------------------------------------------------
(* Types.                                                                  *)

LEMMA DbIs ==
    ASSUME NEW i, NEW o, NEW p,
           i \in [DOMAIN i -> Txs], DOMAIN i \subseteq Coins,
           o \in [DOMAIN o -> Nat], DOMAIN o \subseteq Coins,
           p \in [DOMAIN p -> Txs], DOMAIN p \subseteq Coins
    PROVE  Db(Record(i, o, p))
BY RecordFields DEF Db

LEMMA ProcessedTyped ==
    ASSUME NEW db, Db(db), NEW t \in Txs, NEW height \in Nat
    PROVE  Db(Processed(db, t, height))
<1> DEFINE i == db.images
           o == db.outputs
           p == db.pool
<1>1. /\ db = Record(i, o, p)
      /\ i \in [DOMAIN i -> Txs] /\ DOMAIN i \subseteq Coins
      /\ o \in [DOMAIN o -> Nat] /\ DOMAIN o \subseteq Coins
      /\ p \in [DOMAIN p -> Txs] /\ DOMAIN p \subseteq Coins
  BY DEF Db
<1> HIDE DEF i, o, p
<1>2. Db(Record(Imaged(i, t), Coined(o, t, height), p)) /\ Db(Record(i, o, Imaged(p, t)))
      /\ Db(Record(i, Coined(o, t, height), Imaged(p, t)))
  BY <1>1, ImagedTyped, CoinedTyped, DbIs
<1>3. CASE height = 0
  <2>1. \/ Processed(db, t, 0) = db
        \/ Processed(db, t, 0) = Record(Imaged(i, t), Coined(o, t, 0), p)
        \/ Processed(db, t, 0) = Record(i, o, Imaged(p, t))
        \/ Processed(db, t, 0) = Record(i, Coined(o, t, 0), Imaged(p, t))
    BY <1>1, ProcessedForPool
  <2> QED
    BY <1>2, <1>3, <2>1
<1>4. CASE height # 0
  <2>1. Processed(db, t, height) \in {db, Record(Imaged(i, t), Coined(o, t, height), p)}
    BY <1>1, <1>4, ProcessedForBlock
  <2> QED
    BY <1>2, <2>1
<1> QED
  BY <1>3, <1>4

LEMMA UndoneTyped ==
    ASSUME NEW db, Db(db), NEW t
    PROVE  Db(Undone(db, t))
<1> DEFINE i == Unshown(db, t)
           o == Without(db.outputs, {Creates[t]})
           p == db.pool
<1>1. Undone(db, t) = Record(i, o, p)
  BY UndoneIs
<1>2. i \in [DOMAIN i -> Txs] /\ DOMAIN i \subseteq Coins
  <2>1. Without(db.images, {Spends[t]}) \in [DOMAIN Without(db.images, {Spends[t]}) -> Txs]
        /\ DOMAIN Without(db.images, {Spends[t]}) = DOMAIN db.images \ {Spends[t]}
    BY WithoutFacts, WithoutTyped DEF Db
  <2> QED
    BY <2>1 DEF Unshown, Db
<1>3. o \in [DOMAIN o -> Nat] /\ DOMAIN o \subseteq Coins
  <2>1. DOMAIN o = DOMAIN db.outputs \ {Creates[t]}
    BY WithoutFacts
  <2> QED
    BY <2>1, WithoutTyped DEF Db
<1>4. p \in [DOMAIN p -> Txs] /\ DOMAIN p \subseteq Coins
  BY DEF Db
<1> HIDE DEF i, o, p
<1> QED
  BY <1>1, <1>2, <1>3, <1>4, DbIs

(* Were a transaction of a block the first to spoil the types, it would    *)
(* have spoilt them by itself.                                             *)
LEMMA SyncTyped ==
    ASSUME Db(Now), NEW b \in Blocks, NEW fConnect
    PROVE  Db(SyncWithWallets(b, fConnect))
<1> DEFINE n == Len(Vtx[b])
<1>1. PICK g : /\ g[0] = Now
               /\ \A i \in 1 .. n : g[i] = Told(g[i - 1], b, i, fConnect)
               /\ SyncWithWallets(b, fConnect) = g[n]
  BY ToldSteps
<1>2. n \in Nat /\ \A i \in 1 .. n : Vtx[b][i] \in Txs
  BY BlockTxs
<1>3. Height[b] \in Nat
  BY ChainAssumption
<1> HIDE DEF n
<1>4. \A i \in 1 .. n : Db(g[i - 1]) => Db(g[i])
  BY <1>1, <1>2, <1>3, ProcessedTyped, UndoneTyped DEF Told
<1> DEFINE T == {i \in 0 .. n : ~Db(g[i])}
<1>5. T = {}
  <2>1. SUFFICES ASSUME T # {}
                 PROVE  FALSE
    OBVIOUS
  <2>2. PICK m \in T : \A k \in T : m <= k
    <3>1. T \subseteq Nat
      BY <1>2
    <3> HIDE DEF T
    <3> QED
      BY <2>1, <3>1, LeastOf
  <2>3. m # 0
    BY <1>1
  <2>4. m - 1 \in 0 .. n /\ m - 1 \notin T /\ m \in 1 .. n
    BY <1>2, <2>2, <2>3
  <2> QED
    BY <1>4, <2>4
<1> QED
  BY <1>1, <1>2, <1>5

TypeInv == JobInv /\ Db(Now)

LEMMA NowIs == Now = Record(keyImages, anonOutputs, mapKeyImage)
BY DEF Now, Record

LEMMA CommitsTyped ==
    ASSUME NEW db, Db(db), Commits(db)
    PROVE  Db(Now)'
BY DEF Db, Commits, Now, Record

LEMMA TypeStep ==
    ASSUME TypeInv, [AnonNext]_anonVars
    PROVE  TypeInv'
<1>1. JobInv' /\ JobInv /\ Db(Now)
  BY JobStep DEF TypeInv
<1>2. CASE UNCHANGED anonData
  <2>1. Now' = Now
    BY <1>2 DEF Now, anonData
  <2> QED
    BY <1>1, <2>1 DEF TypeInv, Db
<1>3. CASE TellWallets
  <2>1. received \in Txs /\ Commits(Processed(Now, received, 0))
    BY <1>1, <1>3 DEF TellWallets, JobInv
  <2>2. Db(Processed(Now, received, 0))
    BY <1>1, <2>1, ProcessedTyped
  <2>3. Db(Now)'
    BY <2>1, <2>2, CommitsTyped
  <2> QED
    BY <1>1, <2>3 DEF TypeInv
<1>4. CASE Disconnect
  BY <1>1, <1>4, SyncTyped, CommitsTyped DEF Disconnect, TypeInv, JobInv
<1>5. CASE Connect
  <2>1. NextOn(target) \in Blocks
    BY <1>1, <1>5, ConnectedBlock DEF Connect
  <2>2. Commits(SyncWithWallets(NextOn(target), TRUE))
    BY <1>5 DEF Connect
  <2> QED
    BY <1>1, <2>1, <2>2, SyncTyped, CommitsTyped DEF TypeInv
<1>6. CASE Delete
  <2>1. PICK S : RemoveFromPool(S)
    BY <1>6 DEF Delete
  <2>2. UNCHANGED <<keyImages, anonOutputs>>
        /\ mapKeyImage' = Without(mapKeyImage, {Spends[t] : t \in S \cap mapTx})
    BY <1>6, <2>1 DEF Delete, RemoveFromPool
  <2>3. /\ mapKeyImage' \in [DOMAIN mapKeyImage' -> Txs] /\ DOMAIN mapKeyImage' \subseteq Coins
    <3> DEFINE X == {Spends[t] : t \in S \cap mapTx}
    <3>1. mapKeyImage' = Without(mapKeyImage, X)
      BY <2>2
    <3>2. mapKeyImage \in [DOMAIN mapKeyImage -> Txs] /\ DOMAIN mapKeyImage \subseteq Coins
      BY <1>1 DEF Db, Now
    <3> HIDE DEF X
    <3>3. Without(mapKeyImage, X) \in [DOMAIN Without(mapKeyImage, X) -> Txs]
          /\ DOMAIN Without(mapKeyImage, X) = DOMAIN mapKeyImage \ X
      BY <3>2, WithoutFacts, WithoutTyped
    <3> QED
      BY <3>1, <3>2, <3>3
  <2>4. Db(Now)'
    BY <1>1, <2>2, <2>3 DEF Db, Now, Record
  <2> QED
    BY <1>1, <2>4 DEF TypeInv
<1>7. CASE Restart
  <2>1. UNCHANGED <<keyImages, anonOutputs>> /\ mapKeyImage' = Empty
    BY <1>7 DEF Restart
  <2>2. Db(Now)'
    BY <1>1, <2>1 DEF Db, Now, Record, Empty
  <2> QED
    BY <1>1, <2>2 DEF TypeInv
<1>8. CASE \/ Received \/ EndTx \/ Started \/ GiveUp \/ Commit \/ Resurrect \/ NextSecondary
           \/ NewBestBlock \/ UNCHANGED anonVars
  BY <1>2, <1>8 DEF Received, ReceiveTx, AcceptOrphan, EndTx, Started, StartSetBestChain, GiveUp, Commit, Resurrect, NextSecondary,
     NewBestBlock, anonVars, anonData
<1> QED
  BY <1>3, <1>4, <1>5, <1>6, <1>7, <1>8 DEF AnonNext

LEMMA TypeInit == AnonInit => TypeInv
<1>1. AnonInit => Db(Now)
  BY DEF AnonInit, Db, Now, Record, Empty
<1> QED
  BY <1>1, JobInit DEF TypeInv

LEMMA TypesSuffice == TypeInv => AnonTypeOK
<1> SUFFICES ASSUME TypeInv
             PROVE  AnonTypeOK
  OBVIOUS
<1>1. /\ keyImages \in [DOMAIN keyImages -> Txs] /\ DOMAIN keyImages \subseteq Coins
      /\ mapKeyImage \in [DOMAIN mapKeyImage -> Txs] /\ DOMAIN mapKeyImage \subseteq Coins
      /\ anonOutputs \in [DOMAIN anonOutputs -> Nat] /\ DOMAIN anonOutputs \subseteq Coins
  BY DEF TypeInv, Db, Now
<1>2. \A s \in Seq(Txs) : Range(s) \subseteq Txs
  BY DEF Range
<1> QED
  BY <1>1, <1>2 DEF TypeInv, JobInv, AnonTypeOK

-----------------------------------------------------------------------------
(* The pool while the chain changes.                                       *)

(* Each image of the pool is of a transaction of the pool.  Transactions   *)
(* of the chain are not in the pool, save those still to be deleted.       *)
PoolInv ==
    /\ \A i \in DOMAIN mapKeyImage : mapKeyImage[i] \in mapTx /\ Spends[mapKeyImage[i]] = i
    /\ pc # "pool" => mapTx \cap TxsOf(Chain[hashBestChain]) = {}
    /\ mapTx \cap TxsOf(Chain[hashBestChain]) \subseteq Range(vDelete)
    /\ pc = "batch" => TxsOf(Chain[cursor]) \subseteq TxsOf(Chain[hashBestChain]) \cup Range(vDelete)

LEMMA AboveGenesis ==
    ASSUME NEW b \in Blocks \ {Genesis}
    PROVE  Height[b] \in Nat \ {0}
BY ChainAssumption

(* No block touches the images of the pool.                                *)
LEMMA ToldPool ==
    ASSUME NEW db, Db(db), NEW b \in Blocks \ {Genesis}, NEW i \in 1 .. Len(Vtx[b]), NEW fConnect
    PROVE  Told(db, b, i, fConnect).pool = db.pool
<1>1. Vtx[b][i] \in Txs /\ Height[b] \in Nat \ {0}
  BY BlockTxs, AboveGenesis
<1> DEFINE t == Vtx[b][i]
<1>2. db = Record(db.images, db.outputs, db.pool)
  BY DEF Db
<1>3. Processed(db, t, Height[b]).pool = db.pool
  <2>1. Processed(db, t, Height[b])
           \in {db, Record(Imaged(db.images, t), Coined(db.outputs, t, Height[b]), db.pool)}
    BY <1>1, <1>2, ProcessedForBlock
  <2> QED
    BY <2>1, RecordFields
<1>4. Undone(db, t).pool = db.pool
  <2> DEFINE x == Unshown(db, t)
             y == Without(db.outputs, {Creates[t]})
  <2>1. Undone(db, t) = Record(x, y, db.pool)
    BY UndoneIs
  <2> HIDE DEF x, y
  <2> QED
    BY <2>1, RecordFields
<1>5. CASE fConnect
  <2>1. Told(db, b, i, fConnect) = Processed(db, t, Height[b])
    BY <1>5 DEF Told
  <2> QED
    BY <1>3, <2>1
<1>6. CASE ~fConnect
  <2>1. Told(db, b, i, fConnect) = Undone(db, t)
    BY <1>6 DEF Told
  <2> QED
    BY <1>4, <2>1
<1> QED
  BY <1>5, <1>6

LEMMA SyncPool ==
    ASSUME Db(Now), NEW b \in Blocks \ {Genesis}, NEW fConnect
    PROVE  SyncWithWallets(b, fConnect).pool = mapKeyImage
<1> DEFINE n == Len(Vtx[b])
<1>1. PICK g : /\ g[0] = Now
               /\ \A i \in 1 .. n : g[i] = Told(g[i - 1], b, i, fConnect)
               /\ SyncWithWallets(b, fConnect) = g[n]
  BY ToldSteps
<1>2. n \in Nat /\ \A i \in 1 .. n : Vtx[b][i] \in Txs
  BY BlockTxs
<1>3. Height[b] \in Nat
  BY ChainAssumption
<1>4. \A i \in 1 .. n : Db(g[i - 1]) => Db(g[i]) /\ g[i].pool = g[i - 1].pool
  <2> SUFFICES ASSUME NEW i \in 1 .. n, Db(g[i - 1])
               PROVE  Db(g[i]) /\ g[i].pool = g[i - 1].pool
    OBVIOUS
  <2>1. g[i] = Told(g[i - 1], b, i, fConnect)
    BY <1>1
  <2>2. Db(g[i])
    BY <1>2, <1>3, <2>1, ProcessedTyped, UndoneTyped DEF Told
  <2> QED
    BY <2>1, <2>2, ToldPool
<1> HIDE DEF n
<1> DEFINE T == {i \in 0 .. n : ~(Db(g[i]) /\ g[i].pool = mapKeyImage)}
<1>5. T = {}
  <2>1. SUFFICES ASSUME T # {}
                 PROVE  FALSE
    OBVIOUS
  <2>2. PICK m \in T : \A k \in T : m <= k
    <3>1. T \subseteq Nat
      BY <1>2
    <3> HIDE DEF T
    <3> QED
      BY <2>1, <3>1, LeastOf
  <2>3. m # 0
    <3>1. Now.pool = mapKeyImage
      BY DEF Now
    <3> QED
      BY <1>1, <3>1
  <2>4. m - 1 \in 0 .. n /\ m - 1 \notin T /\ m \in 1 .. n
    BY <1>2, <2>2, <2>3
  <2> QED
    BY <1>4, <2>4
<1> QED
  BY <1>1, <1>2, <1>5

LEMMA RangeFacts ==
    /\ \A s \in Seq(Txs) : Range(s) = {s[i] : i \in 1 .. Len(s)}
    /\ \A s, r \in Seq(Txs) : Range(s \o r) = Range(s) \cup Range(r)
    /\ \A s \in Seq(Txs) : s # << >> => Range(s) = {Head(s)} \cup Range(Tail(s))
    /\ \A b \in Blocks : Range(Vtx[b]) = TxsIn(b)
    /\ Range(<< >>) = {}
<1>1. \A s \in Seq(Txs) : Range(s) = {s[i] : i \in 1 .. Len(s)}
  BY DEF Range
<1>2. ASSUME NEW s \in Seq(Txs), NEW r \in Seq(Txs)
      PROVE  Range(s \o r) = Range(s) \cup Range(r)
  <2>1. s \o r \in Seq(Txs) /\ Len(s \o r) = Len(s) + Len(r) /\ Len(s) \in Nat /\ Len(r) \in Nat
    OBVIOUS
  <2>2. \A i \in 1 .. Len(s) : (s \o r)[i] = s[i] /\ i \in 1 .. Len(s \o r)
    BY <2>1
  <2>3. \A i \in 1 .. Len(r) : (s \o r)[i + Len(s)] = r[i] /\ i + Len(s) \in 1 .. Len(s \o r)
    BY <2>1
  <2>4. \A i \in 1 .. Len(s \o r) : i \notin 1 .. Len(s) =>
           i - Len(s) \in 1 .. Len(r) /\ (s \o r)[i] = r[i - Len(s)]
    BY <2>1
  <2>5. \A q \in Seq(Txs) : \A x : x \in Range(q) <=> \E i \in 1 .. Len(q) : q[i] = x
    BY <1>1
  <2>6. ASSUME NEW x \in Range(s \o r)
        PROVE  x \in Range(s) \cup Range(r)
    <3>1. PICK i \in 1 .. Len(s \o r) : (s \o r)[i] = x
      BY <2>1, <2>5
    <3>2. CASE i \in 1 .. Len(s)
      BY <2>2, <2>5, <3>1, <3>2
    <3>3. CASE i \notin 1 .. Len(s)
      BY <2>4, <2>5, <3>1, <3>3
    <3> QED
      BY <3>2, <3>3
  <2>7. ASSUME NEW x \in Range(s)
        PROVE  x \in Range(s \o r)
    <3>1. PICK i \in 1 .. Len(s) : s[i] = x
      BY <2>5
    <3> QED
      BY <2>1, <2>2, <2>5, <3>1
  <2>8. ASSUME NEW x \in Range(r)
        PROVE  x \in Range(s \o r)
    <3>1. PICK i \in 1 .. Len(r) : r[i] = x
      BY <2>5
    <3> QED
      BY <2>1, <2>3, <2>5, <3>1
  <2> QED
    BY <2>6, <2>7, <2>8
<1>3. ASSUME NEW s \in Seq(Txs), s # << >>
      PROVE  Range(s) = {Head(s)} \cup Range(Tail(s))
  <2>1. Tail(s) \in Seq(Txs) /\ Len(Tail(s)) = Len(s) - 1 /\ Len(s) \in Nat \ {0} /\ Head(s) = s[1]
    BY <1>3
  <2>2. \A i \in 1 .. Len(Tail(s)) : Tail(s)[i] = s[i + 1] /\ i + 1 \in 1 .. Len(s)
    BY <2>1
  <2>3. \A i \in 1 .. Len(s) : i # 1 => i - 1 \in 1 .. Len(Tail(s)) /\ Tail(s)[i - 1] = s[i]
    BY <2>1
  <2>4. \A q \in Seq(Txs) : \A x : x \in Range(q) <=> \E i \in 1 .. Len(q) : q[i] = x
    BY <1>1
  <2>5. ASSUME NEW x \in Range(s), x # Head(s)
        PROVE  x \in Range(Tail(s))
    <3>1. PICK i \in 1 .. Len(s) : s[i] = x
      BY <2>4
    <3> QED
      BY <2>1, <2>3, <2>4, <2>5, <3>1
  <2>6. ASSUME NEW x \in Range(Tail(s))
        PROVE  x \in Range(s)
    <3>1. PICK i \in 1 .. Len(Tail(s)) : Tail(s)[i] = x
      BY <2>1, <2>4
    <3> QED
      BY <2>2, <2>4, <3>1
  <2>7. Head(s) \in Range(s)
    BY <2>1, <2>4
  <2> QED
    BY <2>5, <2>6, <2>7
<1>4. \A b \in Blocks : Range(Vtx[b]) = TxsIn(b)
  BY VtxIsSeq DEF Range, TxsIn
<1>5. Range(<< >>) = {}
  BY DEF Range
<1> QED
  BY <1>1, <1>2, <1>3, <1>4, <1>5

(* A transaction that the pool takes adds at most its own image.           *)
LEMMA ReceivedPool ==
    ASSUME NEW db, Db(db), NEW t \in Txs
    PROVE  Processed(db, t, 0).pool \in {db.pool, Imaged(db.pool, t)}
<1> DEFINE i == db.images
           o == db.outputs
           p == db.pool
<1>1. db = Record(i, o, p)
  BY DEF Db
<1> HIDE DEF i, o, p
<1>2. \/ Processed(db, t, 0) = db
      \/ Processed(db, t, 0) = Record(Imaged(i, t), Coined(o, t, 0), p)
      \/ Processed(db, t, 0) = Record(i, o, Imaged(p, t))
      \/ Processed(db, t, 0) = Record(i, Coined(o, t, 0), Imaged(p, t))
  BY <1>1, ProcessedForPool
<1>3. /\ Record(i, o, p).pool = p
      /\ Record(Imaged(i, t), Coined(o, t, 0), p).pool = p
      /\ Record(i, o, Imaged(p, t)).pool = Imaged(p, t)
      /\ Record(i, Coined(o, t, 0), Imaged(p, t)).pool = Imaged(p, t)
  BY DEF Record
<1> QED
  BY <1>1, <1>2, <1>3 DEF p

LEMMA PoolInit == AnonInit => PoolInv
BY DEF AnonInit, PoolInv, Empty

LEMMA PoolStep ==
    ASSUME TypeInv, PoolInv, [AnonNext]_anonVars
    PROVE  PoolInv'
<1>1. JobInv /\ JobInv' /\ Db(Now) /\ PoolInv
  BY JobStep DEF TypeInv
<1> DEFINE On(tip) == TxsOf(Chain[tip])
<1>2. CASE Received
  <2>1. PICK t \in Txs : ReceiveTx(t) \/ AcceptOrphan(t)
    BY <1>2 DEF Received
  <2>2. /\ pc # "pool" /\ t \notin On(hashBestChain) /\ mapTx' = mapTx \cup {t}
        /\ UNCHANGED <<hashBestChain, cursor, vDelete, mapKeyImage>>
        /\ pc' \notin {"batch", "pool"} /\ pc # "batch"
    BY <2>1 DEF ReceiveTx, AcceptOrphan, Acceptable, tips, job, anonData
  <2> QED
    BY <1>1, <2>2 DEF PoolInv, JobInv
<1>14. CASE TellWallets
  <2>1. /\ received \in mapTx /\ received \in Txs /\ Commits(Processed(Now, received, 0))
        /\ pc = "accepted" /\ pc' = "orphans"
        /\ UNCHANGED <<hashBestChain, cursor, vDelete, mapTx>>
    BY <1>1, <1>14 DEF TellWallets, JobInv, tips, job
  <2>2. mapKeyImage' \in {mapKeyImage, Imaged(mapKeyImage, received)}
    <3>1. Now.pool = mapKeyImage
      BY DEF Now
    <3> QED
      BY <1>1, <2>1, <3>1, ReceivedPool DEF Commits
  <2>3. \A j \in DOMAIN mapKeyImage' : mapKeyImage'[j] \in mapTx' /\ Spends[mapKeyImage'[j]] = j
    BY <1>1, <2>1, <2>2 DEF PoolInv, Imaged, Put
  <2> QED
    BY <1>1, <2>1, <2>3 DEF PoolInv, JobInv
<1>15. CASE EndTx
  BY <1>1, <1>15 DEF EndTx, PoolInv, tips, anonData, job
<1>3. CASE Started
  BY <1>1, <1>3 DEF Started, StartSetBestChain, PoolInv, JobInv, tips, anonData
<1>4. CASE Disconnect
  <2>1. /\ pc = "batch" /\ cursor \notin Chain[target] /\ Commits(SyncWithWallets(cursor, FALSE))
        /\ cursor' = Prev[cursor] /\ UNCHANGED <<hashBestChain, pc, mapTx, vDelete>>
    BY <1>4 DEF Disconnect, tips
  <2>2. cursor \in Blocks \ {Genesis}
    BY <1>1, <2>1, DisconnectedBlock
  <2>3. mapKeyImage' = mapKeyImage
    BY <1>1, <2>1, <2>2, SyncPool DEF Commits
  <2>4. Chain[cursor] = {cursor} \cup Chain[Prev[cursor]]
    BY <2>2, ChainStep
  <2>5. On(cursor') \subseteq On(cursor)
    BY <2>1, <2>4 DEF TxsOf
  <2> QED
    BY <1>1, <2>1, <2>3, <2>5 DEF PoolInv
<1>5. CASE Connect
  <2>1. /\ pc = "batch" /\ cursor \in Chain[target] \ {target}
        /\ Commits(SyncWithWallets(NextOn(target), TRUE))
        /\ cursor' = NextOn(target) /\ vDelete' = vDelete \o Vtx[NextOn(target)]
        /\ UNCHANGED <<hashBestChain, pc, mapTx>>
    BY <1>5 DEF Connect, tips
  <2> DEFINE b == NextOn(target)
  <2>2. b \in Blocks \ {Genesis} /\ Chain[b] = {b} \cup Chain[cursor]
    BY <1>1, <2>1, ConnectedBlock
  <2> HIDE DEF b
  <2>3. Commits(SyncWithWallets(b, TRUE)) /\ cursor' = b /\ vDelete' = vDelete \o Vtx[b]
    BY <2>1 DEF b
  <2>4. mapKeyImage' = mapKeyImage
    BY <1>1, <2>2, <2>3, SyncPool DEF Commits
  <2>5. Range(vDelete') = Range(vDelete) \cup TxsIn(b)
    BY <1>1, <2>2, <2>3, VtxIsSeq, RangeFacts DEF JobInv
  <2>6. On(cursor') = TxsIn(b) \cup On(cursor)
    BY <2>2, <2>3 DEF TxsOf
  <2> QED
    BY <1>1, <2>1, <2>4, <2>5, <2>6 DEF PoolInv
<1>6. CASE GiveUp
  <2>1. /\ pc = "batch" /\ pc' = "idle" /\ UNCHANGED <<hashBestChain, mapKeyImage, mapTx>>
    BY <1>6 DEF GiveUp, anonData
  <2> QED
    BY <1>1, <2>1 DEF PoolInv
<1>7. CASE Commit
  <2>1. /\ pc = "batch" /\ cursor = target /\ pc' = "pool" /\ hashBestChain' = target
        /\ UNCHANGED <<mapKeyImage, mapTx, cursor, vDelete>>
    BY <1>7 DEF Commit, anonData, job
  <2>2. mapTx \cap On(hashBestChain) = {} /\ On(cursor) \subseteq On(hashBestChain) \cup Range(vDelete)
    BY <1>1, <2>1 DEF PoolInv
  <2>3. On(hashBestChain') = On(cursor)
    BY <2>1
  <2>4. mapTx' \cap On(hashBestChain') \subseteq Range(vDelete')
    BY <2>1, <2>2, <2>3
  <2> QED
    BY <1>1, <2>1, <2>4 DEF PoolInv
<1>8. CASE Resurrect
  <2>1. /\ pc = "pool" /\ UNCHANGED <<hashBestChain, mapKeyImage, pc, cursor, vDelete>>
        /\ mapTx' = mapTx \/ (Head(vResurrect) \notin On(hashBestChain)
                              /\ mapTx' = mapTx \cup {Head(vResurrect)})
    BY <1>8 DEF Resurrect, Acceptable, tips, anonData
  <2> QED
    BY <1>1, <2>1 DEF PoolInv
<1>9. CASE Delete
  <2>1. PICK S : Head(vDelete) \in S /\ RemoveFromPool(S)
    BY <1>9 DEF Delete
  <2>2. /\ pc = "pool" /\ vDelete # << >> /\ vDelete' = Tail(vDelete)
        /\ UNCHANGED <<hashBestChain, pc>>
    BY <1>9 DEF Delete, tips
  <2>3. mapTx' = mapTx \ S /\ mapKeyImage' = Without(mapKeyImage, {Spends[t] : t \in S \cap mapTx})
    BY <2>1 DEF RemoveFromPool
  <2>4. \A j \in DOMAIN mapKeyImage' : mapKeyImage'[j] \in mapTx' /\ Spends[mapKeyImage'[j]] = j
    <3> SUFFICES ASSUME NEW j \in DOMAIN mapKeyImage'
                 PROVE  mapKeyImage'[j] \in mapTx' /\ Spends[mapKeyImage'[j]] = j
      OBVIOUS
    <3>1. j \in DOMAIN mapKeyImage /\ mapKeyImage'[j] = mapKeyImage[j]
          /\ \A t \in S \cap mapTx : Spends[t] # j
      BY <2>3 DEF Without
    <3>2. mapKeyImage[j] \in mapTx /\ Spends[mapKeyImage[j]] = j
      BY <1>1, <3>1 DEF PoolInv
    <3> QED
      BY <2>3, <3>1, <3>2
  <2>5. Range(vDelete) = {Head(vDelete)} \cup Range(vDelete')
    BY <1>1, <2>2, RangeFacts DEF JobInv
  <2> QED
    BY <1>1, <2>1, <2>2, <2>3, <2>4, <2>5 DEF PoolInv
<1>10. CASE NextSecondary
  <2>1. /\ pc = "pool" /\ vDelete = << >> /\ pc' = "batch"
        /\ UNCHANGED <<hashBestChain, mapKeyImage, mapTx, cursor, vDelete>>
    BY <1>10 DEF NextSecondary, tips, anonData
  <2> QED
    BY <1>1, <2>1, RangeFacts DEF PoolInv, JobInv
<1>11. CASE NewBestBlock
  <2>1. /\ pc = "pool" /\ vDelete = << >> /\ pc' = "idle"
        /\ UNCHANGED <<hashBestChain, mapKeyImage, mapTx, vDelete>>
    BY <1>11 DEF NewBestBlock, anonData, job
  <2> QED
    BY <1>1, <2>1, RangeFacts DEF PoolInv
<1>12. CASE Restart
  BY <1>12 DEF Restart, PoolInv, Empty
<1>13. CASE UNCHANGED anonVars
  BY <1>1, <1>13 DEF anonVars, tips, job, anonData, PoolInv
<1> QED
  BY <1>2, <1>3, <1>4, <1>5, <1>6, <1>7, <1>8, <1>9, <1>10, <1>11, <1>12, <1>13, <1>14, <1>15
     DEF AnonNext

-----------------------------------------------------------------------------
(* The records and the chain.                                              *)

Named(map, outputs) == \A k \in DOMAIN map :
    /\ Spends[map[k]] = k
    /\ Creates[map[k]] # None => Creates[map[k]] \in DOMAIN outputs

Recorded(images, outputs, b) == \A t \in TxsIn(b) :
    /\ Spends[t] # None => Spends[t] \in DOMAIN images /\ images[Spends[t]] = t
    /\ Creates[t] # None => Creates[t] \in DOMAIN outputs /\ outputs[Creates[t]] = Height[b]

(* The records are those of the chain of tip: it is recorded, only its     *)
(* coins have a height, images are those of the transactions that showed   *)
(* them, whose coins are known, and of the transactions of head's chain    *)
(* only those also on the chain of tip are still said to have shown one.   *)
Matches(images, outputs, pool, tip, head) ==
    /\ \A b \in Chain[tip] : Recorded(images, outputs, b)
    /\ \A o \in DOMAIN outputs : outputs[o] > 0 => \E t \in TxsOf(Chain[tip]) : Creates[t] = o
    /\ Named(images, outputs)
    /\ Named(pool, outputs)
    /\ \A k \in DOMAIN images :
          images[k] \in TxsOf(Chain[head]) => images[k] \in TxsOf(Chain[tip])

RecInv == ~interrupted => Matches(keyImages, anonOutputs, mapKeyImage, cursor, hashBestChain)

(* What the transactions of one chain have in common.                      *)
LEMMA OnOneChain ==
    ASSUME NEW tip \in Blocks, NEW b \in Chain[tip], NEW c \in Chain[tip],
           NEW t \in TxsIn(b), NEW u \in TxsIn(c)
    PROVE  /\ t \in Txs /\ u \in Txs
           /\ t = u => b = c
           /\ t # u /\ Spends[t] # None => Spends[t] # Spends[u]
           /\ t # u /\ Creates[t] # None => Creates[t] # Creates[u]
<1>1. b \in Blocks /\ c \in Blocks
  BY ChainBasics
<1>2. t \in Txs /\ u \in Txs
  BY <1>1, BlockTxs
<1> QED
  BY <1>2, AnonAssumption

(* A transaction that the pool takes: at most its own image is new, and    *)
(* only its own coin is, or becomes, unconfirmed.                          *)
Receives(t, i, o, p, i2, o2, p2) ==
    /\ None \notin DOMAIN o2 /\ DOMAIN o \subseteq DOMAIN o2
    /\ \A c \in DOMAIN o2 : \/ c = Creates[t] /\ o2[c] = 0
                            \/ c \in DOMAIN o /\ o2[c] = o[c]
    /\ \A k \in DOMAIN i : k \in DOMAIN i2 /\ i2[k] = i[k]
    /\ \A k \in DOMAIN i2 : \/ k \in DOMAIN i
                            \/ k = Spends[t] /\ i2[k] = t /\ Creates[t] \in DOMAIN o2 \cup {None}
    /\ \A k \in DOMAIN p2 : \/ k \in DOMAIN p /\ p2[k] = p[k]
                            \/ k = Spends[t] /\ p2[k] = t /\ Creates[t] \in DOMAIN o2 \cup {None}

LEMMA ReceivedMatches ==
    ASSUME NEW i, NEW o, NEW p, NEW i2, NEW o2, NEW p2, NEW t \in Txs,
           NEW tip \in Blocks, NEW head \in Blocks,
           Matches(i, o, p, tip, head), Receives(t, i, o, p, i2, o2, p2),
           t \notin TxsOf(Chain[tip]) \cup TxsOf(Chain[head])
    PROVE  Matches(i2, o2, p2, tip, head)
<1>1. ASSUME NEW b \in Chain[tip]
      PROVE  Recorded(i2, o2, b)
  <2> SUFFICES ASSUME NEW u \in TxsIn(b)
               PROVE  /\ Spends[u] # None => Spends[u] \in DOMAIN i2 /\ i2[Spends[u]] = u
                      /\ Creates[u] # None => Creates[u] \in DOMAIN o2 /\ o2[Creates[u]] = Height[b]
    BY DEF Recorded
  <2>1. /\ Spends[u] # None => Spends[u] \in DOMAIN i /\ i[Spends[u]] = u
        /\ Creates[u] # None => Creates[u] \in DOMAIN o /\ o[Creates[u]] = Height[b]
    BY DEF Matches, Recorded
  <2>2. u \in Txs /\ u # t
    BY ChainBasics, BlockTxs DEF TxsOf
  <2>3. Creates[u] # None => Creates[u] # Creates[t]
    BY <2>2, AnonAssumption
  <2> QED
    BY <2>1, <2>3 DEF Receives
<1>2. ASSUME NEW c \in DOMAIN o2, o2[c] > 0
      PROVE  \E u \in TxsOf(Chain[tip]) : Creates[u] = c
  BY <1>2 DEF Matches, Receives
<1>3. Named(i2, o2)
  BY DEF Matches, Named, Receives
<1>4. Named(p2, o2)
  BY DEF Matches, Named, Receives
<1>5. \A k \in DOMAIN i2 : i2[k] \in TxsOf(Chain[head]) => i2[k] \in TxsOf(Chain[tip])
  BY DEF Matches, Receives, TxsOf
<1> QED
  BY <1>1, <1>2, <1>3, <1>4, <1>5 DEF Matches

LEMMA ProcessedMatches ==
    ASSUME NEW db, Db(db), NEW t \in Txs, NEW tip \in Blocks, NEW head \in Blocks,
           Matches(db.images, db.outputs, db.pool, tip, head),
           t \notin TxsOf(Chain[tip]) \cup TxsOf(Chain[head])
    PROVE  LET r == Processed(db, t, 0)
           IN  Matches(r.images, r.outputs, r.pool, tip, head)
<1> DEFINE i == db.images
           o == db.outputs
           p == db.pool
           r == Processed(db, t, 0)
           known == Creates[t] # None /\ Creates[t] \in DOMAIN o
           shown == Spends[t] # None /\ ShownBy(db, Spends[t]) = t
           o3 == IF known THEN o ELSE Coined(o, t, 0)
<1>1. db = Record(i, o, p) /\ Db(r) /\ DOMAIN o \subseteq Coins
  BY ProcessedTyped DEF Db
<1>2. None \notin DOMAIN r.outputs
  BY <1>1, AnonAssumption DEF Db
<1>3. Matches(i, o, p, tip, head)
  OBVIOUS
<1>4. shown => Spends[t] # None /\ (Spends[t] \in DOMAIN i => i[Spends[t]] = t)
  BY DEF ShownBy
<1> HIDE DEF i, o, p, r
<1>5. \/ r = db
      \/ /\ shown /\ (Creates[t] # None => known)
         /\ r = Record(Imaged(i, t), Coined(o, t, 0), p)
      \/ r = Record(i, o3, Imaged(p, t))
  BY <1>1, ProcessedForPool DEF r
<1>6. CASE r = db
  BY <1>3, <1>6 DEF i, o, p, r
<1>7. CASE /\ shown /\ (Creates[t] # None => known)
           /\ r = Record(Imaged(i, t), Coined(o, t, 0), p)
  <2> DEFINE i2 == Imaged(i, t)
             o2 == Coined(o, t, 0)
  <2>1. r.images = i2 /\ r.outputs = o2 /\ r.pool = p
    <3> HIDE DEF i2, o2
    <3>1. r = Record(i2, o2, p)
      BY <1>7 DEF i2, o2
    <3> QED
      BY <3>1, RecordFields
  <2>2. /\ DOMAIN o \subseteq DOMAIN o2
        /\ \A c \in DOMAIN o2 : \/ c = Creates[t] /\ o2[c] = 0
                                \/ c \in DOMAIN o /\ o2[c] = o[c]
        /\ Creates[t] \in DOMAIN o2 \cup {None}
    BY DEF Coined, Put
  <2>3. /\ \A k \in DOMAIN i : k \in DOMAIN i2 /\ i2[k] = i[k]
        /\ \A k \in DOMAIN i2 : k \in DOMAIN i \/ (k = Spends[t] /\ i2[k] = t)
    BY <1>4, <1>7 DEF Imaged, Put
  <2> HIDE DEF i2, o2, shown, known, o3
  <2>4. None \notin DOMAIN o2
    BY <1>2, <2>1
  <2>5. Receives(t, i, o, p, i2, o2, p)
    BY <2>2, <2>3, <2>4 DEF Receives
  <2>6. Matches(i2, o2, p, tip, head)
    BY <1>3, <2>5, ReceivedMatches
  <2> QED
    BY <2>1, <2>6 DEF r
<1>8. CASE r = Record(i, o3, Imaged(p, t))
  <2> DEFINE p2 == Imaged(p, t)
  <2>1. r.images = i /\ r.outputs = o3 /\ r.pool = p2
    <3> HIDE DEF p2, o3
    <3>1. r = Record(i, o3, p2)
      BY <1>8 DEF p2
    <3> QED
      BY <3>1, RecordFields
  <2>2. /\ DOMAIN o \subseteq DOMAIN o3
        /\ \A c \in DOMAIN o3 : \/ c = Creates[t] /\ o3[c] = 0
                                \/ c \in DOMAIN o /\ o3[c] = o[c]
        /\ Creates[t] \in DOMAIN o3 \cup {None}
    BY DEF Coined, Put
  <2>3. \A k \in DOMAIN p2 : \/ k \in DOMAIN p /\ p2[k] = p[k]
                             \/ k = Spends[t] /\ p2[k] = t
    BY DEF Imaged, Put
  <2> HIDE DEF p2, shown, known, o3
  <2>4. None \notin DOMAIN o3
    BY <1>2, <2>1
  <2>5. Receives(t, i, o, p, i, o3, p2)
    BY <2>2, <2>3, <2>4 DEF Receives
  <2>6. Matches(i, o3, p2, tip, head)
    BY <1>3, <2>5, ReceivedMatches
  <2> QED
    BY <2>1, <2>6 DEF r
<1> QED
  BY <1>5, <1>6, <1>7, <1>8 DEF r

-----------------------------------------------------------------------------
(* A block is connected: its images and coins override what was there.     *)

Overridden(old, new, U, key, val) ==
    /\ \A k \in DOMAIN new : k \in DOMAIN old \/ \E u \in U : key[u] = k
    /\ \A u \in U : key[u] # None => key[u] \in DOMAIN new /\ new[key[u]] = val[u]
    /\ \A k \in DOMAIN old :
          (\A u \in U : key[u] # k) => k \in DOMAIN new /\ new[k] = old[k]

LEMMA OverrideStep ==
    ASSUME NEW old, NEW new, NEW U, NEW key, NEW val, NEW t,
           Overridden(old, new, U, key, val),
           \A u \in U : key[u] # None => key[u] # key[t]
    PROVE  Overridden(old, IF key[t] = None THEN new ELSE Put(new, key[t], val[t]), U \cup {t}, key, val)
<1>1. CASE key[t] = None
  BY <1>1 DEF Overridden
<1>2. CASE key[t] # None
  <2> DEFINE m == Put(new, key[t], val[t])
  <2>1. /\ DOMAIN m = DOMAIN new \cup {key[t]} /\ m[key[t]] = val[t]
        /\ \A k \in DOMAIN new : k # key[t] => m[k] = new[k]
    BY DEF Put
  <2> HIDE DEF m
  <2>2. Overridden(old, m, U \cup {t}, key, val)
    <3>1. \A k \in DOMAIN m : k \in DOMAIN old \/ \E u \in U \cup {t} : key[u] = k
      BY <2>1 DEF Overridden
    <3>2. \A u \in U \cup {t} : key[u] # None => key[u] \in DOMAIN m /\ m[key[u]] = val[u]
      BY <2>1 DEF Overridden
    <3>3. \A k \in DOMAIN old :
             (\A u \in U \cup {t} : key[u] # k) => k \in DOMAIN m /\ m[k] = old[k]
      BY <2>1 DEF Overridden
    <3> QED
      BY <3>1, <3>2, <3>3 DEF Overridden
  <2> QED
    BY <1>2, <2>2 DEF m
<1> QED
  BY <1>1, <1>2

Self == [u \in Txs |-> u]
At(h) == [u \in Txs |-> h]

(* The first transactions U of the block b have been processed.            *)
Noted(db, b, U) ==
    /\ Db(db) /\ db.pool = mapKeyImage
    /\ Overridden(keyImages, db.images, U, Spends, Self)
    /\ Overridden(anonOutputs, db.outputs, U, Creates, At(Height[b]))

(* ConnectBlock goes from the records of cursor's chain to the block b.    *)
Connects(b) ==
    /\ TypeInv /\ PoolInv /\ pc = "batch"
    /\ Matches(keyImages, anonOutputs, mapKeyImage, cursor, hashBestChain)
    /\ b \in Blocks \ {Genesis} /\ Chain[b] = {b} \cup Chain[cursor] /\ b \notin Chain[cursor]
    /\ \A t \in TxsIn(b) : CheckAnonInputs(InSystem(cursor), t)

LEMMA InSystemOnChain ==
    ASSUME NEW tip \in Blocks
    PROVE  InSystem(tip) \subseteq TxsOf(Chain[tip]) /\ InSystem(tip) \subseteq Txs
<1>1. \A b \in Chain[tip] : TxsIn(b) \subseteq Txs
  BY ChainBasics, BlockTxs
<1> QED
  BY <1>1 DEF InSystem, TxsOf

(* Whoever showed the image of a transaction of the next block before it   *)
(* is not in the system.                                                   *)
LEMMA NotShownInSystem ==
    ASSUME NEW b, Connects(b), NEW t \in TxsIn(b), Spends[t] # None,
           ShownBy(Now, Spends[t]) # t
    PROVE  ShownBy(Now, Spends[t]) \notin InSystem(hashBestChain) \cup mapTx
<1> DEFINE w == ShownBy(Now, Spends[t])
<1>1. /\ b \in Blocks /\ b \in Chain[b] /\ t \in Txs /\ hashBestChain \in Blocks /\ mapTx \subseteq Txs
      /\ CheckAnonInputs(InSystem(cursor), t)
  BY ChainBasics, BlockTxs DEF Connects, TypeInv, JobInv
<1>2. w \notin mapTx
  BY <1>1 DEF CheckAnonInputs
<1>3. \/ Spends[t] \in DOMAIN keyImages /\ w = keyImages[Spends[t]]
      \/ Spends[t] \in DOMAIN mapKeyImage /\ w = mapKeyImage[Spends[t]]
      \/ w = None
  BY DEF ShownBy, Now
<1> HIDE DEF w
<1>4. ASSUME w \in InSystem(hashBestChain)
      PROVE  FALSE
  <2>1. w \in TxsOf(Chain[hashBestChain]) /\ w \in Txs
    BY <1>1, <1>4, InSystemOnChain
  <2>2. w # None
    BY <2>1, AnonAssumption
  <2>3. Spends[t] \notin DOMAIN mapKeyImage \/ w # mapKeyImage[Spends[t]]
    BY <1>2 DEF Connects, PoolInv
  <2>4. Spends[t] \in DOMAIN keyImages /\ w = keyImages[Spends[t]]
    BY <1>3, <2>2, <2>3
  <2>5. w \in TxsOf(Chain[cursor]) /\ Spends[w] = Spends[t]
    BY <2>1, <2>4 DEF Connects, Matches, Named
  <2>6. PICK c \in Chain[cursor] : w \in TxsIn(c)
    BY <2>5 DEF TxsOf
  <2>7. c \in Chain[b] /\ b \in Chain[b]
    BY <1>1, <2>6 DEF Connects
  <2>8. w # t
    BY DEF w
  <2> QED
    BY <1>1, <2>5, <2>6, <2>7, <2>8, OnOneChain
<1> QED
  BY <1>2, <1>4 DEF w

(* A ring stays usable while the block is processed: its coins are older.  *)
LEMMA RingStaysUsable ==
    ASSUME NEW b, Connects(b), NEW U \in SUBSET TxsIn(b), NEW db, Noted(db, b, U),
           NEW t \in TxsIn(b)
    PROVE  RingUsable(db, t)
<1>1. b \in Blocks /\ b \in Chain[b] /\ t \in Txs /\ CheckAnonInputs(InSystem(cursor), t)
  BY ChainBasics, BlockTxs DEF Connects
<1>2. ASSUME NEW o \in Ring[t]
      PROVE  /\ o \in DOMAIN db.outputs /\ db.outputs[o] # 0
             /\ Height[pindexBest] - db.outputs[o] >= MinDepth
  <2>1. Spends[t] # None
    BY <1>1, <1>2, TxTypes
  <2>2. /\ o \in DOMAIN anonOutputs /\ anonOutputs[o] # 0
        /\ Height[pindexBest] - anonOutputs[o] >= MinDepth
    BY <1>1, <2>1 DEF CheckAnonInputs, RingUsable, Now
  <2>3. PICK c \in Chain[b] : /\ Height[b] - 1 - Height[c] >= MinDepth
                              /\ \E u \in TxsIn(c) : Creates[u] = o
    BY AnonAssumption DEF Connects
  <2>4. PICK u \in TxsIn(c) : Creates[u] = o
    BY <2>3
  <2>5. c # b
    <3>1. Height[b] \in Nat /\ MinDepth \in Nat \ {0}
      BY <1>1, ChainAssumption, AnonAssumption
    <3> QED
      BY <2>3, <3>1
  <2>6. o # None
    BY <1>1, TxTypes, AnonAssumption
  <2>7. \A v \in U : Creates[v] # o
    <3> SUFFICES ASSUME NEW v \in U, Creates[v] = o
                 PROVE  FALSE
      OBVIOUS
    <3>1. v \in TxsIn(b)
      OBVIOUS
    <3> QED
      BY <1>1, <2>4, <2>5, <2>6, <3>1, OnOneChain
  <2>8. o \in DOMAIN db.outputs /\ db.outputs[o] = anonOutputs[o]
    BY <2>2, <2>7 DEF Noted, Overridden
  <2> QED
    BY <2>2, <2>8
<1> QED
  BY <1>2 DEF RingUsable

(* The next transaction of the block is written, whatever was there.       *)
LEMMA ConnectTx ==
    ASSUME NEW b, Connects(b), NEW U \in SUBSET TxsIn(b), NEW db, Noted(db, b, U),
           NEW t \in TxsIn(b), t \notin U
    PROVE  Noted(Processed(db, t, Height[b]), b, U \cup {t})
<1> DEFINE i == db.images
           o == db.outputs
           p == db.pool
           h == Height[b]
           shown == IF Spends[t] = None THEN None ELSE ShownBy(db, Spends[t])
           r == Record(Imaged(i, t), Coined(o, t, h), p)
<1>1. b \in Blocks /\ b \in Chain[b] /\ t \in Txs /\ U \subseteq Txs /\ h \in Nat \ {0}
  BY ChainBasics, BlockTxs, AboveGenesis DEF Connects
<1>2. Db(db) /\ db = Record(i, o, p) /\ p = mapKeyImage
  BY DEF Noted, Db
<1>3. \A u \in U : u \in TxsIn(b) /\ u # t
  OBVIOUS
<1>4. \A u \in U : Spends[u] # None => Spends[u] # Spends[t]
  BY <1>1, <1>3, OnOneChain
<1>5. \A u \in U : Creates[u] # None => Creates[u] # Creates[t]
  BY <1>1, <1>3, OnOneChain
<1>6. Spends[t] # None => ShownBy(db, Spends[t]) = ShownBy(Now, Spends[t])
  <2> SUFFICES ASSUME Spends[t] # None
               PROVE  ShownBy(db, Spends[t]) = ShownBy(Now, Spends[t])
    OBVIOUS
  <2>1. \A u \in U : Spends[u] # Spends[t]
    BY <1>4
  <2>2. /\ Spends[t] \in DOMAIN i <=> Spends[t] \in DOMAIN keyImages
        /\ Spends[t] \in DOMAIN keyImages => i[Spends[t]] = keyImages[Spends[t]]
    BY <2>1 DEF Noted, Overridden
  <2>3. Now.images = keyImages /\ Now.pool = mapKeyImage
    BY DEF Now
  <2> QED
    BY <1>2, <2>2, <2>3 DEF ShownBy
<1>7. RingUsable(db, t)
  BY RingStaysUsable
<1>8. Processed(db, t, h) = r
  <2>1. CASE shown = t
    <3>1. Spends[t] # None /\ ShownBy(Now, Spends[t]) = t
      BY <1>1, <1>6, <2>1, TxTypes
    <3>2. Creates[t] # None => Creates[t] \in DOMAIN anonOutputs
      <4>1. \/ Spends[t] \in DOMAIN keyImages /\ t = keyImages[Spends[t]]
            \/ Spends[t] \in DOMAIN mapKeyImage /\ t = mapKeyImage[Spends[t]]
            \/ t = None
        BY <3>1 DEF ShownBy, Now
      <4> QED
        BY <1>1, <4>1, TxTypes DEF Connects, Matches, Named
    <3>3. \A c \in DOMAIN anonOutputs : c # None => c \in DOMAIN o
      BY DEF Noted, Overridden
    <3>4. Creates[t] # None => Creates[t] \in DOMAIN o
      BY <3>2, <3>3
    <3> HIDE DEF i, o, p, h
    <3>5. Processed(db, t, h) = Updated(db, t, h)
      BY <3>1, <2>1 DEF Processed, shown
    <3>6. Updated(Record(i, o, p), t, h)
            = IF Creates[t] # None /\ Creates[t] \notin DOMAIN o THEN Record(i, o, p)
              ELSE Record(Imaged(i, t), Coined(o, t, h), p)
      BY <1>1, UpdatedIs
    <3> QED
      BY <1>2, <3>4, <3>5, <3>6
  <2>2. CASE shown # t
    <3>1. shown \notin InSystem(hashBestChain) \cup mapTx
      <4>1. CASE Spends[t] = None
        <5>1. InSystem(hashBestChain) \subseteq Txs /\ mapTx \subseteq Txs
          BY InSystemOnChain DEF Connects, TypeInv, JobInv
        <5> QED
          BY <4>1, <5>1, AnonAssumption
      <4>2. CASE Spends[t] # None
        BY <1>6, <2>2, <4>2, NotShownInSystem
      <4> QED
        BY <4>1, <4>2
    <3> HIDE DEF i, o, p, h
    <3> QED
      BY <1>1, <1>2, <1>7, <2>2, <3>1, ProcessedForBlock
  <2> QED
    BY <2>1, <2>2
<1>9. Overridden(keyImages, Imaged(i, t), U \cup {t}, Spends, Self)
  <2>1. Overridden(keyImages, i, U, Spends, Self) /\ Self[t] = t
    BY <1>1 DEF Noted, Self
  <2> HIDE DEF i
  <2>2. Overridden(keyImages, IF Spends[t] = None THEN i ELSE Put(i, Spends[t], Self[t]),
                   U \cup {t}, Spends, Self)
    BY <1>4, <2>1, OverrideStep
  <2> QED
    BY <2>1, <2>2 DEF Imaged
<1>10. Overridden(anonOutputs, Coined(o, t, h), U \cup {t}, Creates, At(h))
  <2>1. Overridden(anonOutputs, o, U, Creates, At(h)) /\ At(h)[t] = h
    BY <1>1 DEF Noted, At
  <2> HIDE DEF o, h
  <2>2. Overridden(anonOutputs, IF Creates[t] = None THEN o ELSE Put(o, Creates[t], At(h)[t]),
                   U \cup {t}, Creates, At(h))
    BY <1>5, <2>1, OverrideStep
  <2> QED
    BY <2>1, <2>2 DEF Coined
<1>11. Db(Processed(db, t, h))
  BY <1>1, <1>2, ProcessedTyped
<1> HIDE DEF i, o, p
<1>12. r.images = Imaged(i, t) /\ r.outputs = Coined(o, t, h) /\ r.pool = p
  BY DEF Record
<1> HIDE DEF r
<1> QED
  BY <1>2, <1>8, <1>9, <1>10, <1>11, <1>12 DEF Noted

(* The first transactions of a block.                                      *)
First(b, i) == {Vtx[b][j] : j \in 1 .. i}

LEMMA FirstFacts ==
    ASSUME NEW b \in Blocks
    PROVE  /\ First(b, 0) = {} /\ First(b, Len(Vtx[b])) = TxsIn(b)
           /\ \A i \in 1 .. Len(Vtx[b]) :
                 /\ First(b, i) = First(b, i - 1) \cup {Vtx[b][i]}
                 /\ Vtx[b][i] \in TxsIn(b) \ First(b, i - 1)
                 /\ First(b, i - 1) \subseteq TxsIn(b)
<1> DEFINE n == Len(Vtx[b])
<1>1. /\ n \in Nat /\ DOMAIN Vtx[b] = 1 .. n
      /\ \A i \in 1 .. n : Vtx[b][i] \in TxsIn(b)
      /\ \A i, j \in 1 .. n : i # j => Vtx[b][i] # Vtx[b][j]
  BY BlockTxs
<1> HIDE DEF n
<1>2. First(b, 0) = {} /\ First(b, n) = TxsIn(b)
  BY <1>1 DEF First, TxsIn
<1>3. ASSUME NEW i \in 1 .. n
      PROVE  /\ First(b, i) = First(b, i - 1) \cup {Vtx[b][i]}
             /\ Vtx[b][i] \in TxsIn(b) \ First(b, i - 1)
             /\ First(b, i - 1) \subseteq TxsIn(b)
  <2>1. 1 .. i = (1 .. i - 1) \cup {i} /\ i \notin 1 .. i - 1 /\ 1 .. i - 1 \subseteq 1 .. n
    BY <1>1
  <2> QED
    BY <1>1, <2>1 DEF First
<1> QED
  BY <1>2, <1>3 DEF n

LEMMA ConnectNotes ==
    ASSUME NEW b, Connects(b)
    PROVE  Noted(SyncWithWallets(b, TRUE), b, TxsIn(b))
<1> DEFINE n == Len(Vtx[b])
<1>1. b \in Blocks /\ n \in Nat
  BY BlockTxs DEF Connects
<1>2. PICK g : /\ g[0] = Now
               /\ \A i \in 1 .. n : g[i] = Told(g[i - 1], b, i, TRUE)
               /\ SyncWithWallets(b, TRUE) = g[n]
  BY <1>1, ToldSteps
<1> DEFINE T == {i \in 0 .. n : ~Noted(g[i], b, First(b, i))}
<1>3. Noted(g[0], b, First(b, 0))
  <2>1. Now.images = keyImages /\ Now.outputs = anonOutputs /\ Now.pool = mapKeyImage
    BY DEF Now
  <2> QED
    BY <1>1, <1>2, <2>1, FirstFacts DEF Noted, Overridden, Connects, TypeInv
<1>4. \A i \in 1 .. n : Noted(g[i - 1], b, First(b, i - 1)) => Noted(g[i], b, First(b, i))
  <2> SUFFICES ASSUME NEW i \in 1 .. n, Noted(g[i - 1], b, First(b, i - 1))
               PROVE  Noted(g[i], b, First(b, i))
    OBVIOUS
  <2>1. g[i] = Processed(g[i - 1], Vtx[b][i], Height[b])
    BY <1>2 DEF Told
  <2>2. /\ First(b, i) = First(b, i - 1) \cup {Vtx[b][i]}
        /\ Vtx[b][i] \in TxsIn(b) /\ Vtx[b][i] \notin First(b, i - 1)
        /\ First(b, i - 1) \in SUBSET TxsIn(b)
    BY <1>1, FirstFacts
  <2>3. Noted(Processed(g[i - 1], Vtx[b][i], Height[b]), b, First(b, i - 1) \cup {Vtx[b][i]})
    BY <2>2, ConnectTx
  <2> QED
    BY <2>1, <2>2, <2>3
<1> HIDE DEF n
<1>5. T = {}
  <2>1. SUFFICES ASSUME T # {}
                 PROVE  FALSE
    OBVIOUS
  <2>2. PICK m \in T : \A k \in T : m <= k
    <3>1. T \subseteq Nat
      BY <1>1
    <3> HIDE DEF T
    <3> QED
      BY <2>1, <3>1, LeastOf
  <2>3. m # 0
    BY <1>3
  <2>4. m - 1 \in 0 .. n /\ m - 1 \notin T /\ m \in 1 .. n
    BY <1>1, <2>2, <2>3
  <2> QED
    BY <1>4, <2>4
<1>6. Noted(g[n], b, First(b, n))
  BY <1>1, <1>5
<1> QED
  BY <1>1, <1>2, <1>6, FirstFacts DEF n

LEMMA ConnectMatches ==
    ASSUME NEW b, Connects(b), NEW db, Noted(db, b, TxsIn(b))
    PROVE  Matches(db.images, db.outputs, db.pool, b, hashBestChain)
<1> DEFINE i == db.images
           o == db.outputs
           h == Height[b]
<1>1. /\ b \in Blocks /\ b \in Chain[b] /\ Chain[b] = {b} \cup Chain[cursor] /\ b \notin Chain[cursor]
      /\ TxsOf(Chain[b]) = TxsIn(b) \cup TxsOf(Chain[cursor]) /\ TxsIn(b) \subseteq Txs
  BY ChainBasics, BlockTxs DEF Connects, TxsOf
<1>2. /\ db.pool = mapKeyImage
      /\ Overridden(keyImages, i, TxsIn(b), Spends, Self)
      /\ Overridden(anonOutputs, o, TxsIn(b), Creates, At(h))
  BY DEF Noted
<1>3. Matches(keyImages, anonOutputs, mapKeyImage, cursor, hashBestChain)
  BY DEF Connects
<1> HIDE DEF i, o
<1>4. /\ \A k \in DOMAIN i : k \in DOMAIN keyImages \/ \E u \in TxsIn(b) : Spends[u] = k
      /\ \A u \in TxsIn(b) : Spends[u] # None => Spends[u] \in DOMAIN i /\ i[Spends[u]] = u
      /\ \A k \in DOMAIN keyImages :
            (\A u \in TxsIn(b) : Spends[u] # k) => k \in DOMAIN i /\ i[k] = keyImages[k]
  BY <1>1, <1>2 DEF Overridden, Self
<1>5. /\ \A c \in DOMAIN o : c \in DOMAIN anonOutputs \/ \E u \in TxsIn(b) : Creates[u] = c
      /\ \A u \in TxsIn(b) : Creates[u] # None => Creates[u] \in DOMAIN o /\ o[Creates[u]] = h
      /\ \A c \in DOMAIN anonOutputs :
            (\A u \in TxsIn(b) : Creates[u] # c) => c \in DOMAIN o /\ o[c] = anonOutputs[c]
  BY <1>1, <1>2 DEF Overridden, At
<1>6. None \notin DOMAIN i /\ None \notin DOMAIN o
  BY AnonAssumption DEF Noted, Db, i, o
<1>7. None \notin DOMAIN anonOutputs /\ DOMAIN anonOutputs \subseteq DOMAIN o
  <2>1. None \notin DOMAIN anonOutputs
    BY AnonAssumption DEF Connects, TypeInv, Db, Now
  <2> QED
    BY <1>5, <2>1
<1>8. ASSUME NEW c \in Chain[b]
      PROVE  Recorded(i, o, c)
  <2>1. CASE c = b
    BY <1>4, <1>5, <2>1 DEF Recorded
  <2>2. CASE c # b
    <3> SUFFICES ASSUME NEW t \in TxsIn(c)
                 PROVE  /\ Spends[t] # None => Spends[t] \in DOMAIN i /\ i[Spends[t]] = t
                        /\ Creates[t] # None => Creates[t] \in DOMAIN o /\ o[Creates[t]] = Height[c]
      BY DEF Recorded
    <3>1. Recorded(keyImages, anonOutputs, c)
      BY <1>1, <1>3, <2>2 DEF Matches
    <3>2. \A u \in TxsIn(b) : /\ Spends[t] # None => Spends[u] # Spends[t]
                              /\ Creates[t] # None => Creates[u] # Creates[t]
      BY <1>1, <2>2, OnOneChain
    <3> QED
      BY <1>4, <1>5, <3>1, <3>2 DEF Recorded
  <2> QED
    BY <2>1, <2>2
<1>9. ASSUME NEW c \in DOMAIN o, o[c] > 0
      PROVE  \E t \in TxsOf(Chain[b]) : Creates[t] = c
  <2>1. CASE \E u \in TxsIn(b) : Creates[u] = c
    BY <1>1, <2>1
  <2>2. CASE \A u \in TxsIn(b) : Creates[u] # c
    <3>1. c \in DOMAIN anonOutputs /\ anonOutputs[c] > 0
      BY <1>5, <1>9, <2>2
    <3> QED
      BY <1>1, <1>3, <3>1 DEF Matches
  <2> QED
    BY <2>1, <2>2
<1>10. ASSUME NEW k \in DOMAIN i
       PROVE  \/ i[k] \in TxsIn(b) /\ Spends[i[k]] = k
              \/ k \in DOMAIN keyImages /\ i[k] = keyImages[k]
  <2>1. CASE \E u \in TxsIn(b) : Spends[u] = k
    <3>1. PICK u \in TxsIn(b) : Spends[u] = k
      BY <2>1
    <3>2. k # None
      BY <1>6
    <3>3. i[k] = u
      BY <1>4, <3>1, <3>2
    <3> QED
      BY <3>1, <3>3
  <2>2. CASE \A u \in TxsIn(b) : Spends[u] # k
    BY <1>4, <2>2
  <2> QED
    BY <2>1, <2>2
<1>11. Named(i, o)
  BY <1>3, <1>5, <1>7, <1>10 DEF Matches, Named
<1>12. Named(db.pool, o)
  BY <1>2, <1>3, <1>7 DEF Matches, Named
<1>13. \A k \in DOMAIN i : i[k] \in TxsOf(Chain[hashBestChain]) => i[k] \in TxsOf(Chain[b])
  BY <1>1, <1>3, <1>10 DEF Matches
<1> QED
  BY <1>8, <1>9, <1>11, <1>12, <1>13 DEF Matches, i, o

-----------------------------------------------------------------------------
(* A block is disconnected: its images and its coins go.                   *)

Removed(old, new, U, key) ==
    /\ DOMAIN new = DOMAIN old \ {key[u] : u \in U}
    /\ \A k \in DOMAIN new : new[k] = old[k]

LEMMA RemoveStep ==
    ASSUME NEW old, NEW new, NEW U, NEW key, NEW t, Removed(old, new, U, key)
    PROVE  Removed(old, Without(new, {key[t]}), U \cup {t}, key)
BY DEF Removed, Without

(* The first transactions U of the block b have been undone.               *)
Unnoted(db, U) ==
    /\ Db(db) /\ db.pool = mapKeyImage
    /\ Removed(keyImages, db.images, U, Spends)
    /\ Removed(anonOutputs, db.outputs, U, Creates)

(* DisconnectBlock takes the tip of cursor's chain away.                   *)
Disconnects ==
    /\ TypeInv /\ PoolInv /\ pc = "batch"
    /\ Matches(keyImages, anonOutputs, mapKeyImage, cursor, hashBestChain)
    /\ cursor \in Blocks \ {Genesis} /\ cursor \in Chain[hashBestChain]

LEMMA DisconnectTx ==
    ASSUME Disconnects, NEW U \in SUBSET TxsIn(cursor), NEW db, Unnoted(db, U),
           NEW t \in TxsIn(cursor), t \notin U
    PROVE  Unnoted(Undone(db, t), U \cup {t})
<1> DEFINE i == Unshown(db, t)
           o == Without(db.outputs, {Creates[t]})
<1>1. cursor \in Blocks /\ cursor \in Chain[cursor] /\ t \in Txs /\ Db(db)
  BY ChainBasics, BlockTxs DEF Disconnects, Unnoted
<1>2. Undone(db, t) = Record(i, o, db.pool) /\ Db(Undone(db, t))
  BY <1>1, UndoneIs, UndoneTyped
<1>3. Removed(keyImages, Without(db.images, {Spends[t]}), U \cup {t}, Spends)
      /\ Removed(anonOutputs, o, U \cup {t}, Creates)
  BY RemoveStep DEF Unnoted
<1>4. Removed(keyImages, i, U \cup {t}, Spends)
  <2>1. CASE Spends[t] = None
    <3>1. i = db.images
      BY <2>1 DEF Unshown
    <3>2. None \notin DOMAIN db.images
      BY AnonAssumption DEF Unnoted, Db
    <3>3. {Spends[u] : u \in U \cup {t}} = {Spends[u] : u \in U} \cup {None}
      BY <2>1
    <3> QED
      BY <3>1, <3>2, <3>3 DEF Unnoted, Removed
  <2>2. CASE Spends[t] # None
    <3>1. Spends[t] \in DOMAIN keyImages /\ keyImages[Spends[t]] = t
      BY <1>1, <2>2 DEF Disconnects, Matches, Recorded
    <3>2. \A u \in U : Spends[u] # Spends[t]
      <4> SUFFICES ASSUME NEW u \in U, Spends[u] = Spends[t]
                   PROVE  FALSE
        OBVIOUS
      <4>1. u \in TxsIn(cursor) /\ u # t
        OBVIOUS
      <4> QED
        BY <1>1, <2>2, <4>1, OnOneChain
    <3>3. Spends[t] \in DOMAIN db.images /\ db.images[Spends[t]] = t
      BY <3>1, <3>2 DEF Unnoted, Removed
    <3>4. ShownBy(db, Spends[t]) = t
      BY <3>3 DEF ShownBy
    <3>5. i = Without(db.images, {Spends[t]})
      BY <2>2, <3>4 DEF Unshown
    <3> QED
      BY <1>3, <3>5
  <2> QED
    BY <2>1, <2>2
<1> HIDE DEF i, o
<1>5. Undone(db, t).images = i /\ Undone(db, t).outputs = o /\ Undone(db, t).pool = db.pool
  BY <1>2, RecordFields
<1> QED
  BY <1>2, <1>3, <1>4, <1>5 DEF Unnoted

LEMMA DisconnectUnnotes ==
    ASSUME Disconnects
    PROVE  Unnoted(SyncWithWallets(cursor, FALSE), TxsIn(cursor))
<1> DEFINE n == Len(Vtx[cursor])
<1>1. cursor \in Blocks /\ n \in Nat
  BY BlockTxs DEF Disconnects
<1>2. PICK g : /\ g[0] = Now
               /\ \A i \in 1 .. n : g[i] = Told(g[i - 1], cursor, i, FALSE)
               /\ SyncWithWallets(cursor, FALSE) = g[n]
  BY <1>1, ToldSteps
<1> DEFINE T == {i \in 0 .. n : ~Unnoted(g[i], First(cursor, i))}
<1>3. Unnoted(g[0], First(cursor, 0))
  <2>1. Now.images = keyImages /\ Now.outputs = anonOutputs /\ Now.pool = mapKeyImage
    BY DEF Now
  <2>2. First(cursor, 0) = {} /\ g[0] = Now /\ Db(Now)
    BY <1>1, <1>2, FirstFacts DEF Disconnects, TypeInv
  <2>3. Removed(keyImages, keyImages, {}, Spends) /\ Removed(anonOutputs, anonOutputs, {}, Creates)
    BY DEF Removed
  <2> QED
    BY <2>1, <2>2, <2>3 DEF Unnoted
<1>4. \A i \in 1 .. n : Unnoted(g[i - 1], First(cursor, i - 1)) => Unnoted(g[i], First(cursor, i))
  <2> SUFFICES ASSUME NEW i \in 1 .. n, Unnoted(g[i - 1], First(cursor, i - 1))
               PROVE  Unnoted(g[i], First(cursor, i))
    OBVIOUS
  <2>1. g[i] = Undone(g[i - 1], Vtx[cursor][i])
    BY <1>2 DEF Told
  <2>2. /\ First(cursor, i) = First(cursor, i - 1) \cup {Vtx[cursor][i]}
        /\ Vtx[cursor][i] \in TxsIn(cursor) /\ Vtx[cursor][i] \notin First(cursor, i - 1)
        /\ First(cursor, i - 1) \in SUBSET TxsIn(cursor)
    BY <1>1, FirstFacts
  <2>3. Unnoted(Undone(g[i - 1], Vtx[cursor][i]), First(cursor, i - 1) \cup {Vtx[cursor][i]})
    BY <2>2, DisconnectTx
  <2> QED
    BY <2>1, <2>2, <2>3
<1> HIDE DEF n
<1>5. T = {}
  <2>1. SUFFICES ASSUME T # {}
                 PROVE  FALSE
    OBVIOUS
  <2>2. PICK m \in T : \A k \in T : m <= k
    <3>1. T \subseteq Nat
      BY <1>1
    <3> HIDE DEF T
    <3> QED
      BY <2>1, <3>1, LeastOf
  <2>3. m # 0
    BY <1>3
  <2>4. m - 1 \in 0 .. n /\ m - 1 \notin T /\ m \in 1 .. n
    BY <1>1, <2>2, <2>3
  <2> QED
    BY <1>4, <2>4
<1>6. Unnoted(g[n], First(cursor, n))
  BY <1>1, <1>5
<1> QED
  BY <1>1, <1>2, <1>6, FirstFacts DEF n

LEMMA DisconnectMatches ==
    ASSUME Disconnects, NEW db, Unnoted(db, TxsIn(cursor))
    PROVE  Matches(db.images, db.outputs, db.pool, Prev[cursor], hashBestChain)
<1> DEFINE i == db.images
           o == db.outputs
           a == Prev[cursor]
<1>1. /\ cursor \in Blocks \ {Genesis} /\ cursor \in Chain[cursor]
      /\ a \in Blocks /\ Chain[cursor] = {cursor} \cup Chain[a] /\ cursor \notin Chain[a]
  <2>1. cursor \in Blocks \ {Genesis} /\ cursor \in Chain[cursor] /\ a \in Blocks
    BY ChainBasics DEF Disconnects
  <2>2. Height[cursor] = Height[a] + 1 /\ Height[a] \in Nat
    BY <2>1, ChainAssumption
  <2> QED
    BY <2>1, <2>2, ChainStep, ChainBelow
<1>2. TxsOf(Chain[cursor]) = TxsIn(cursor) \cup TxsOf(Chain[a])
  BY <1>1 DEF TxsOf
<1> HIDE DEF a
<1>3. /\ DOMAIN i = DOMAIN keyImages \ {Spends[u] : u \in TxsIn(cursor)}
      /\ \A k \in DOMAIN i : i[k] = keyImages[k]
      /\ DOMAIN o = DOMAIN anonOutputs \ {Creates[u] : u \in TxsIn(cursor)}
      /\ \A c \in DOMAIN o : o[c] = anonOutputs[c]
      /\ db.pool = mapKeyImage
  BY DEF Unnoted, Removed
<1>4. Matches(keyImages, anonOutputs, mapKeyImage, cursor, hashBestChain)
  BY DEF Disconnects
<1> HIDE DEF i, o
<1>5. ASSUME NEW c \in Chain[a]
      PROVE  Recorded(i, o, c)
  <2> SUFFICES ASSUME NEW t \in TxsIn(c)
               PROVE  /\ Spends[t] # None => Spends[t] \in DOMAIN i /\ i[Spends[t]] = t
                      /\ Creates[t] # None => Creates[t] \in DOMAIN o /\ o[Creates[t]] = Height[c]
    BY DEF Recorded
  <2>1. c \in Chain[cursor] /\ c # cursor
    BY <1>1
  <2>2. Recorded(keyImages, anonOutputs, c)
    BY <1>4, <2>1 DEF Matches
  <2>3. \A u \in TxsIn(cursor) : /\ Spends[t] # None => Spends[u] # Spends[t]
                                 /\ Creates[t] # None => Creates[u] # Creates[t]
    BY <1>1, <2>1, OnOneChain
  <2> QED
    BY <1>3, <2>2, <2>3 DEF Recorded
<1>6. ASSUME NEW c \in DOMAIN o, o[c] > 0
      PROVE  \E t \in TxsOf(Chain[a]) : Creates[t] = c
  <2>1. PICK t \in TxsOf(Chain[cursor]) : Creates[t] = c
    BY <1>3, <1>4, <1>6 DEF Matches
  <2> QED
    BY <1>2, <1>3, <2>1
<1>7. ASSUME NEW w \in Txs, w \notin TxsIn(cursor), Creates[w] # None,
             Creates[w] \in DOMAIN anonOutputs
      PROVE  Creates[w] \in DOMAIN o
  <2>1. \A u \in TxsIn(cursor) : u \in Txs /\ u # w
    BY <1>1, <1>7, BlockTxs
  <2>2. \A u \in TxsIn(cursor) : Creates[u] # Creates[w]
    BY <1>7, <2>1, AnonAssumption
  <2> QED
    BY <1>3, <1>7, <2>2
<1>8. /\ keyImages \in [DOMAIN keyImages -> Txs] /\ mapKeyImage \in [DOMAIN mapKeyImage -> Txs]
      /\ hashBestChain \in Blocks
  BY DEF Disconnects, TypeInv, JobInv, Db, Now
<1>9. \A k \in DOMAIN i : i[k] \in Txs /\ i[k] \notin TxsIn(cursor)
  <2> SUFFICES ASSUME NEW k \in DOMAIN i
               PROVE  i[k] \in Txs /\ i[k] \notin TxsIn(cursor)
    OBVIOUS
  <2>1. k \in DOMAIN keyImages /\ i[k] = keyImages[k] /\ \A u \in TxsIn(cursor) : Spends[u] # k
    BY <1>3
  <2>2. Spends[keyImages[k]] = k /\ keyImages[k] \in Txs
    BY <1>4, <1>8, <2>1 DEF Matches, Named
  <2> QED
    BY <2>1, <2>2
<1>10. Named(i, o)
  BY <1>3, <1>4, <1>7, <1>9 DEF Matches, Named
<1>11. Named(db.pool, o)
  <2>1. \A k \in DOMAIN mapKeyImage : mapKeyImage[k] \in Txs /\ mapKeyImage[k] \notin TxsIn(cursor)
    <3>1. TxsIn(cursor) \subseteq TxsOf(Chain[hashBestChain])
      BY DEF Disconnects, TxsOf
    <3> QED
      BY <1>8, <3>1 DEF Disconnects, PoolInv
  <2> QED
    BY <1>3, <1>4, <1>7, <2>1 DEF Matches, Named
<1>12. \A k \in DOMAIN i : i[k] \in TxsOf(Chain[hashBestChain]) => i[k] \in TxsOf(Chain[a])
  BY <1>2, <1>3, <1>4, <1>9 DEF Matches
<1> QED
  BY <1>5, <1>6, <1>10, <1>11, <1>12 DEF Matches, i, o, a

-----------------------------------------------------------------------------
(* The theorems.                                                           *)

LEMMA RecInit == AnonInit => RecInv
<1> SUFFICES ASSUME AnonInit
             PROVE  RecInv
  OBVIOUS
<1>1. /\ cursor = Genesis /\ hashBestChain = Genesis
      /\ keyImages = Empty /\ anonOutputs = Empty /\ mapKeyImage = Empty
  BY DEF AnonInit
<1>2. \A b \in Chain[Genesis] : TxsIn(b) = {}
  BY ChainGenesis, TxAssumption DEF TxsIn
<1>3. DOMAIN Empty = {}
  BY DEF Empty
<1> QED
  BY <1>1, <1>2, <1>3 DEF RecInv, Matches, Recorded, Named

LEMMA RecStep ==
    ASSUME TypeInv, PoolInv, RecInv, [AnonNext]_anonVars
    PROVE  RecInv'
<1>1. JobInv /\ Db(Now)
      /\ (~interrupted => Matches(keyImages, anonOutputs, mapKeyImage, cursor, hashBestChain))
  BY DEF TypeInv, RecInv
<1>2. SUFFICES ASSUME ~interrupted'
               PROVE  Matches(keyImages', anonOutputs', mapKeyImage', cursor', hashBestChain')
  BY DEF RecInv
<1>3. CASE TellWallets
  <2> DEFINE r == Processed(Now, received, 0)
  <2>1. /\ pc = "accepted" /\ received \in mapTx /\ received \in Txs /\ Commits(r)
        /\ UNCHANGED <<hashBestChain, cursor, interrupted>>
    BY <1>1, <1>3 DEF TellWallets, JobInv, tips, job
  <2>2. /\ cursor \in Blocks /\ hashBestChain \in Blocks
        /\ received \notin TxsOf(Chain[cursor]) \cup TxsOf(Chain[hashBestChain])
    BY <1>1, <2>1 DEF JobInv, PoolInv
  <2>3. Now.images = keyImages /\ Now.outputs = anonOutputs /\ Now.pool = mapKeyImage
    BY DEF Now
  <2>4. Matches(r.images, r.outputs, r.pool, cursor, hashBestChain)
    BY <1>1, <1>2, <2>1, <2>2, <2>3, ProcessedMatches
  <2> HIDE DEF r
  <2> QED
    BY <2>1, <2>4 DEF Commits
<1>4. CASE Disconnect
  <2>1. /\ pc = "batch" /\ cursor \notin Chain[target] /\ Commits(SyncWithWallets(cursor, FALSE))
        /\ cursor' = Prev[cursor] /\ UNCHANGED <<hashBestChain, interrupted>>
    BY <1>4 DEF Disconnect, tips
  <2> DEFINE r == SyncWithWallets(cursor, FALSE)
  <2>2. Disconnects
    BY <1>1, <1>2, <2>1, DisconnectedBlock DEF Disconnects
  <2>3. Matches(r.images, r.outputs, r.pool, Prev[cursor], hashBestChain)
    BY <2>2, DisconnectUnnotes, DisconnectMatches
  <2> HIDE DEF r
  <2>4. Commits(r)
    BY <2>1 DEF r
  <2> QED
    BY <2>1, <2>3, <2>4 DEF Commits
<1>5. CASE Connect
  <2> DEFINE b == NextOn(target)
             r == SyncWithWallets(b, TRUE)
  <2>1. /\ pc = "batch" /\ cursor \in Chain[target] \ {target}
        /\ \A t \in TxsIn(b) : CheckAnonInputs(InSystem(cursor), t)
        /\ Commits(r) /\ cursor' = b /\ UNCHANGED <<hashBestChain, interrupted>>
    BY <1>5 DEF Connect, tips
  <2>2. b \in Blocks \ {Genesis} /\ Chain[b] = {b} \cup Chain[cursor] /\ b \notin Chain[cursor]
    BY <1>1, <2>1, ConnectedBlock
  <2> HIDE DEF b
  <2>3. Connects(b)
    BY <1>1, <1>2, <2>1, <2>2 DEF Connects
  <2>4. Matches(r.images, r.outputs, r.pool, b, hashBestChain)
    BY <2>3, ConnectNotes, ConnectMatches
  <2> HIDE DEF r
  <2> QED
    BY <2>1, <2>4 DEF Commits
<1>6. CASE GiveUp
  <2>1. cursor = hashBestChain /\ ~interrupted /\ cursor' = hashBestChain
        /\ UNCHANGED <<hashBestChain, keyImages, anonOutputs, mapKeyImage>>
    BY <1>2, <1>6 DEF GiveUp, anonData
  <2> QED
    BY <1>1, <2>1
<1>7. CASE Commit
  <2>1. /\ cursor = target /\ hashBestChain' = target
        /\ UNCHANGED <<keyImages, anonOutputs, mapKeyImage, cursor, interrupted>>
    BY <1>7 DEF Commit, anonData, job
  <2>2. Matches(keyImages, anonOutputs, mapKeyImage, cursor, cursor)
    BY <1>1, <1>2, <2>1 DEF Matches
  <2> QED
    BY <2>1, <2>2
<1>8. CASE Delete
  <2>1. PICK S : RemoveFromPool(S)
    BY <1>8 DEF Delete
  <2>2. UNCHANGED <<hashBestChain, keyImages, anonOutputs, cursor, interrupted>>
        /\ mapKeyImage' = Without(mapKeyImage, {Spends[t] : t \in S \cap mapTx})
    BY <1>8, <2>1 DEF Delete, RemoveFromPool, tips
  <2>3. Matches(keyImages, anonOutputs, mapKeyImage', cursor, hashBestChain)
    BY <1>1, <1>2, <2>2 DEF Matches, Named, Without
  <2> QED
    BY <2>2, <2>3
<1>9. CASE Restart
  <2>1. /\ cursor' = hashBestChain /\ ~interrupted /\ (pc = "batch" => cursor = hashBestChain)
        /\ mapKeyImage' = Empty /\ UNCHANGED <<hashBestChain, keyImages, anonOutputs>>
    BY <1>2, <1>9 DEF Restart
  <2>2. cursor = hashBestChain
    BY <1>1, <2>1 DEF JobInv
  <2>3. Matches(keyImages, anonOutputs, Empty, hashBestChain, hashBestChain)
    BY <1>1, <2>1, <2>2 DEF Matches, Named, Empty
  <2> QED
    BY <2>1, <2>3
<1>10. CASE Received \/ EndTx \/ Started \/ Resurrect \/ NextSecondary \/ NewBestBlock
            \/ UNCHANGED anonVars
  <2>1. UNCHANGED <<hashBestChain, keyImages, anonOutputs, mapKeyImage, cursor, interrupted>>
    BY <1>10 DEF Received, ReceiveTx, AcceptOrphan, EndTx, Started, StartSetBestChain, Resurrect,
       NextSecondary, NewBestBlock, anonVars,
       tips, anonData, job
  <2> QED
    BY <1>1, <1>2, <2>1
<1> QED
  BY <1>3, <1>4, <1>5, <1>6, <1>7, <1>8, <1>9, <1>10 DEF AnonNext

LEMMA AnonInvariant == AnonSpec => [](TypeInv /\ PoolInv /\ RecInv)
<1>1. AnonInit => TypeInv /\ PoolInv /\ RecInv
  BY TypeInit, PoolInit, RecInit
<1>2. (TypeInv /\ PoolInv /\ RecInv) /\ [AnonNext]_anonVars => (TypeInv /\ PoolInv /\ RecInv)'
  BY TypeStep, PoolStep, RecStep
<1> QED
  BY <1>1, <1>2, PTL DEF AnonSpec

(* Through ProcessAnonTransaction, UpdateAnonTransaction and               *)
(* UndoAnonTransaction, reorganisations and restarts, the key images and   *)
(* anonymous outputs of the database are those of the chain, as long as    *)
(* nothing cut short what SetBestChain had begun.                          *)
THEOREM RecordsFollowChain == AnonSpec => []RecordsMatchChain
<1>1. TypeInv /\ PoolInv /\ RecInv => RecordsMatchChain
  <2> SUFFICES ASSUME TypeInv, RecInv
               PROVE  RecordsMatchChain
    OBVIOUS
  <2>1. ASSUME pc = "idle", ~interrupted
        PROVE  /\ ChainIsRecorded
               /\ \A o \in DOMAIN anonOutputs : anonOutputs[o] > 0 =>
                     \E t \in TxsOf(Chain[hashBestChain]) : Creates[t] = o
    <3>1. Matches(keyImages, anonOutputs, mapKeyImage, hashBestChain, hashBestChain)
      BY <2>1 DEF TypeInv, JobInv, RecInv
    <3> QED
      BY <3>1 DEF Matches, Recorded, ChainIsRecorded
  <2> QED
    BY <2>1, TypesSuffice DEF RecordsMatchChain
<1> QED
  BY <1>1, AnonInvariant, PTL

(* CheckAnonInputs passes every transaction of an honest block that        *)
(* extends the tip, whatever key images and coins disconnected branches,   *)
(* lost pools and unconfirmed transactions have left behind, unless the    *)
(* pool holds another spender of the same coin.                            *)
THEOREM HonestBlocksConnect == AnonSpec => []HonestBlockConnects
<1>1. TypeInv /\ PoolInv /\ RecInv => HonestBlockConnects
  <2> SUFFICES ASSUME TypeInv, PoolInv, RecInv, pc = "idle", ~interrupted,
                      pindexBest = hashBestChain,
                      NEW x \in Blocks \ {Genesis}, Extends(x), NEW t \in TxsIn(x),
                      \A u \in mapTx \ {t} : Spends[t] = None \/ Spends[u] # Spends[t],
                      Spends[t] # None
               PROVE  /\ ShownBy(Now, Spends[t]) \notin (InSystem(hashBestChain) \cup mapTx) \ {t}
                      /\ RingUsable(Now, t)
    BY DEF HonestBlockConnects, CheckAnonInputs
  <2>1. /\ Matches(keyImages, anonOutputs, mapKeyImage, hashBestChain, hashBestChain)
        /\ hashBestChain \in Blocks /\ mapTx \subseteq Txs
    BY DEF TypeInv, JobInv, RecInv
  <2>2. Chain[x] = {x} \cup Chain[hashBestChain] /\ x \in Chain[x] /\ t \in Txs
        /\ Height[x] = Height[hashBestChain] + 1 /\ Height[hashBestChain] \in Nat
    BY <2>1, ChainBasics, ChainStep, ChainAssumption, BlockTxs DEF Extends
  <2>3. ShownBy(Now, Spends[t]) \notin (InSystem(hashBestChain) \cup mapTx) \ {t}
    <3> DEFINE w == ShownBy(Now, Spends[t])
    <3>1. \/ Spends[t] \in DOMAIN keyImages /\ w = keyImages[Spends[t]]
          \/ Spends[t] \in DOMAIN mapKeyImage /\ w = mapKeyImage[Spends[t]]
          \/ w = None
      BY DEF ShownBy, Now
    <3> HIDE DEF w
    <3>2. w = None \/ Spends[w] = Spends[t]
      BY <2>1, <3>1 DEF Matches, Named
    <3>3. ASSUME w \in InSystem(hashBestChain), w # t
          PROVE  FALSE
      <4>1. w \in TxsOf(Chain[hashBestChain]) /\ w # None
        BY <2>1, <3>3, InSystemOnChain, AnonAssumption
      <4>2. PICK c \in Chain[hashBestChain] : w \in TxsIn(c)
        BY <4>1 DEF TxsOf
      <4>3. c \in Chain[x]
        BY <2>2
      <4> QED
        BY <2>2, <3>2, <3>3, <4>1, <4>2, <4>3, OnOneChain
    <3>4. ASSUME w \in mapTx, w # t
          PROVE  FALSE
      BY <2>1, <3>2, <3>4, AnonAssumption
    <3> QED
      BY <3>3, <3>4 DEF w
  <2>4. ASSUME NEW o \in Ring[t]
        PROVE  /\ o \in DOMAIN anonOutputs /\ anonOutputs[o] # 0
               /\ Height[pindexBest] - anonOutputs[o] >= MinDepth
    <3>1. PICK c \in Chain[x] : /\ Height[x] - 1 - Height[c] >= MinDepth
                                /\ \E u \in TxsIn(c) : Creates[u] = o
      BY AnonAssumption
    <3>2. PICK u \in TxsIn(c) : Creates[u] = o
      BY <3>1
    <3>3. c \in Blocks \ {Genesis} /\ Height[c] \in Nat \ {0} /\ MinDepth \in Nat \ {0}
      <4>1. c \in Blocks /\ TxsIn(Genesis) = {}
        BY ChainBasics, TxAssumption DEF TxsIn
      <4> QED
        BY <3>2, <4>1, AboveGenesis, AnonAssumption
    <3>4. c \in Chain[hashBestChain]
      BY <2>2, <3>1, <3>3
    <3>5. o # None
      BY <2>2, TxTypes, AnonAssumption
    <3>6. o \in DOMAIN anonOutputs /\ anonOutputs[o] = Height[c]
      BY <2>1, <3>2, <3>4, <3>5 DEF Matches, Recorded
    <3> QED
      BY <2>2, <3>1, <3>3, <3>6
  <2>5. RingUsable(Now, t)
    BY <2>4 DEF RingUsable, Now
  <2> QED
    BY <2>3, <2>5
<1> QED
  BY <1>1, AnonInvariant, PTL
=============================================================================
