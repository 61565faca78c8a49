---------------------------- MODULE TxRelayProofs ----------------------------
(***************************************************************************)
(* Proofs about TxRelay: its type invariant, that the index of the orphans *)
(* is exact, and that the loop over them leaves none behind that could be  *)
(* accepted.                                                               *)
(***************************************************************************)
EXTENDS TxRelay, FiniteSetTheorems, TLAPS

(* What the loop of "tx" has still to do with each orphan that it has not  *)
(* put on vEraseQueue: one that misses no parent is in the current entry,  *)
(* a child of a later one, or a child of none.                             *)
Pending(t) ==
    \/ t \in todo
    \/ \E j \in (done + 2)..Len(vWorkQueue) : vWorkQueue[j] \in Parents(t)
    \/ \A j \in 1..Len(vWorkQueue) : vWorkQueue[j] \notin Parents(t)

LoopInv ==
    /\ Idle => todo = {}
    /\ ~Idle => /\ done < Len(vWorkQueue)
                /\ \A t \in orphans \ vEraseQueue : Missing(t) \/ Pending(t)

(* The types, with the ranges of the two partial functions, and the sets   *)
(* whose sizes are counted are finite.                                     *)
SetsOK ==
    /\ confirmed \subseteq Txs /\ mapTx \subseteq Txs /\ orphans \subseteq Txs
    /\ synced \subseteq Txs /\ byPrev \in [Txs -> SUBSET Txs]

AskingOK ==
    /\ setAskFor \in [Peers -> SUBSET Txs] /\ getdata \in [Peers -> SUBSET Txs]
    /\ mapAskFor \in [Peers -> SUBSET (Nat \X Txs)]
    /\ DOMAIN alreadyAsked \subseteq Txs /\ alreadyAsked \in [DOMAIN alreadyAsked -> Int]
    /\ IsFiniteSet(DOMAIN alreadyAsked) /\ Cardinality(DOMAIN alreadyAsked) < MaxAlreadyAsked
    /\ OneQueuePosition

LoopOK ==
    /\ vWorkQueue \in Seq(Txs) /\ vEraseQueue \subseteq Txs
    /\ done \in 0..Len(vWorkQueue) /\ todo \subseteq Txs

IndexOK ==
    /\ \A prev \in Txs : byPrev[prev] = {t \in orphans : prev \in Parents(t)}
    /\ IsFiniteSet(orphans) /\ Cardinality(orphans) <= MaxOrphans

RelayInv == SetsOK /\ AskingOK /\ LoopOK /\ IndexOK /\ LoopInv

-----------------------------------------------------------------------------
(* The greater of two integers.                                            *)
LEMMA MaxOfTwo ==
    ASSUME NEW a \in Int, NEW b \in Int
    PROVE  Max({a, b}) = IF a >= b THEN a ELSE b
BY DEF Max

(* The outputs that a transaction spends belong to transactions.           *)
LEMMA ParentsAreTxs == ASSUME NEW t \in Txs PROVE Parents(t) \subseteq Txs
BY RelayAssumption DEF RelayAssumption, Parents

(* limitedmap stays below its limit: the entry that would reach it pushes  *)
(* another one out.                                                        *)
LEMMA RememberKeeps ==
    ASSUME AskingOK, NEW t \in Txs, NEW at \in Int, Remember(t, at)
    PROVE  /\ DOMAIN alreadyAsked' \subseteq Txs
           /\ alreadyAsked' \in [DOMAIN alreadyAsked' -> Int]
           /\ IsFiniteSet(DOMAIN alreadyAsked')
           /\ Cardinality(DOMAIN alreadyAsked') < MaxAlreadyAsked
<1> DEFINE others == DOMAIN alreadyAsked \ {t}
           put(D) == [u \in D \cup {t} |-> IF u = t THEN at ELSE alreadyAsked[u]]
           full == t \notin DOMAIN alreadyAsked /\ Cardinality(others) + 1 = MaxAlreadyAsked
<1>1. /\ IsFiniteSet(others) /\ Cardinality(others) \in Nat
      /\ Cardinality(DOMAIN alreadyAsked) \in Nat
      /\ Cardinality(others) = IF t \in DOMAIN alreadyAsked
            THEN Cardinality(DOMAIN alreadyAsked) - 1 ELSE Cardinality(DOMAIN alreadyAsked)
  BY FS_RemoveElement, FS_CardinalityType DEF AskingOK
<1>2. ASSUME NEW D \in SUBSET others, Cardinality(D) + 1 < MaxAlreadyAsked, alreadyAsked' = put(D)
      PROVE  /\ DOMAIN alreadyAsked' \subseteq Txs
             /\ alreadyAsked' \in [DOMAIN alreadyAsked' -> Int]
             /\ IsFiniteSet(DOMAIN alreadyAsked')
             /\ Cardinality(DOMAIN alreadyAsked') < MaxAlreadyAsked
  <2>1. IsFiniteSet(D) /\ t \notin D
    BY <1>1, <1>2, FS_Subset
  <2>2. IsFiniteSet(D \cup {t}) /\ Cardinality(D \cup {t}) = Cardinality(D) + 1
    BY <2>1, FS_AddElement
  <2>3. DOMAIN alreadyAsked' = D \cup {t} /\ alreadyAsked' \in [D \cup {t} -> Int]
    BY <1>2 DEF AskingOK
  <2> QED
    BY <1>2, <2>2, <2>3 DEF AskingOK
<1>3. CASE full
  <2>1. PICK u \in others : alreadyAsked' = put(others \ {u})
    BY <1>3 DEF Remember
  <2>2. Cardinality(others \ {u}) = Cardinality(others) - 1
    BY <1>1, <2>1, FS_RemoveElement
  <2>3. Cardinality(others \ {u}) + 1 < MaxAlreadyAsked
    BY <1>1, <1>3, <2>2, RelayAssumption DEF RelayAssumption
  <2> QED
    BY <1>2, <2>1, <2>3
<1>4. CASE ~full
  <2>1. alreadyAsked' = put(others)
    BY <1>4 DEF Remember
  <2>2. Cardinality(others) + 1 < MaxAlreadyAsked
    BY <1>1, <1>4, RelayAssumption DEF RelayAssumption, AskingOK
  <2> QED
    BY <1>2, <2>1, <2>2
<1> QED
  BY <1>3, <1>4

(* AskFor queues what is not in setAskFor, so that nothing is queued twice. *)
LEMMA AskForKeeps ==
    ASSUME AskingOK, NEW p \in Peers, NEW t \in Txs, AskFor(p, t), UNCHANGED getdata
    PROVE  AskingOK'
<1>1. CASE t \in setAskFor[p]
  BY <1>1 DEF AskFor, AskingOK, OneQueuePosition
<1>2. CASE t \notin setAskFor[p]
  <2> DEFINE at == IF t \in DOMAIN alreadyAsked THEN Max({alreadyAsked[t] + Retry, 0}) ELSE 0
  <2>1. at \in Nat
    <3>1. CASE t \in DOMAIN alreadyAsked
      <4>1. alreadyAsked[t] + Retry \in Int
        BY <3>1, RelayAssumption DEF AskingOK, RelayAssumption
      <4> QED
        BY <3>1, <4>1, MaxOfTwo
    <3> QED
      BY <3>1
  <2> HIDE DEF at
  <2>2. /\ setAskFor' = [setAskFor EXCEPT ![p] = @ \cup {t}]
        /\ mapAskFor' = [mapAskFor EXCEPT ![p] = @ \cup {<<at, t>>}]
        /\ Remember(t, at)
    BY <1>2 DEF AskFor, at
  <2>3. OneQueuePosition'
    <3> SUFFICES ASSUME NEW q \in Peers, NEW e \in mapAskFor'[q], NEW f \in mapAskFor'[q]
                 PROVE  e[2] \in setAskFor'[q] /\ (e[2] = f[2] => e = f)
      BY DEF OneQueuePosition
    <3>1. CASE q = p
      <4>1. /\ mapAskFor'[p] = mapAskFor[p] \cup {<<at, t>>}
            /\ setAskFor'[p] = setAskFor[p] \cup {t}
        BY <2>2 DEF AskingOK
      <4>2. \A g \in mapAskFor[p] : g[2] \in setAskFor[p] /\ g[2] # t
        BY <1>2 DEF AskingOK, OneQueuePosition
      <4>3. \A g, h \in mapAskFor[p] : g[2] = h[2] => g = h
        BY DEF AskingOK, OneQueuePosition
      <4> QED
        BY <3>1, <4>1, <4>2, <4>3
    <3>2. CASE q # p
      BY <2>2, <3>2 DEF AskingOK, OneQueuePosition
    <3> QED
      BY <3>1, <3>2
  <2>4. setAskFor' \in [Peers -> SUBSET Txs] /\ mapAskFor' \in [Peers -> SUBSET (Nat \X Txs)]
    BY <2>1, <2>2 DEF AskingOK
  <2> QED
    BY <2>1, <2>2, <2>3, <2>4, RememberKeeps DEF AskingOK
<1> QED
  BY <1>1, <1>2

(* The getdata loop takes hashes from setAskFor only with their places in  *)
(* mapAskFor.                                                              *)
LEMMA SendGetDataKeeps ==
    ASSUME AskingOK, NEW p \in Peers, SendGetData(p)
    PROVE  AskingOK'
<1> DEFINE asked == {t \in Due(p) : ~AlreadyHave(t)}
<1>1. PICK last : setAskFor' = [setAskFor EXCEPT ![p] = @ \ (asked \ last)]
  BY DEF SendGetData
<1>2. /\ mapAskFor' = [mapAskFor EXCEPT ![p] = {e \in @ : e[1] > 0}]
      /\ getdata' = [getdata EXCEPT ![p] = @ \cup asked] /\ UNCHANGED alreadyAsked
  BY DEF SendGetData
<1>3. asked \subseteq Txs
  BY DEF Due
<1>4. OneQueuePosition'
  <2> SUFFICES ASSUME NEW q \in Peers, NEW e \in mapAskFor'[q], NEW f \in mapAskFor'[q]
               PROVE  e[2] \in setAskFor'[q] /\ (e[2] = f[2] => e = f)
    BY DEF OneQueuePosition
  <2>1. e \in mapAskFor[q] /\ f \in mapAskFor[q]
    BY <1>2 DEF AskingOK
  <2>2. e[2] \in setAskFor[q] /\ (e[2] = f[2] => e = f)
    BY <2>1 DEF AskingOK, OneQueuePosition
  <2>3. CASE q = p
    <3>1. e[1] > 0 /\ e[1] \in Nat
      BY <1>2, <2>3 DEF AskingOK
    <3>2. ASSUME e[2] \in asked
          PROVE  FALSE
      <4>1. <<0, e[2]>> \in mapAskFor[p]
        BY <3>2 DEF Due
      <4>2. e = <<0, e[2]>>
        BY <2>1, <2>3, <4>1 DEF AskingOK, OneQueuePosition
      <4> QED
        BY <3>1, <4>2
    <3> QED
      BY <1>1, <2>2, <2>3, <3>2 DEF AskingOK
  <2>4. CASE q # p
    BY <1>1, <2>2, <2>4 DEF AskingOK
  <2> QED
    BY <2>3, <2>4
<1>5. /\ setAskFor' \in [Peers -> SUBSET Txs] /\ getdata' \in [Peers -> SUBSET Txs]
      /\ mapAskFor' \in [Peers -> SUBSET (Nat \X Txs)]
  BY <1>1, <1>2, <1>3 DEF AskingOK
<1> QED
  BY <1>2, <1>4, <1>5 DEF AskingOK

(* Time brings the places nearer and leaves each where it is.              *)
LEMMA TickKeeps == AskingOK /\ Tick => AskingOK'
<1> SUFFICES ASSUME AskingOK, Tick
             PROVE  AskingOK'
  OBVIOUS
<1>1. \A n \in Int : Max({n - 1, 0}) \in Nat /\ Max({n - 1, -Retry}) \in Int
  BY MaxOfTwo, RelayAssumption DEF RelayAssumption
<1>2. mapAskFor' \in [Peers -> SUBSET (Nat \X Txs)]
  <2>1. ASSUME NEW q \in Peers, NEW e \in mapAskFor[q]
        PROVE  <<Max({e[1] - 1, 0}), e[2]>> \in Nat \X Txs
    <3>1. e[1] \in Int /\ e[2] \in Txs
      BY DEF AskingOK
    <3> QED
      BY <1>1, <3>1
  <2> QED
    BY <2>1 DEF Tick
<1>3. /\ DOMAIN alreadyAsked' = DOMAIN alreadyAsked
      /\ alreadyAsked' \in [DOMAIN alreadyAsked' -> Int]
  BY <1>1 DEF AskingOK, Tick
<1>4. OneQueuePosition'
  <2> SUFFICES ASSUME NEW q \in Peers, NEW e \in mapAskFor'[q], NEW f \in mapAskFor'[q]
               PROVE  e[2] \in setAskFor'[q] /\ (e[2] = f[2] => e = f)
    BY DEF OneQueuePosition
  <2>1. PICK d \in mapAskFor[q] : e = <<Max({d[1] - 1, 0}), d[2]>>
    BY DEF Tick
  <2>2. PICK g \in mapAskFor[q] : f = <<Max({g[1] - 1, 0}), g[2]>>
    BY DEF Tick
  <2> QED
    BY <2>1, <2>2 DEF AskingOK, OneQueuePosition, Tick
<1> QED
  BY <1>2, <1>3, <1>4 DEF AskingOK, Tick

-----------------------------------------------------------------------------
(* AddOrphanTx enters an orphan under each of its parents, and             *)
(* LimitOrphanTxSize brings the pool back to its size.                     *)
LEMMA AddOrphanKeeps ==
    ASSUME SetsOK, IndexOK, NEW t \in Txs, AddOrphan(t)
    PROVE  /\ orphans' \subseteq orphans \cup {t} /\ orphans' \subseteq Txs
           /\ byPrev' \in [Txs -> SUBSET Txs] /\ IndexOK'
<1> DEFINE all == orphans \cup {t}
           surplus == Max({Cardinality(all) - MaxOrphans, 0})
<1>1. IsFiniteSet(all) /\ Cardinality(all) \in Nat
  BY FS_AddElement, FS_CardinalityType DEF IndexOK
<1>2. PICK evicted \in kSubset(surplus, all) :
         /\ orphans' = all \ evicted
         /\ byPrev' = [prev \in Txs |->
              (IF prev \in Parents(t) THEN byPrev[prev] \cup {t} ELSE byPrev[prev]) \ evicted]
  BY DEF AddOrphan
<1>3. evicted \subseteq all /\ Cardinality(evicted) = surplus
  BY <1>2 DEF kSubset
<1>4. surplus = IF Cardinality(all) - MaxOrphans >= 0 THEN Cardinality(all) - MaxOrphans ELSE 0
  <2> DEFINE k == Cardinality(all) - MaxOrphans
  <2>1. k \in Int
    BY <1>1, RelayAssumption DEF RelayAssumption
  <2> HIDE DEF k
  <2>2. Max({k, 0}) = IF k >= 0 THEN k ELSE 0
    BY <2>1, MaxOfTwo
  <2> QED
    BY <2>2 DEF k
<1>5. /\ IsFiniteSet(orphans')
      /\ Cardinality(orphans') = Cardinality(all) - Cardinality(all \cap evicted)
  BY <1>1, <1>2, FS_Difference
<1>6. all \cap evicted = evicted
  BY <1>3
<1>7. Cardinality(orphans') <= MaxOrphans
  <2>1. MaxOrphans \in Nat /\ Cardinality(orphans') = Cardinality(all) - surplus
    BY <1>3, <1>5, <1>6, RelayAssumption DEF RelayAssumption
  <2> HIDE DEF all, surplus
  <2> QED
    BY <1>1, <1>4, <2>1
<1>8. \A prev \in Txs : byPrev'[prev] = {u \in orphans' : prev \in Parents(u)}
  BY <1>2 DEF IndexOK, Parents
<1>9. byPrev' \in [Txs -> SUBSET Txs]
  BY <1>2 DEF SetsOK
<1> QED
  BY <1>2, <1>5, <1>7, <1>8, <1>9 DEF SetsOK, IndexOK, Parents

(* EraseOrphanTx takes an orphan out of every entry that names it.         *)
LEMMA EraseOrphansKeeps ==
    ASSUME SetsOK, IndexOK, NEW S, EraseOrphans(S)
    PROVE  orphans' \subseteq Txs /\ byPrev' \in [Txs -> SUBSET Txs] /\ IndexOK'
<1>1. IsFiniteSet(orphans') /\ Cardinality(orphans') <= MaxOrphans
  <2>1. IsFiniteSet(orphans') /\ Cardinality(orphans') <= Cardinality(orphans)
    BY FS_Subset DEF EraseOrphans, IndexOK
  <2>2. Cardinality(orphans') \in Nat /\ Cardinality(orphans) \in Nat
    BY <2>1, FS_CardinalityType DEF IndexOK
  <2> QED
    BY <2>1, <2>2, RelayAssumption DEF IndexOK, RelayAssumption
<1>2. \A prev \in Txs : byPrev'[prev] = {u \in orphans' : prev \in Parents(u)}
  BY DEF EraseOrphans, IndexOK, Parents
<1> QED
  BY <1>1, <1>2 DEF EraseOrphans, SetsOK, IndexOK, Parents

-----------------------------------------------------------------------------
(* The handler of "tx": an accepted transaction becomes the first entry of *)
(* the queue, and its children are to be tried.                            *)
LEMMA ReceiveKeeps ==
    ASSUME RelayInv, NEW p \in Peers, NEW t \in Txs, PeerSends(p, t)
    PROVE  RelayInv'
<1>1. ReceiveTx(t) /\ Idle /\ getdata' = [getdata EXCEPT ![p] = @ \ {t}]
  BY DEF PeerSends, ReceiveTx
<1>2. AskingOK'
  <2> DEFINE D == DOMAIN alreadyAsked \ {t}
  <2>1. alreadyAsked' = [u \in D |-> alreadyAsked[u]] /\ UNCHANGED <<setAskFor, mapAskFor>>
    BY <1>1 DEF ReceiveTx
  <2>2. IsFiniteSet(D) /\ Cardinality(D) <= Cardinality(DOMAIN alreadyAsked)
    BY FS_Subset DEF RelayInv, AskingOK
  <2>3. Cardinality(D) \in Nat /\ Cardinality(DOMAIN alreadyAsked) \in Nat
    BY <2>2, FS_CardinalityType DEF RelayInv, AskingOK
  <2>4. DOMAIN alreadyAsked' = D /\ alreadyAsked' \in [D -> Int]
    BY <2>1 DEF RelayInv, AskingOK
  <2>5. Cardinality(D) < MaxAlreadyAsked
    BY <2>2, <2>3, RelayAssumption DEF RelayInv, AskingOK, RelayAssumption
  <2>6. getdata' \in [Peers -> SUBSET Txs]
    BY <1>1 DEF RelayInv, AskingOK
  <2> QED
    BY <2>1, <2>2, <2>4, <2>5, <2>6 DEF RelayInv, AskingOK, OneQueuePosition
<1>3. CASE /\ Acceptable(t)
           /\ mapTx' = mapTx \cup {t} /\ synced' = synced \cup {t}
           /\ vWorkQueue' = <<t>> /\ vEraseQueue' = {t}
           /\ done' = 0 /\ todo' = byPrev[t]
           /\ UNCHANGED <<orphans, byPrev>>
  <2>1. SetsOK' /\ IndexOK'
    BY <1>1, <1>3 DEF ReceiveTx, RelayInv, SetsOK, IndexOK, Parents
  <2>2. LoopOK'
    BY <1>3 DEF RelayInv, SetsOK, LoopOK
  <2>3. ASSUME NEW u \in orphans
        PROVE  Pending(u)'
    <3>1. CASE t \in Parents(u)
      BY <1>3, <3>1 DEF RelayInv, SetsOK, IndexOK, Pending, Parents
    <3>2. CASE t \notin Parents(u)
      <4>1. \A j \in 1..Len(vWorkQueue') : vWorkQueue'[j] \notin Parents(u)
        BY <1>3, <3>2
      <4> QED
        BY <4>1 DEF Pending, Parents
    <3> QED
      BY <3>1, <3>2
  <2>4. LoopInv'
    <3>1. Len(vWorkQueue') = 1 /\ ~Idle' /\ done' < Len(vWorkQueue') /\ orphans' = orphans
      BY <1>3 DEF Idle
    <3> QED
      BY <2>3, <3>1 DEF LoopInv
  <2> QED
    BY <1>2, <2>1, <2>2, <2>4 DEF RelayInv
<1>4. CASE MissingInputs(t) /\ AddOrphan(t) /\ UNCHANGED <<mapTx, synced, loop>>
  <2>1. SetsOK' /\ IndexOK'
    BY <1>1, <1>4, AddOrphanKeeps DEF ReceiveTx, RelayInv, SetsOK
  <2>2. LoopOK' /\ LoopInv'
    BY <1>1, <1>4 DEF RelayInv, LoopOK, LoopInv, Idle, loop
  <2> QED
    BY <1>2, <2>1, <2>2 DEF RelayInv
<1>5. CASE Refused(t) /\ UNCHANGED <<mapTx, synced, orphans, byPrev, loop>>
  <2>1. SetsOK' /\ IndexOK'
    BY <1>1, <1>5 DEF ReceiveTx, RelayInv, SetsOK, IndexOK, Parents
  <2>2. LoopOK' /\ LoopInv'
    BY <1>1, <1>5 DEF RelayInv, LoopOK, LoopInv, Idle, loop
  <2> QED
    BY <1>2, <2>1, <2>2 DEF RelayInv
<1> QED
  BY <1>1, <1>3, <1>4, <1>5 DEF ReceiveTx

(* An orphan that stays misses a parent, one that is accepted becomes an   *)
(* entry behind the current one: its children are pending.                 *)
LEMMA TryKeeps ==
    ASSUME RelayInv, NEW t \in Txs, TryOrphan(t)
    PROVE  RelayInv'
<1>1. /\ t \in todo /\ todo' = todo \ {t}
      /\ UNCHANGED <<confirmed, orphans, byPrev, asking, done>>
  BY DEF TryOrphan
<1>2. AskingOK' /\ IndexOK'
  BY <1>1 DEF RelayInv, AskingOK, IndexOK, OneQueuePosition, asking, Parents
<1>3. CASE /\ Acceptable(t)
           /\ mapTx' = mapTx \cup {t} /\ synced' = synced \cup {vWorkQueue[1]}
           /\ vWorkQueue' = Append(vWorkQueue, t)
           /\ vEraseQueue' = vEraseQueue \cup {t}
  <2> DEFINE n == Len(vWorkQueue)
  <2>1. n \in Nat /\ Len(vWorkQueue') = n + 1 /\ vWorkQueue' \in Seq(Txs) /\ vWorkQueue'[n + 1] = t
    BY <1>3 DEF RelayInv, LoopOK
  <2>2. \A j \in 1..n : vWorkQueue'[j] = vWorkQueue[j]
    BY <1>3 DEF RelayInv, LoopOK
  <2>3. SetsOK' /\ LoopOK'
    <3>1. SetsOK' /\ vEraseQueue' \subseteq Txs
      <4>1. vWorkQueue[1] \in Txs
        BY <1>1 DEF RelayInv, LoopOK, LoopInv, Idle
      <4> QED
        BY <1>1, <1>3, <4>1 DEF RelayInv, SetsOK, LoopOK
    <3> QED
      BY <1>1, <2>1, <3>1 DEF RelayInv, LoopOK
  <2>4. LoopInv'
    <3>1. ~Idle /\ done < n /\ done \in Nat
      BY <1>1, <2>1 DEF RelayInv, LoopInv, LoopOK
    <3>2. ASSUME NEW u \in orphans, u \notin vEraseQueue, u # t
          PROVE  Missing(u)' \/ Pending(u)'
      <4>1. CASE t \in Parents(u)
        BY <1>1, <2>1, <3>1, <4>1 DEF Pending, Parents
      <4>2. CASE t \notin Parents(u) /\ Missing(u)
        BY <1>1, <1>3, <4>2 DEF Missing, Parents
      <4>3. CASE t \notin Parents(u) /\ Pending(u)
        <5>1. CASE u \in todo
          BY <1>1, <3>2, <5>1 DEF Pending
        <5>2. CASE \E j \in (done + 2)..n : vWorkQueue[j] \in Parents(u)
          <6>1. PICK j \in (done + 2)..n : vWorkQueue[j] \in Parents(u)
            BY <5>2
          <6>2. j \in (done' + 2)..Len(vWorkQueue') /\ vWorkQueue'[j] \in Parents(u)
            BY <1>1, <2>1, <2>2, <3>1, <6>1
          <6> QED
            BY <6>2 DEF Pending, Parents
        <5>3. CASE \A j \in 1..n : vWorkQueue[j] \notin Parents(u)
          <6>1. \A j \in 1..Len(vWorkQueue') : vWorkQueue'[j] \notin Parents(u)
            BY <2>1, <2>2, <4>3, <5>3
          <6> QED
            BY <6>1 DEF Pending, Parents
        <5> QED
          BY <4>3, <5>1, <5>2, <5>3 DEF Pending
      <4> QED
        BY <3>1, <3>2, <4>1, <4>2, <4>3 DEF RelayInv, LoopInv
    <3> QED
      BY <1>1, <1>3, <2>1, <3>1, <3>2 DEF LoopInv, Idle
  <2> QED
    BY <1>2, <2>3, <2>4 DEF RelayInv
<1>4. CASE /\ Refused(t) /\ vEraseQueue' = vEraseQueue \cup {t}
           /\ UNCHANGED <<mapTx, synced, vWorkQueue>>
  <2>1. SetsOK' /\ LoopOK'
    BY <1>1, <1>4 DEF RelayInv, SetsOK, LoopOK
  <2>2. LoopInv'
    BY <1>1, <1>4 DEF RelayInv, LoopInv, Idle, Missing, Pending, Parents
  <2> QED
    BY <1>2, <2>1, <2>2 DEF RelayInv
<1>5. CASE MissingInputs(t) /\ UNCHANGED <<mapTx, synced, vWorkQueue, vEraseQueue>>
  <2>1. SetsOK' /\ LoopOK'
    BY <1>1, <1>5 DEF RelayInv, SetsOK, LoopOK
  <2>2. LoopInv'
    BY <1>1, <1>5 DEF RelayInv, LoopInv, Idle, MissingInputs, Missing, Pending, Parents
  <2> QED
    BY <1>2, <2>1, <2>2 DEF RelayInv
<1> QED
  BY <1>3, <1>4, <1>5 DEF TryOrphan

(* The next entry: its children are tried, and those of the current one    *)
(* have been.                                                              *)
LEMMA NextEntryKeeps == RelayInv /\ NextEntry => RelayInv'
<1> SUFFICES ASSUME RelayInv, NextEntry
             PROVE  RelayInv'
  OBVIOUS
<1>1. /\ ~Idle /\ todo = {} /\ done + 1 < Len(vWorkQueue)
      /\ done' = done + 1 /\ todo' = byPrev[vWorkQueue[done + 2]]
      /\ UNCHANGED <<memory, asking, vWorkQueue, vEraseQueue>>
  BY DEF NextEntry
<1>2. SetsOK' /\ AskingOK' /\ IndexOK'
  BY <1>1 DEF RelayInv, SetsOK, AskingOK, IndexOK, OneQueuePosition, memory, asking, Parents
<1>3. done \in Nat /\ done + 2 \in 1..Len(vWorkQueue) /\ vWorkQueue[done + 2] \in Txs
  BY <1>1 DEF RelayInv, LoopOK
<1>4. LoopOK'
  BY <1>1, <1>3 DEF RelayInv, LoopOK, SetsOK
<1>5. ASSUME NEW t \in orphans, t \notin vEraseQueue, ~Missing(t)
      PROVE  Pending(t)'
  <2>1. CASE \E j \in (done + 2)..Len(vWorkQueue) : vWorkQueue[j] \in Parents(t)
    <3>1. PICK j \in (done + 2)..Len(vWorkQueue) : vWorkQueue[j] \in Parents(t)
      BY <2>1
    <3>2. CASE j = done + 2
      BY <1>1, <1>3, <1>5, <3>1, <3>2 DEF RelayInv, IndexOK, Pending
    <3>3. CASE j # done + 2
      <4>1. j \in (done' + 2)..Len(vWorkQueue')
        BY <1>1, <1>3, <3>3
      <4> QED
        BY <1>1, <3>1, <4>1 DEF Pending, Parents
    <3> QED
      BY <3>2, <3>3
  <2>2. CASE \A j \in 1..Len(vWorkQueue) : vWorkQueue[j] \notin Parents(t)
    BY <1>1, <2>2 DEF Pending, Parents
  <2> QED
    BY <1>1, <1>5, <2>1, <2>2 DEF RelayInv, LoopInv, Pending
<1>6. LoopInv'
  BY <1>1, <1>3, <1>5 DEF LoopInv, Idle, Missing, Parents, memory
<1> QED
  BY <1>2, <1>4, <1>6 DEF RelayInv

(* The loop ends.                                                          *)
LEMMA EraseAllKeeps == RelayInv /\ EraseAll => RelayInv'
<1> SUFFICES ASSUME RelayInv, EraseAll
             PROVE  RelayInv'
  OBVIOUS
<1>1. /\ EraseOrphans(vEraseQueue)
      /\ vWorkQueue' = << >> /\ vEraseQueue' = {} /\ done' = 0 /\ todo' = {}
      /\ UNCHANGED <<confirmed, mapTx, synced, asking>>
  BY DEF EraseAll
<1>2. SetsOK' /\ IndexOK'
  BY <1>1, EraseOrphansKeeps DEF RelayInv, SetsOK
<1>3. AskingOK'
  BY <1>1 DEF RelayInv, AskingOK, OneQueuePosition, asking
<1>4. LoopOK' /\ LoopInv'
  BY <1>1 DEF LoopOK, LoopInv, Idle
<1> QED
  BY <1>2, <1>3, <1>4 DEF RelayInv

-----------------------------------------------------------------------------
LEMMA RelayInit1 == RelayInit => RelayInv
<1> SUFFICES ASSUME RelayInit
             PROVE  RelayInv
  OBVIOUS
<1>1. SetsOK /\ LoopOK /\ LoopInv
  BY DEF RelayInit, SetsOK, LoopOK, LoopInv, Idle
<1>2. AskingOK
  BY FS_EmptySet, RelayAssumption DEF RelayInit, AskingOK, OneQueuePosition, RelayAssumption
<1>3. IndexOK
  BY FS_EmptySet, RelayAssumption DEF RelayInit, IndexOK, RelayAssumption
<1> QED
  BY <1>1, <1>2, <1>3 DEF RelayInv

LEMMA RelayStep == RelayInv /\ [RelayNext]_relayVars => RelayInv'
<1> SUFFICES ASSUME RelayInv, [RelayNext]_relayVars
             PROVE  RelayInv'
  OBVIOUS
<1>1. ASSUME UNCHANGED <<memory, loop>>, AskingOK'
      PROVE  RelayInv'
  <2>1. SetsOK' /\ IndexOK'
    BY <1>1 DEF RelayInv, SetsOK, IndexOK, memory, Parents
  <2>2. LoopOK' /\ LoopInv'
    BY <1>1 DEF RelayInv, LoopOK, LoopInv, Idle, Missing, Pending, Parents, memory, loop
  <2> QED
    BY <1>1, <2>1, <2>2 DEF RelayInv
<1>2. CASE Announced
  <2>1. PICK p \in Peers : \E u \in Announces[p] : Inv(p, u)
    BY <1>2 DEF Announced
  <2>3. PICK t \in Announces[p] : Inv(p, t)
    BY <2>1
  <2>2. t \in Txs
    BY <2>3, RelayAssumption DEF RelayAssumption
  <2> QED
    BY <1>1, <2>3, <2>2, AskForKeeps DEF Inv, RelayInv
<1>3. CASE Asks
  <2>1. PICK p \in Peers : SendGetData(p)
    BY <1>3 DEF Asks
  <2>2. UNCHANGED <<memory, loop>>
    BY <2>1 DEF SendGetData
  <2> QED
    BY <1>1, <2>1, <2>2, SendGetDataKeeps DEF RelayInv
<1>4. CASE Tick
  BY <1>1, <1>4, TickKeeps DEF Tick, RelayInv
<1>5. CASE Received
  BY <1>5, ReceiveKeeps DEF Received
<1>6. CASE Orphans
  BY <1>6, TryKeeps, NextEntryKeeps, EraseAllKeeps DEF Orphans
<1>7. CASE Blocks
  <2>1. PICK S \in SUBSET Txs : BlockConnects(S)
    BY <1>7 DEF Blocks
  <2>2. SetsOK' /\ IndexOK'
    BY <2>1 DEF BlockConnects, RelayInv, SetsOK, IndexOK, Parents
  <2>3. AskingOK' /\ LoopOK' /\ LoopInv'
    BY <2>1 DEF BlockConnects, RelayInv, AskingOK, OneQueuePosition, LoopOK, LoopInv, Idle, asking, loop
  <2> QED
    BY <2>2, <2>3 DEF RelayInv
<1>8. CASE UNCHANGED relayVars
  <2>1. UNCHANGED <<memory, loop>> /\ AskingOK'
    BY <1>8 DEF relayVars, asking, RelayInv, AskingOK, OneQueuePosition
  <2> QED
    BY <1>1, <2>1
<1> QED
  BY <1>2, <1>3, <1>4, <1>5, <1>6, <1>7, <1>8 DEF RelayNext

LEMMA RelayInvariance == RelaySpec => []RelayInv
BY RelayInit1, RelayStep, PTL DEF RelaySpec

(* The index of the orphans by their parents names exactly the stored      *)
(* orphans, there are never too many, no peer holds two places for one     *)
(* item, and everything is of its type.                                    *)
THEOREM OrphanIndexIsExact == RelaySpec => []OrphansByPrev
<1>1. RelayInv => OrphansByPrev
  <2> SUFFICES ASSUME RelayInv
               PROVE  OrphansByPrev
    OBVIOUS
  <2>1. Range(vWorkQueue) \subseteq Txs
    BY DEF RelayInv, LoopOK, Range
  <2>2. RelayTypeOK
    BY <2>1 DEF RelayInv, SetsOK, AskingOK, LoopOK, RelayTypeOK
  <2> QED
    BY <2>2 DEF RelayInv, IndexOK, OrphansByPrev
<1> QED
  BY <1>1, RelayInvariance, PTL

(* When the handler has gone through its queue, no orphan that it leaves   *)
(* could be accepted now and depends on what was just accepted.            *)
THEOREM NoOrphanIsLeftBehind == RelaySpec => []NoneLeftBehind
<1>1. RelayInv => NoneLeftBehind
  <2> SUFFICES ASSUME RelayInv, LoopEnds, NEW t \in orphans \ vEraseQueue, ~Missing(t)
               PROVE  Parents(t) \cap Range(vWorkQueue) = {}
    BY DEF NoneLeftBehind
  <2>1. \A j \in 1..Len(vWorkQueue) : vWorkQueue[j] \notin Parents(t)
    BY DEF LoopEnds, RelayInv, LoopInv, LoopOK, Pending
  <2> QED
    BY <2>1 DEF Range, RelayInv, LoopOK
<1> QED
  BY <1>1, RelayInvariance, PTL
=============================================================================
