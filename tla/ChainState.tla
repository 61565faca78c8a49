----------------------------- MODULE ChainState -----------------------------
(***************************************************************************)
(* The best chain of a full node: the block index in memory, the leveldb   *)
(* transaction database behind it, and the steps by which AddToBlockIndex, *)
(* SetBestChain, SetBestChainInner and Reorganize move both to a new tip.  *)
(* The thread that runs them holds cs_main throughout, so what may come    *)
(* between two steps is a failing read or write, a block that turns out    *)
(* invalid, or the end of the process.                                     *)
(*                                                                         *)
(* Scripts, amounts, rewards and anonymous inputs are not modelled here:   *)
(* they can only make ConnectBlock fail, which BlockFails lets it do at    *)
(* any time.  What ConnectBlock reads from and writes to the database is.  *)
(***************************************************************************)
EXTENDS BlockTree

(* The fork of Reorganize(): the highest block two chains share.           *)
IsFork(f, a, b) ==
    /\ f \in Chain[a] \cap Chain[b]
    /\ \A g \in Chain[a] \cap Chain[b] : Height[g] <= Height[f]

(* The block that follows c on the chain of b, a child of c.               *)
IsNextOn(x, c, b) == x \in Chain[b] \ {Genesis} /\ Prev[x] = c

(* What pnext, or hashNext on disk, is when tip ends the best chain.       *)
NextOf(tip) == [b \in Blocks |->
    IF \E x \in Blocks : IsNextOn(x, b, tip)
    THEN CHOOSE x \in Blocks : IsNextOn(x, b, tip) ELSE None]

-----------------------------------------------------------------------------
(* The transaction index: CTxIndex records where a transaction is (pos)    *)
(* and which of its outputs are spent (the non-null entries of vSpent).    *)

SpentOf(b, t) == {o[2] : o \in {p \in SpentBy(b) : p[1] = t}}

Entry == [pos : Blocks, spent : SUBSET Nat]
IsIndex(f) == DOMAIN f \subseteq Txs /\ f \in [DOMAIN f -> Entry]

(* BIP30, as ConnectBlock applies it: a transaction may be indexed again   *)
(* only if every output of the indexed one is spent.                       *)
MayIndex(index, t) == t \in DOMAIN index => 0 .. NOut[t] - 1 \subseteq index[t].spent

(* IsConfirmedInNPrevBlocks: pos is one of the last Maturity blocks of b.  *)
Immature(pos, b) == pos \in Chain[b] /\ Height[b] - Height[pos] < Maturity

(* Mutated: an output that vSpent shows as spent is spent again.           *)
FindsInputSpent(index, b, i, o) ==
    LET queued == \E j \in 1 .. i - 1 : Vtx[b][j] = o[1] IN
    /\ o[2] < NOut[o[1]]
    /\ ~queued => o[1] \in DOMAIN index
    /\ o[1] \in Generated => ~Immature(IF queued THEN b ELSE index[o[1]].pos, b)

(* The i-th transaction of b finds output o unspent, in the database or    *)
(* among the index entries its block has queued (mapQueuedChanges).        *)
FindsInput(index, b, i, o) ==
    LET queued == \E j \in 1 .. i - 1 : Vtx[b][j] = o[1] IN
    /\ o[2] < NOut[o[1]]
    /\ ~queued => o[1] \in DOMAIN index /\ o[2] \notin index[o[1]].spent
    /\ o[1] \in Generated => ~Immature(IF queued THEN b ELSE index[o[1]].pos, b)

(* The conditions on the database under which ConnectBlock succeeds.       *)
Connectable(index, b) ==
    \A i \in DOMAIN Vtx[b] :
        /\ MayIndex(index, Vtx[b][i])
        /\ \A o \in Vin[Vtx[b][i]] : FindsInput(index, b, i, o)
        /\ \A j \in DOMAIN Vtx[b] : i # j => Vin[Vtx[b][i]] \cap Vin[Vtx[b][j]] = {}

(* Mutated: the entries of the block are written, those of its inputs not. *)
ConnectTxsForgetful(index, b) ==
    [t \in DOMAIN index \cup TxsIn(b) |->
        IF t \in TxsIn(b) THEN [pos |-> b, spent |-> SpentOf(b, t)] ELSE index[t]]

(* ConnectInputs for every transaction of b, then its queued new entries.  *)
ConnectTxs(index, b) ==
    [t \in DOMAIN index \cup TxsIn(b) |->
        [pos   |-> IF t \in TxsIn(b) THEN b ELSE index[t].pos,
         spent |-> (IF t \in TxsIn(b) THEN {} ELSE index[t].spent) \cup SpentOf(b, t)]]

(* Mutated: the entries of the block go, its inputs stay spent.            *)
DisconnectTxsForgetful(index, b) == [t \in DOMAIN index \ TxsIn(b) |-> index[t]]

(* DisconnectInputs for every transaction of b, the last one first: its    *)
(* inputs become unspent where they are indexed, then its entry goes.      *)
DisconnectTxs(index, b) ==
    [t \in DOMAIN index \ TxsIn(b) |->
        [pos |-> index[t].pos, spent |-> index[t].spent \ SpentOf(b, t)]]

-----------------------------------------------------------------------------
VARIABLES
    mapBlockIndex,  \* blocks in mapBlockIndex
    pnext,          \* CBlockIndex::pnext, in memory
    pindexBest,     \* pindexBest, and with it hashBestChain, nBestHeight, nBestChainTrust
    disk,           \* what leveldb holds: block index, hashBestChain, transaction index
    batch,          \* the database as reads through activeBatch see it, or NoBatch
    pc,             \* where the thread inside AddToBlockIndex is
    job,            \* the local variables of SetBestChain
    returned,       \* what the last AddToBlockIndex returned
    tainted         \* history: SetBestChain has begun from a tip the database did not have

memory == <<mapBlockIndex, pnext, pindexBest>>
vars == <<mapBlockIndex, pnext, pindexBest, disk, batch, pc, job, returned, tainted>>

IsDatabase(d) ==
    /\ d \in [bidx : SUBSET Blocks, hashNext : [Blocks -> Blocks \cup {None}],
             hashBestChain : Blocks, txindex : {d.txindex}]
    /\ IsIndex(d.txindex)
NoBatch == None
NoJob == [pindexNew |-> None, pindexIntermediate |-> None, pfork |-> None, cursor |-> None]

(* disconnect and connect are the loops of Reorganize (extend: the single  *)
(* ConnectBlock of SetBestChainInner), secondary the loop over             *)
(* vpindexSecondary, postponed its SetBestChainInner.                      *)
Phases == {"idle", "begin", "disconnect", "connect", "extend", "secondary",
           "postponed", "finish"}

Init ==
    /\ mapBlockIndex = {Genesis}
    /\ pnext = [b \in Blocks |-> None]
    /\ pindexBest = Genesis
    /\ disk = [bidx |-> {Genesis}, hashNext |-> [b \in Blocks |-> None],
               hashBestChain |-> Genesis, txindex |-> [t \in {} |-> None]]
    /\ batch = NoBatch
    /\ pc = "idle"
    /\ job = NoJob
    /\ returned = TRUE
    /\ tainted = FALSE

-----------------------------------------------------------------------------
(* The writes of ConnectBlock and DisconnectBlock to the open batch.       *)

ConnectIn(d, x) ==
    [d EXCEPT !.bidx = @ \cup {x, Prev[x]},
              !.hashNext = [@ EXCEPT ![x] = pnext[x], ![Prev[x]] = x],
              !.txindex = ConnectTxs(@, x)]

DisconnectIn(d, x) ==
    [d EXCEPT !.bidx = @ \cup {Prev[x]},
              !.hashNext = [@ EXCEPT ![Prev[x]] = None],
              !.txindex = DisconnectTxs(@, x)]

Return(value) == pc' = "idle" /\ job' = NoJob /\ returned' = value

(* AddToBlockIndex: b enters mapBlockIndex and, in a transaction of its    *)
(* own, the block index on disk; SetBestChain follows if b has more trust  *)
(* than the best chain.  The write of this one entry is taken to succeed.  *)
AddToBlockIndex(b) ==
    /\ pc = "idle"
    /\ b \in Blocks \ (mapBlockIndex \cup {Genesis})
    /\ Prev[b] \in mapBlockIndex
    /\ mapBlockIndex' = mapBlockIndex \cup {b}
    /\ pnext' = [pnext EXCEPT ![b] = None]
    /\ disk' = [disk EXCEPT !.bidx = @ \cup {b}, !.hashNext = [@ EXCEPT ![b] = None]]
    /\ \/ /\ Trust[b] > Trust[pindexBest]
          /\ pc' = "begin"
          /\ job' = [NoJob EXCEPT !.pindexNew = b]
          /\ UNCHANGED returned
       \/ /\ Trust[b] <= Trust[pindexBest]
          /\ Return(TRUE)
    /\ UNCHANGED <<pindexBest, batch, tainted>>

(* Mutated: the walk back stops only below the trust of the best chain.    *)
SetBestChainStrict ==
    /\ pc = "begin"
    /\ batch' = disk
    /\ tainted' = (tainted \/ pindexBest # disk.hashBestChain)
    /\ \/ /\ Prev[job.pindexNew] = pindexBest
          /\ pc' = "extend"
          /\ job' = [job EXCEPT !.pindexIntermediate = job.pindexNew,
                                !.pfork = pindexBest, !.cursor = pindexBest]
       \/ /\ Prev[job.pindexNew] # pindexBest
          /\ \E i \in Chain[job.pindexNew] \ {Genesis}, f \in Blocks :
                /\ Trust[Prev[i]] < Trust[pindexBest] /\ Trust[pindexBest] < Trust[i]
                /\ IsFork(f, pindexBest, i)
                /\ pc' = IF f = pindexBest THEN "connect" ELSE "disconnect"
                /\ job' = [job EXCEPT !.pindexIntermediate = i,
                                      !.pfork = f, !.cursor = pindexBest]
    /\ UNCHANGED <<memory, disk, returned>>

(* Mutated: any block of the branch may come first.                        *)
SetBestChainAnywhere ==
    /\ pc = "begin"
    /\ batch' = disk
    /\ tainted' = (tainted \/ pindexBest # disk.hashBestChain)
    /\ \E i \in Chain[job.pindexNew] \ {Genesis}, f \in Blocks :
          /\ i \notin Chain[pindexBest]
          /\ IsFork(f, pindexBest, i)
          /\ pc' = IF f = pindexBest THEN "connect" ELSE "disconnect"
          /\ job' = [job EXCEPT !.pindexIntermediate = i,
                                !.pfork = f, !.cursor = pindexBest]
    /\ UNCHANGED <<memory, disk, returned>>

(* SetBestChain, up to the first block it disconnects or connects: TxnBegin *)
(* and, unless the block extends the best chain, the choice of the first   *)
(* block of its branch that has more trust than the best chain.            *)
SetBestChain ==
    /\ pc = "begin"
    /\ batch' = disk
    /\ tainted' = (tainted \/ pindexBest # disk.hashBestChain)
    /\ \/ /\ Prev[job.pindexNew] = pindexBest
          /\ pc' = "extend"
          /\ job' = [job EXCEPT !.pindexIntermediate = job.pindexNew,
                                !.pfork = pindexBest, !.cursor = pindexBest]
       \/ /\ Prev[job.pindexNew] # pindexBest
          /\ \E i \in Chain[job.pindexNew] \ {Genesis}, f \in Blocks :
                /\ Trust[Prev[i]] <= Trust[pindexBest] /\ Trust[pindexBest] < Trust[i]
                /\ IsFork(f, pindexBest, i)
                /\ pc' = IF f = pindexBest THEN "connect" ELSE "disconnect"
                /\ job' = [job EXCEPT !.pindexIntermediate = i,
                                      !.pfork = f, !.cursor = pindexBest]
    /\ UNCHANGED <<memory, disk, returned>>

(* One turn of the first loop of Reorganize.                               *)
DisconnectBlock ==
    /\ pc = "disconnect"
    /\ batch' = DisconnectIn(batch, job.cursor)
    /\ job' = [job EXCEPT !.cursor = Prev[@]]
    /\ pc' = IF Prev[job.cursor] = job.pfork THEN "connect" ELSE "disconnect"
    /\ UNCHANGED <<memory, disk, returned, tainted>>

(* One turn of the second loop of Reorganize, or the ConnectBlock of       *)
(* SetBestChainInner.                                                      *)
ConnectBlock(x) ==
    /\ pc \in {"connect", "extend", "postponed"}
    /\ IsNextOn(x, job.cursor, job.pindexIntermediate)
    /\ Connectable(batch.txindex, x)
    /\ batch' = ConnectIn(batch, x)
    /\ job' = [job EXCEPT !.cursor = x]
    /\ UNCHANGED <<memory, disk, pc, returned, tainted>>

(* A block cannot be read, is invalid, or the batch cannot be written:     *)
(* TxnAbort, and SetBestChain fails; in the loop over vpindexSecondary it  *)
(* only leaves the loop.                                                   *)
BlockFails ==
    /\ pc \in {"disconnect", "connect", "extend", "secondary", "postponed"}
    /\ batch' = NoBatch
    /\ \/ /\ pc \in {"secondary", "postponed"}
          /\ pc' = "finish"
          /\ UNCHANGED <<job, returned>>
       \/ /\ pc \notin {"secondary", "postponed"}
          /\ Return(FALSE)
    /\ UNCHANGED <<memory, disk, tainted>>

(* Mutated: the blocks that left the best chain keep being pointed at.     *)
TxnCommitNoReset ==
    /\ pc \in {"connect", "extend", "postponed"}
    /\ job.cursor = job.pindexIntermediate
    /\ disk' = [batch EXCEPT !.hashBestChain = job.cursor]
    /\ batch' = NoBatch
    /\ pnext' = [b \in Blocks |->
          IF IsNextOn(NextOf(job.cursor)[b], b, job.cursor) THEN NextOf(job.cursor)[b]
          ELSE pnext[b]]
    /\ pc' = IF job.cursor = job.pindexNew THEN "finish" ELSE "secondary"
    /\ UNCHANGED <<mapBlockIndex, pindexBest, job, returned, tainted>>

(* WriteHashBestChain and TxnCommit once the last block is connected, then *)
(* the pnext pointers of the blocks that left the best chain and of those  *)
(* that joined it.                                                         *)
TxnCommit ==
    /\ pc \in {"connect", "extend", "postponed"}
    /\ job.cursor = job.pindexIntermediate
    /\ disk' = [batch EXCEPT !.hashBestChain = job.cursor]
    /\ batch' = NoBatch
    /\ LET left == IF pc = "connect" THEN Chain[pindexBest] \ Chain[job.pfork] ELSE {}
           joined == Chain[job.cursor] \ Chain[job.pfork]
       IN pnext' = [b \in Blocks |->
            IF \E x \in joined : Prev[x] = b THEN CHOOSE x \in joined : Prev[x] = b
            ELSE IF \E x \in left : Prev[x] = b THEN None ELSE pnext[b]]
    /\ pc' = IF job.cursor = job.pindexNew THEN "finish" ELSE "secondary"
    /\ UNCHANGED <<mapBlockIndex, pindexBest, job, returned, tainted>>

(* The next block of vpindexSecondary: TxnBegin for its SetBestChainInner. *)
NextSecondary(x) ==
    /\ pc = "secondary"
    /\ IsNextOn(x, job.cursor, job.pindexNew)
    /\ batch' = disk
    /\ job' = [job EXCEPT !.pindexIntermediate = x, !.pfork = job.cursor]
    /\ pc' = "postponed"
    /\ UNCHANGED <<memory, disk, returned, tainted>>

(* Mutated: the locals are gone before the new best block is noted.        *)
NewBestBlockTooLate ==
    /\ pc = "finish"
    /\ Return(TRUE)
    /\ pindexBest' = job'.pindexNew
    /\ UNCHANGED <<mapBlockIndex, pnext, disk, batch, tainted>>

(* "New best block": the end of SetBestChain.                              *)
NewBestBlock ==
    /\ pc = "finish"
    /\ pindexBest' = job.pindexNew
    /\ Return(TRUE)
    /\ UNCHANGED <<mapBlockIndex, pnext, disk, batch, tainted>>

(* Mutated: LoadBlockIndex also drops the blocks as high as the best.      *)
RestartOffByOne ==
    /\ mapBlockIndex' = {b \in disk.bidx : Height[b] < Height[disk.hashBestChain]}
    /\ pnext' = disk.hashNext
    /\ pindexBest' = disk.hashBestChain
    /\ batch' = NoBatch
    /\ Return(TRUE)
    /\ UNCHANGED <<disk, tainted>>

(* The process ends, at any step, and LoadBlockIndex rebuilds the memory   *)
(* of the next one from the database: it drops the blocks above the best.  *)
Restart ==
    /\ mapBlockIndex' = {b \in disk.bidx : Height[b] <= Height[disk.hashBestChain]}
    /\ pnext' = disk.hashNext
    /\ pindexBest' = disk.hashBestChain
    /\ batch' = NoBatch
    /\ Return(TRUE)
    /\ UNCHANGED <<disk, tainted>>

Work ==
    \/ SetBestChain
    \/ DisconnectBlock
    \/ \E x \in Blocks : ConnectBlock(x)
    \/ BlockFails
    \/ TxnCommit
    \/ \E x \in Blocks : NextSecondary(x)
    \/ NewBestBlock

Next ==
    \/ \E b \in Blocks : AddToBlockIndex(b)
    \/ Work
    \/ Restart

Spec == Init /\ [][Next]_vars

(* ProcessMessages runs a handler to its end before it takes another, so   *)
(* the thread that has entered AddToBlockIndex keeps running.              *)
FairSpec == Spec /\ WF_vars(Work)

-----------------------------------------------------------------------------
(* What the transaction index and the block files say of a chain.          *)

(* The index of a chain: each of its transactions where its block is, with *)
(* the outputs that the chain's own transactions spend.                    *)
IndexOf(C) ==
    [t \in TxsOf(C) |->
        [pos   |-> CHOOSE b \in C : t \in TxsIn(b),
         spent |-> UNION {SpentOf(b, t) : b \in C}]]

(* Each block of the chain of tip was connectable on top of the one before. *)
Validated(tip) ==
    \A b \in Chain[tip] \ {Genesis} : Connectable(IndexOf(Chain[Prev[b]]), b)

-----------------------------------------------------------------------------
(* Every variable has its type.                                            *)
TypeOK ==
    /\ mapBlockIndex \subseteq Blocks
    /\ pnext \in [Blocks -> Blocks \cup {None}]
    /\ pindexBest \in Blocks
    /\ IsDatabase(disk)
    /\ batch = NoBatch \/ IsDatabase(batch)
    /\ pc \in Phases
    /\ job \in [pindexNew : Blocks \cup {None}, pindexIntermediate : Blocks \cup {None},
                pfork : Blocks \cup {None}, cursor : Blocks \cup {None}]
    /\ returned \in BOOLEAN
    /\ tainted \in BOOLEAN

(* The transaction index on disk is that of the best chain on disk, every  *)
(* block of which was connectable: a commit, an abort in the middle of     *)
(* Reorganize or a restart at any step leaves nothing half done.           *)
IndexMatchesChain ==
    ~tainted =>
        /\ disk.txindex = IndexOf(Chain[disk.hashBestChain])
        /\ Validated(disk.hashBestChain)

(* The best chain on disk never spends an output twice nor holds a         *)
(* transaction twice.                                                      *)
NoDoubleSpend == ~tainted => SpendsOnce(disk.hashBestChain)

(* hashNext on disk, and pnext in memory, lead from the genesis block to   *)
(* the tip along the best chain and nowhere else.                          *)
NextPointersFollowChain ==
    ~tainted =>
        /\ disk.hashNext = NextOf(disk.hashBestChain)
        /\ pnext = NextOf(disk.hashBestChain)

(* LoadBlockIndex drops blocks by height alone, yet no block of the index  *)
(* is ever without its predecessor, in memory or on disk.                  *)
IndexRooted ==
    /\ \A b \in mapBlockIndex \ {Genesis} : Prev[b] \in mapBlockIndex
    /\ \A b \in disk.bidx \ {Genesis} : Prev[b] \in disk.bidx
    /\ pindexBest \in mapBlockIndex
    /\ disk.hashBestChain \in disk.bidx

(* The best chain on disk only ever gives way to one with more trust, also *)
(* across aborted reorganisations, postponed blocks and restarts.          *)
BestTrustGrows ==
    [][disk'.hashBestChain # disk.hashBestChain =>
        Trust[disk'.hashBestChain] > Trust[disk.hashBestChain]]_vars

(* AddToBlockIndex returns: each of the loops of SetBestChain and          *)
(* Reorganize ends, also from a best block that the database does not have *)
(* and after a block that cannot be connected.                             *)
CallReturns == pc # "idle" ~> pc = "idle"

(* "errors now are not fatal, we still did a reorganisation to a new chain *)
(* in a valid way": after SetBestChain, the best block in memory is the    *)
(* best block of the database.                                             *)
BestBlockIsOnDisk == pc = "idle" => pindexBest = disk.hashBestChain

-----------------------------------------------------------------------------
(* The database implements the abstract ledger: what a reader finds there  *)
(* at any instant, a crash included, is one sound chain and its unspent    *)
(* outputs.                                                                *)
UnspentIn(index) ==
    {o \in UNION {{t} \X (0 .. NOut[t] - 1) : t \in DOMAIN index} :
        o[2] \notin index[o[1]].spent}

L == INSTANCE Ledger WITH tip <- disk.hashBestChain,
                          unspent <- UnspentIn(disk.txindex), lost <- tainted
ImplementsLedger == L!Spec
=============================================================================
