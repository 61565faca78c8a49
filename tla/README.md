# ProCurrency: a verification project

ProCurrency is a proof-of-stake coin descended from Bitcoin, ppcoin and ShadowCoin. This
directory holds TLA+ models of its node, the TLC configurations that check them on small
instances, and theorems about them that the TLAPS proof system checks for all instances.
Paths such as `main.cpp` are those of `src/src/`; `PROJECT.json` gives for every
definition the lines it models.

## 1. Inventory

### 1.1 How the node works

One process. `ThreadSocketHandler` moves bytes, `ThreadMessageHandler` takes the peers in
turn and runs the handler of each message (`ProcessMessage`, then `SendMessages`), the
staking thread builds blocks, three threads serve encrypted messages, and the RPC and GUI
threads call into all of it. `cs_main` guards the chain, the pool and the handlers of blocks
and transactions; `cs_smsg` the buckets of messages; `cs_vNodes` the list of peers. LevelDB
holds the block index and the transaction index; block files are only appended to.

| Component (where) | State | Operations | Talks to | Hard behaviour | Correct when |
|---|---|---|---|---|---|
| Chain state (`main.cpp` 2580-3760, `txdb-leveldb.cpp`) | `mapBlockIndex`, `pnext`, `pindexBest`; in LevelDB block index, `hashBestChain`, `CTxIndex` entries; the open batch | AddToBlockIndex, SetBestChain(Inner), Reorganize, Connect/DisconnectBlock, LoadBlockIndex | called by block intake; changes the pool and the wallet | reorganisation fails half way, postponed blocks fail after a commit, crash between two commits, drop of blocks by height at start | database = one valid chain; no double spend; trust only grows |
| Block intake (`main.cpp` 1990-2060, 3900-4110) | `mapOrphanBlocks`, `setStakeSeen`, `setStakeSeenOrphan`, the work queue | ProcessBlock, AcceptBlock, AddOrphanBlock, PruneOrphanBlocks | gets blocks from messages and the miner, calls the chain state | blocks out of order, same stake twice, pool full, restart | an orphan is taken when its parent comes; stakes stay known and never leak |
| Memory pool (`txmempool.*`, `main.cpp` 700-1010, 3160-3220) | `mapTx`, `mapNextTx`, (`mapKeyImage`) | AcceptToMemoryPool, addUnchecked, remove, removeConflicts | the chain state removes and resurrects, the miner reads | order of resurrection and deletion, refusal of what was confirmed | closed under dependence, consistent with the chain |
| Staking miner (`miner.cpp`, `main.cpp` 4220-4290) | the block under construction | CreateNewBlock, SignBlock, CheckStake | reads chain and pool, calls ProcessBlock | chain moves while it is unlocked, transactions dropped after ordering | what it submits connects |
| Secure messaging (`smessage.*`) | buckets with tokens, hash and lock, bucket files, send queue, a `SecMsgNode` per peer | smsgPing ... smsgMsg, ThreadSecureMsg, ThreadSecureMsgPow, enable, disable, scan, send | peers, wallet keys | unlocked windows between steps, lock timeouts against late answers, lost announcements, shutdown | peers converge; a bucket is asked for once at a time; files and buckets agree |
| Anonymous outputs (`wallet.cpp` 935-1010, 3030-3720, `main.cpp` 1330, 2409-2587, `ringsig.*`) | key images and anonymous outputs in LevelDB, wallet and pool | Process-, Update- and UndoAnonTransaction, CheckAnonInputs | chain state, pool, wallet | written at once beside the open batch; undo on reorganisation; images of pool transactions | recorded images and coins are those of the chain; no leftover refuses an honest block |
| Orphan transactions (`main.cpp` 615-676, 5800-5870) | `mapOrphanTransactions`, `...ByPrev` | AddOrphanTx, EraseOrphanTx, LimitOrphanTxSize, the `tx` handler | pool, wallet, relay | random eviction, parent in a block | an orphan is tried when its parent comes |
| Inventory download (`net.h` 539-575, `main.cpp` 5582-5635, 6876-6915, `limitedmap.h`) | `mapAskFor`, `setAskFor`, `mapAlreadyAskedFor` | AskFor, the getdata loop, answers | block and transaction handlers | retries against late answers, full maps | what peers announce is asked for until it is there |
| Peers (`net.cpp`, `net.h`) | `vNodes`, reference counts, outbound grants | ConnectNode, OpenNetworkConnection, ThreadSocketHandler, disconnection | everything | three threads and two counters without a common lock | no node deleted while used, none kept for ever |
| Thin client (`main.cpp` 300-380, 1376-1925, 6058-6110, 6830-6865) | headers, pending filtered chunks | header sync, filtered blocks, re-requests | peers, wallet | timeouts and duplicate answers | counts of what is awaited are right |
| Staking kernel, retargeting (`kernel.cpp`, `main.cpp` 2074-2200) | none (pure) | ComputeNextStakeModifier, GetNextTargetRequired(Thin) | validity of blocks | boundaries, two copies of the rule | full and thin node agree |
| Wallet (`wallet.*`, `walletdb.cpp`, `db.cpp`) | `mapWallet`, keys, lock | CommitTransaction, sync, encrypt, unlock | chain, pool, anonymous outputs | partial failure over several stores, unlock timers | coins marked spent = coins spent |
| Address manager (`addrman.*`) | `mapInfo`, `mapAddr`, `vRandom`, `vvNew`, `vvTried`, two counters; `peers.dat` | Add_, Good_, GetAddr_, Attempt_, Select_, writing and reading | the opening threads and the `addr` handler | full buckets, eviction from tried to new, a file that keeps a part of the indexes | all indexes agree; a tried address is never forgotten |
| Others | checkpoints and alerts, scripts, keys and encodings, RPC and GUI, masternodes (not compiled), vendored libraries | | | | see `PROJECT.json` |

`PROJECT.json` lists all of them under "components" with what is modelled, and under
"hazards" what is hard to test, each at its line, with the property that would notice it or
the reason why none does yet.

### 1.2 What is modelled, what is not

Modelled, each "partly" because some operation or mode of it is abstracted (see the notes in
`PROJECT.json`): chain state, block intake, memory pool, staking miner, replication of secure
messages, anonymous outputs, orphan transactions, the download of announced transactions, the
life of peer connections, and the address manager. Not modelled yet: thin client, kernel and
retargeting, the wallet's own marks of spent coins (planned, section 6). Not planned:
masternodes and darksend (neither `procurrency.pro` nor `makefile.unix` compiles them),
cryptography, script interpreter, encodings, RPC, GUI and vendored code: sequential work on
bytes, or input and output.

## 2. Modules

    BlockTree ----- Ledger                   abstract specification
        |              ^
        +-- ChainState-+  (refinement)
        |     |-- BlockIntake                ProcessBlock around ChainState
        |     |-- TxMemPool                  the pool around ChainState
        |            |-- StakeMiner          the staking thread beside both
        +-- AnonLedger                       key images beside SetBestChain's batch
    TxRelay                                  announcements, requests, orphans
    NodeLifecycle                            CNode objects and their threads
    AddrMan                                  the address manager
    SecureMsg                                nodes that replicate messages

    MC<module> for ChainState, BlockIntake, StakeMiner, AnonLedger, TxRelay,
    NodeLifecycle, AddrMan, SecureMsg                           instances for TLC
    BlockTreeProofs   ChainStateProofs  BlockIntakeProofs
    StakeMinerProofs (of TxMemPool too)  AnonLedgerProofs
    TxRelayProofs  SecureMsgProofs
    NetProofs (of NodeLifecycle and AddrMan)                    theorems and proofs

**BlockTree** declares blocks, their tree, trusts and transactions as constants. A
transaction is the set of outputs it spends and the number it creates. The assumptions
`ChainAssumption` (a tree with growing trust) and `TxAssumption` (no block holds a
transaction twice; a coinbase names its height) are what CheckBlock and AcceptBlock enforce.

**ChainState** has an action for each step of the thread inside AddToBlockIndex:
`SetBestChain` (the walk back over postponed blocks, the fork, the open batch),
`DisconnectBlock` and `ConnectBlock` (the two loops of Reorganize, the extension of
SetBestChainInner and the loop over `vpindexSecondary`), `BlockFails` (a read, write or
check fails: TxnAbort), `TxnCommit` (with the pnext updates that follow it),
`NextSecondary`, `NewBestBlock`. `disk` is what LevelDB holds, `batch` what reads through
the open batch see. `Restart` may come at any step and does what LoadBlockIndex does to the
block index. ConnectBlock's BIP30 check, the search of inputs in database and queued
changes, maturity and the vSpent flags are the operators `MayIndex`, `FindsInput`,
`Connectable`, `ConnectTxs`, `DisconnectTxs`. `tainted` is a history variable: SetBestChain
has begun from a tip that the database does not have (first finding).

**Ledger** is what a reader of the database is promised: one chain, sound, with exactly its
unspent outputs, moving in single steps to more trust. ChainState implements it
(`ImplementsLedger`).

**BlockIntake** extends ChainState: `ReceiveBlock`, `ReceiveOrphan` with the pruning of
`PruneOrphanBlocks`, `AcceptOrphan`, `RefuseOrphan`, `NextInQueue` for the work queue, and
`RestartIntake` for the orphans that LoadBlockIndex makes. `stranded` is a history variable
for the orphans whose parent is known and that nothing will take.

**TxMemPool** extends ChainState: `ReceiveTx` (AcceptToMemoryPool), what Reorganize and
SetBestChainInner queue (`vResurrect`, `vDelete`, `vtx`) and then do one transaction at a
time after the commit (`ResurrectTx`, `DeleteTx`, `RemoveTx`), with `Dependents` for the
recursion of CTxMemPool::remove.

**StakeMiner** extends TxMemPool with the staking thread: `ReadBest` (without cs_main),
`LockMain`, `TakeTx`, `Unlock`, `SignBlock`, `CheckStake`, `Submit`. Chain and pool may move
wherever it does not hold cs_main.

**SecureMsg** models `Nodes` that are peers of each other. Each has a message handler
(`Handler`: one action per message, and for the handlers that leave cs_smsg in the middle
one per part: `BeginSend`/`SendInv`/`EndSend`, `ReceiveHave`/`SiftHave`/`LockBucket`,
`ReceiveMsg`/`StoreMsg`/`EndReceive`),
`ThreadSecureMsg` (`Wake`, `Tick`, `Report`), `ThreadSecureMsgPow` (`EraseQueued`,
`StoreQueued`) and its user's commands. Times appear only through comparisons: `due` are the
buckets with timeChanged >= lastMatched, `again` those of them that are due only because they
changed in the second of lastMatched (SMSG_SEND_DELAY is two seconds, so such a repeat
happens once), `old` those past SMSG_RETENTION. A hash is the set it is computed from.
smsgHave has three steps: the unlocked test of fSecMsgEnabled, the test of the lock with the
sifting of the bucket, and the lock of the bucket with the request; SecureMsgDisable and
SecureMsgEnable may come between any two, and the peer that is asked may be gone. For the other
messages the test of fSecMsgEnabled is taken together with the first use of cs_smsg. That hides
nothing the properties see: with the test dropped altogether, so that every message is also
handled while messaging is off, the invariants of the run hold as well (3.4 million states).
`overdue`, `scanned` and `missed` are history variables that say which of the code's known
shortcuts a behaviour has taken; the properties say what holds without them.

**AnonLedger** follows a key image through everything that writes or reads one. The database of
images and outputs (`keyImages`, `anonOutputs`) has no batch: SetBestChain connects and
disconnects blocks in its own (`Disconnect`, `Connect`, `Commit`, `GiveUp`, and `NextSecondary`
for postponed blocks), and SyncWithWallets, called for each of them, writes through another
CTxDB that commits at once. `Processed`, `Updated` and `Undone` are the three wallet functions,
which `SyncWithWallets` applies to a block's transactions in order, `CheckAnonInputs` and
`InSystem` (TxnHashInSystem: the index, pnext and nBestHeight) what the code believes of an
image. `ReceiveTx`, `TellWallets`, `AcceptOrphan` and `EndTx` are the `tx` handler: a
transaction enters the pool, the wallets are told of it, then orphans enter the pool one by one,
and for each the wallets are told once more of the transaction that came (`received`), never of
the orphan. What orphans wait for is left to TxRelay; here any acceptable transaction may be
one. `Resurrect` and `Delete` are the rest of the pool's part. The blocks of an instance are
honest ones: no chain of them shows an image twice. `interrupted` is a history variable: a
reorganisation was cut short after it had disconnected or connected something. Things to know
when reading it: whether a block is valid depends on the pool, for an image of a pool
transaction refuses a block with another one; an image that a lost or disconnected transaction
has left in the database hides the pool's, as GetKeyImage reads the database first; a
resurrected transaction has no image in the pool's map, for Reorganize tells no wallet of it,
and no more has an accepted orphan, so that a conflicting transaction may join it in the pool;
and a transaction is processed again for each orphan it lets in. After a postponed block has
failed memory and database have different tips (first disagreement), and what follows is left to
ChainState.

**TxRelay** is a full node's message handler between "inv" and the pool: `Inv` (AskFor with
its limitedmap), `SendGetData`, `PeerSends` for an answer or an unasked "tx", the loop over
the orphans of an accepted transaction step by step (`TryOrphan`, `NextEntry`, `EraseAll`)
with LimitOrphanTxSize's random eviction in `AddOrphan`, `BlockConnects`, and `Tick`. Times
are relative: an entry of mapAskFor is due when it reaches 0. AcceptToMemoryPool is reduced to
what tells the loop's cases apart: known, conflicting, without inputs, refused otherwise
(`Dubious`).

**NodeLifecycle** has a step for every block of net.cpp that holds cs_vNodes, and for every
use of a node without it. `Dial` to `SetOneShot` are an opening thread on its way through
OpenNetworkConnection and ConnectNode, with the unlocked `nRefCount++` of a node that
FindNode has found as a read and a write, and the writes that hand over the grant, set
fNetworkNode and, for a one-shot, set fOneShot as steps of their own. `Ways` says which threads
connect to an address, to a name, to a one-shot or by `addnode onetry`, and `Resolved` to which
addresses names lead. The loop of the socket thread that disconnects nodes keeps cs_vNodes, but
opening threads change nodes without it; so it goes node by node (`SocketDisconnect`, then for
each node `SocketKeep`, or `SocketSever`, which takes it from vNodes and releases its grant, and
`SocketPool`, which tests fNetworkNode), and all that takes cs_vNodes waits for its end
(`VNodesFree`). `SocketDelete`, `SocketAccept`, `SocketCopy`, `SocketService` are the rest of the
socket thread; `HandlerCopy`, `HandlerProcess`, `HandlerRelease` the message handler. Grants are
counted: `free` is the semaphore, a grant is in the hands of a thread or of a node.

History variables name the states that these unlocked steps leave: `shared` are nodes whose
pointer ConnectNode has taken from FindNode and used after cs_vNodes was left; `leaked` those
whose flag was not set when SocketPool tested it, and which so keep their maker's reference;
`cut` those severed before their grant was moved to them. `Late` are nodes of one-shots between
the two flags. Abstracted: MoveTo is one step, which for a node that only its maker knows
changes nothing, as the socket thread sees fHaveGrant set or not; on a `shared` node, where two
threads may move a grant to one place, it leaves a race out. What is written to a freed object
is lost; SocketService includes the Release that ends its turn; -connect, whose nodes have no
grant, is not among the ways; a peer that connects to us has another port, so FindNode(CService)
does not find it; the assertion nRefCount >= 0, a build option, does not stop the program;
shutdown is left out.

**AddrMan** holds the whole of CAddrMan in one record `am`, as every operation runs under one
lock, and each operation is a function from such a record to the records it may become.
Random numbers, times and statistics decide only which entry is chosen, and any may be. A
tried bucket is a set, since only its members matter; ids are the least free ones instead of
a counter. `Reload` is an orderly restart: StopNode's DumpAddresses writes peers.dat and the
next start reads it, with the renumbering and recounting of the reader. A crash between two of
the dumps made every 15 minutes, after which the start reads the older file, is not modelled:
it forgets what came since, tried or not.

Left out on purpose everywhere: amounts, fees, sizes, scripts and signatures (they may make
any block, transaction or message fail, and do so by nondeterminism), logging, and the
wording of messages.

## 3. Runs

Deadlock is checked in the runs of ChainState, BlockIntake, StakeMiner, AnonLedger and
NodeLifecycle (a block can always be given again, the process restart, a thread go on). It is
off for SecureMsg: when all messages are everywhere, or SecureMsgDisable hangs, nothing is
left to do; for TxRelay: when every announced transaction is there nothing happens; and for
AddrMan: with every address tried nothing is left to do.

| Run | Shows |
|---|---|
| `chain_state` | Two branches over a common block, with a transaction in both, one that conflicts, one block that can never connect, and blocks after a tip the database may lack; failures and restarts at every step. The database is that of one valid chain of growing trust (`IndexMatchesChain`, `NoDoubleSpend`, `NextPointersFollowChain`, `IndexRooted`, `BestTrustGrows`), implements Ledger, and AddToBlockIndex returns (`CallReturns`). |
| `block_intake` | Blocks in every order, a pool of one orphan, stakes shared by blocks: `OrphansWait`, `OrphansAreNotIndexed`, `StakesAreSeen`, `NoStakeLeak`, `ProcessReturns`. |
| `stake_miner` | Pool and miner over two branches: `NextTxMatches`, `PoolNotConfirmed`, `DependentsLeaveToo`, `MinedBlockConnects`. |
| `secure_msg` | Two nodes, two messages, and one event (disable, scan, age, reconnect, restart, late answer) between any two steps: `HashIsCurrent`, `TokensAreStored`, `PeersAreTold`, `LockCoversRequest`, `QuietMeansEqual`. |
| `locks_run_out` | One message and one event at either node, under fairness: every lock ends, as long as messaging stays on (`LocksEnd`). |
| `anon_ledger` | Two anonymous coins and three branches that spend one of them in different ways, through pool, orphans that no wallet is told of, reorganisation, postponed blocks, failure and restart. Unless a reorganisation was cut short the recorded images and outputs are those of the chain (`RecordsMatchChain`), and what other branches and lost pools leave behind does not make a node refuse an honest block (`HonestBlockConnects`). |
| `tx_relay` | An honest and a silent peer, transactions that depend on each other or conflict, a full map of requests and a full pool of orphans: `OrphansByPrev`, `NoneLeftBehind`, and what an honest peer announces arrives (`GoodArrives`). |
| `node_lifecycle` | Two opening threads, the socket thread and the message handler: no use after delete, no lost or doubled slot, no two connections to one address, every disconnected node is deleted (`NoUseAfterDelete`, `SlotsBelongToPeers`, `GrantsAddUp`, `NoTwins`, `DisconnectedAreDeleted`), each but for the nodes it names: `shared`, `leaked`, `cut`, `Late`. |
| `addr_man` | Addresses in buckets that overflow at the second entry: what Check_ tests (`AddrManConsistent`), tried addresses stay known (`TriedStays`), an orderly restart brings the tables back (`ReloadKeepsTables`). |
| `best_block_on_disk`, `disable_returns`, `undone_when_not_committed` | Violations: what a comment or name in the repository says and the code does not do (section 5). |

**Bounds.** The trees of blocks are the smallest in which both loops of Reorganize run more
than once, a postponed block fails after the commit, a block of lower height survives a
restart off the best chain, and a transaction is in both branches; the comments of the MC
modules say which block is there for what. `Maturity` is 1 so that maturity refuses
something; `MaxOrphans` 1 so that the pool overflows at the second orphan. For the miner,
two stake times tell younger transactions from older ones. In SecureMsg two nodes suffice
for every pair of steps of the protocol, two messages for a bucket that differs in number
and one that differs in content only; `LockTicks` is 1 for 3, since a tick may come at any
time; `BunchMax` is above the messages where answers must be whole and 1 where the cut
matters; `MaxInFlight` 1 makes a node wait with an announcement while one is under way, and
`MaxEvents` 1 allows one failure per behaviour (an answer that is late because its sender
hangs in SecureMsgDisable is not counted, or the bound would hide the timeout). Third parties
that hold the lock of a bucket are not in the runs: with two nodes a lock is always for the
one peer.

The blocks of MCAnonLedger make every step of a reorganisation happen with an image in it: a
branch that spends the coin with another ring, one that spends it with the same transaction a
block later, one that spends what that made, and a block that reaches the best trust only
through a postponed successor. `MinDepth` 1 makes depth refuse something. In TxRelay `c` has two
parents of which one is an orphan's child, so the loop over orphans extends its own queue;
`MaxOrphans` 2 and `MaxAlreadyAsked` 2 make eviction happen while the evicted is needed, and
`MaxGetData` 2 is reached. NodeLifecycle has one address and two objects, which is what a race
for one address needs: two threads that connect to it, or one and the peer itself, while the
socket thread deletes. One of the threads opens one-shots, too, so that every late write is
reached (1.3 million states, the largest part of them for `DisconnectedAreDeleted`).
`NodeMoreWays.cfg` checks the same with names and `onetry` (575 000 states, no violation).
AddrMan has buckets of one entry, since every branch of Add_ and MakeTried is about a full
bucket or one that is not; five services at four addresses make two services of one address
meet; with `MaxPct` 75 and `MaxGetAddr` 2 either limit of GetAddr_ is the lower one for some
number of entries.

`QuietMeansEqual` was checked with more events too: at two events per behaviour and one message
TLC found that a node which lost its messages to smsgscanbuckets and then turned messaging off
and on is not told of them again, since its peer has not forgotten that it told it. The property
excepts such buckets (`scanned`); with that it holds for two events of every kind at both nodes
(1.6 million states), and for two messages and one event (3.4 million).

**Fairness.** `FairSpec` and `FairIntake` assume weak fairness of the steps inside a handler: it
runs under cs_main, in one thread, to its end. They assume nothing about the arrival of blocks,
failures or restarts. `FairSmsg` assumes that the three threads of each node keep taking steps
and that the time for which a peer is ignored ends; it assumes nothing about users, failures or
ageing. So a lock is promised to end only while messaging is on: nobody ticks down the locks of
a node that has turned it off. `FairNodes` assumes weak fairness of the socket thread and strong
fairness of the message handler, which gets cs_vNodes some time although the socket thread takes
it again and again, since that waits in select for 50 ms in every round; it assumes nothing
about the threads that open connections, which may hang in a connect. `FairRelay` assumes that
the handler finishes its loop and serves every peer in turn, that time passes, and that honest
peers answer what they are asked; silent ones need not. The loops of the threads (a MilliSleep,
then again) justify it.

**Mutants.** For every property of a passing run `PROJECT.json` names a mutant of a mapped
definition (a dropped check, a late reset, an off-by-one) under which TLC finds the property
violated. They stand beside the definitions, marked "Mutated".

## 4. Proofs

All theorems hold for every value of the constants under `ChainAssumption`, `TxAssumption`,
and where the modules declare them `IntakeAssumption`, `PoolAssumption`, `MinerAssumption`,
`AnonAssumption`, `RelayAssumption`, `NodesAssumption` (the opening threads are finitely
many), `AddrManAssumption` (services and new buckets are finitely many), `SmsgAssumption`
(buckets and messages are finitely many: a payload above SMSG_MAX_MSG_WORST is refused,
`smessage.cpp:3235`, so they are): for any number of blocks, transactions, coins, peers,
threads, addresses, buckets and messages. Nothing is assumed of fairness.

*Chain state* (`ChainStateProofs`, lemmas on trees in `BlockTreeProofs`). The invariants of
the run are not inductive: nothing in them says what the open batch and the local variables
of SetBestChain are. `Inv` adds that. It is the conjunction of `TypeOK`; `RootedInv`
(predecessors are known, in memory and on disk); `JobInv` (phase by phase, which blocks the
local variables are and how their trusts compare with both best blocks); `ConsistentInv`
(unless tainted, the database is that of its best chain, and the batch turns it into that of
the chain which ends at the cursor, all of whose blocks were connectable). The main lemmas
are that ConnectTxs after DisconnectTxs of a branch yields the index of the other branch, and
that a connectable block keeps a chain sound. From `Invariance` follow `TypeCorrect`,
`IndexIsThatOfBestChain`, `NoOutputIsSpentTwice`, `PointersFollowBestChain`,
`IndexStaysRooted`, `TrustOfBestChainGrows` and the refinement `DatabaseImplementsLedger`.

*Block intake*. `IntakeInv` says for each orphan with a known predecessor why it is still
there. `OnlyStrandedOrphansAreLeft`, `OrphanOrIndexed`, `StakeSetsAreRight` (with
`OrphanStakesGo`), `IntakeTypes`, and `IntakeKeepsLedger`: the composition runs ChainState
and nothing else, so the refinement carries over.

*Memory pool* (in `StakeMinerProofs`). `PoolInv` adds to type and `NextTxMatches` what the
queued lists hold (`ListsInv`), that between the commit and the end of the deletions only queued
transactions may be both in chain and pool (`ConfirmedInv`), and where the inputs of pool
transactions are (`InputsInv`). `PoolRunsChainState`, `PoolTypeCorrect`, `NextTxAlwaysMatches`,
`NothingConfirmedIsPooled`, `DependentsLeave`.

*Miner*. `MinerInv` relates what was collected to the pool and the chain as long as
pindexBest has not moved; CheckStake's comparison of hashPrevBlock is what makes it enough.
`MinerRunsPool`, `MinerTypeCorrect`, `MinedBlocksConnect`.

*Anonymous outputs*. `RecordsMatchChain` says nothing while a reorganisation runs, and nothing
of the leftovers that CheckAnonInputs meets. `RecInv` says both (`Matches`): the chain of the
cursor is recorded and only its coins have a height; an image is that of the transaction that
is said to have shown it, whose coin is known (otherwise UpdateAnonTransaction would fail for
it); and if that transaction is in the chain on disk it is in the chain of the cursor, so that
it cannot stand in the way of the block that is connected. `PoolInv` says that an image of the
pool's map is of a transaction of the pool, and that while a batch is open none of these is in
the chain on disk: undoing a block takes no coin from under an image of the pool. `Named` is what
makes the `tx` handler harmless: whatever pool it meets, with orphans whose images nobody
knows, it records an image only of a coin that is known, and `received` is in the pool when
the wallets are told of it. What
SyncWithWallets does to a whole block is not defined by a formula but transaction by
transaction. `ToldExists` shows that this is a definition, and `ConnectNotes` and
`DisconnectUnnotes` what comes out: the images and coins of the block override the old ones, or
are removed. These three are inductions over the block's transactions, made without the
library's induction rule by looking at the least place at which the claim would fail
(`LeastOf`). `RecordsFollowChain`, `HonestBlocksConnect`.

*Relay*. That no orphan is left behind when its parent is accepted cannot be seen from the
state between two steps of the loop: `RelayInv` adds to the types (`SetsOK`, `AskingOK`,
`LoopOK`) and the exactness of the index by parents (`IndexOK`) what the loop still owes
(`LoopInv`): an orphan that it has not put on vEraseQueue misses a parent, or is `Pending`,
which is to say in the current entry, a child of a later entry of the queue, or a child of
none. `OrphanIndexIsExact`, `NoOrphanIsLeftBehind`.

*Nodes*. `NodesInv` counts references: `Refs(n)` is the number of copies of the pointer that the
socket thread and the message handler hold, plus the maker's reference while the node is in
vNodes, in the loop that disconnects, or leaked, and `CountsOK` says that nRefCount is just
that, unless the node is `shared`. A node that is not `shared` and that an opening thread has in
its hands before it sets fNetworkNode is `Fresh`: one of these three, and known to no other
opening thread (`HandsOK`). So the socket thread, which deletes only what has no reference, does
not delete it: `DeletedAreUnused`, which leaves the write of fOneShot out, as it must. If that
thread still has the grant, the node is in vNodes or `cut`; as `SocketSever` takes the grant of
what it takes from vNodes, a node out of vNodes that has one got it late: `SlotsComeBack`.
`OneConnectionEach` rests on the same facts, and on one more, that ConnectNode holds
cs_connectNode from FindNode to the insertion in vNodes (`ConnectOK`). `SlotsAddUp` counts: the
sets of what holds a grant (the opening threads that have one in hand, the nodes to which one
was moved) change by one element at a time, as `free` does (`SlotsInv`).

*Addresses* (in `NetProofs`, with *Nodes*). What Check_ tests is inductive once types are added
and `vRandom` is said to be a bijection (`SoundOK`). But the operations pass through managers
that are not consistent: Create makes an entry without a place, ShrinkNew takes one from an
entry that may have no other. So the proof is about functions on records: `BaseOK` is what holds
all the time, `FillingOK` what Create hands to the insertion in a bucket, and lemmas say what
`SwapRandom`, `Delete`, `Create`, `PutNew` and `MakeTried` make of them. GetAddr_'s loop is
shown to be well defined, and each of its swaps to keep `SoundOK`, by looking at the least place
where this would fail (`ShuffleExists`, `GetAddrStep`). For a restart the ranks of ids are counted
(`RankCounts`, `NumbersCount`): the new numbers are 1 to the number of entries, and under
`SoundOK` nothing is lost to the limits the reader applies (`AllPlaces`, `AllFit`), so that the
reader only renumbers (`Renumbered`). `AddrManIsConsistent`, `TriedEntriesStay`,
`ReloadsKeepTables`.

*Secure messages*. `SmsgInv` has, beside the types of everything on the wire and in the
handlers' hands, `OffOK` (messaging is off before SecureMsgDisable waits for the threads, so
that no thread works on cleared buckets) and `SentOK`: between the loop of SecureMsgSendData
and the assignment of lastMatched the peer has been told of every bucket that has not changed
since the time that is going to be lastMatched was read. With it `PeersAreTold` is inductive:
every change of a hash makes the bucket due, for the announcement that is being made too.
`SmsgTypes`, `HashesAreCurrent`, `BucketsAreOnDisk`, `NothingIsLeftUntold`. That a lock covers
what was asked for is a matter of counting: `LockInv` says of a bucket that is neither `overdue`
nor aged that at most one message under way, whichever peer it goes to or comes from, asks for it
or answers (`AskedOnce`), that one does only while the bucket is locked, and none while a bunch
is being stored in it, and none while the handler has sifted the bucket and is about to lock it
(`Wanting`): a message under way that asks for a bucket keeps it locked, and the handler, the only
thread that asks, is between its two steps. SecureMsgDisable may come between them, and a lock may
be set while messaging is off; then SecureMsgEnable, which clears the buckets, makes the bucket
`overdue`. `LocksCoverRequests`.

That quiet peers agree is no matter of one moment: what one of them lacks was announced, asked
for, and is on its way. `AllPursued` says so of every bucket that a node will not announce to a
peer again (`ToldOf`): unless something was passed over, the peer has those messages or more
(`Has`), or a message under way leads it to them (`Leads`: an announcement of just this hash, a
list or a bunch that holds them), or asks for them (`Asks`), or the handler is at work on them
(`Gets`: it is to sift a list, is about to ask, or stores a bunch). Each handler takes up one
link of the chain and puts the next on the wire, or finds that the peer has enough; where it
does neither (a lock, a peer that is ignored, messaging that is off, an answer that was cut),
`missed` is set. All other steps let the files grow, leave the wire alone and announce nothing
(`SteadyKeeps`), or make due what they cut off (`CutPursued`). `PursuitGoesOn` is what these
have in common. When nothing is under way each of the two has what the other has or more, so
that they have the same: `QuietPeersAgree`.

Only model-checked: the liveness properties `CallReturns`, `ProcessReturns`, `LocksEnd`,
`DisconnectedAreDeleted` and `GoodArrives` (TLAPS proves no fairness argument with ENABLED).

## 5. Where code and documentation disagree

Shown by runs:

1. `best_block_on_disk`: after a postponed block fails, memory and database have different
   best blocks ("we still did a reorganisation ... in a valid way", `main.cpp:3277`).
2. `disable_returns`: SecureMsgDisable joins threads that wait for the lock it holds
   (`smessage.cpp:1278`).
3. `undone_when_not_committed`: "used if block is unlinked / txn didn't commit"
   (`wallet.cpp:3194`): what UndoAnonTransaction erases when a block is disconnected stays
   erased when the batch with that disconnection is dropped.

Shown by configurations that are kept beside the runs (`tlc -config <file> <module>` finds the
violation):

4. `OrphansWait.cfg`, MCBlockIntake: LoadBlockIndex makes orphans of blocks whose predecessor
   it keeps; nothing takes them from the pool but pruning (`main.cpp:4052`).
5. `PoolUnspentByChain.cfg`, MCStakeMiner: a block that extends the chain leaves conflicting
   transactions in the pool (`txmempool.h:12`).
6. `PoolInputsKnown.cfg`, MCStakeMiner: a reorganisation may leave transactions without their
   inputs ("This should never happen", `miner.cpp:194`).
7. `PeersGetTheRest.cfg`, MCSecureMsg: nobody asks for the rest of an answer that was cut
   ("peer will send more want messages if needed", `smessage.cpp:1720`).
8. `SlotsReturn.cfg`, MCNodeLifecycle: "release outbound grant (if any)" (`net.cpp:822`) comes
   before OpenNetworkConnection moves the grant to the node (`cut`), if the connection is lost
   between the two. The slot is then held until the node is deleted: soon, if fNetworkNode was
   set too before the test at line 830, and never, if it was not (`leaked`).
9. `OneShotsAreAlive.cfg`, MCNodeLifecycle: "wait until threads are done using it"
   (`net.cpp:841`): when a one-shot loses its connection while OpenNetworkConnection sets its
   flags, fNetworkNode lets the socket thread release and delete the node before fOneShot is
   written to it (`net.cpp:1495`).
10. `AllLocksEnd.cfg`, MCSecureMsg: "tick down nLockCount, so will eventually expire"
   (`smessage.cpp:647`): smsgHave may lock a bucket after SecureMsgDisable (`smessage.cpp:1646`),
   and as long as messaging is off nobody ticks the lock down.

Stated as definitions, and violated if one puts them in a configuration:

11. `ExpectedWasAsked` (TxRelay): "If we're not going to ask, don't expect a response"
   (`main.cpp:6901`) stands in the branch of what is asked for; an item that the node has got
   meanwhile stays in setAskFor.
12. `WalletsKnowPool` (TxRelay): "make sure all wallets know about the given transaction"
   (`main.cpp:208`): for an accepted orphan SyncWithWallets is called with its parent once
   more (`main.cpp:5845`).

Met while reading, and followed by the models: SelectTried returns the position an entry had
before it was swapped, so a full bucket does not give up the one that was "least recently
tried" (`addrman.cpp:128`); the depth of a ring's coins is measured from the height of the old
tip while SetBestChain runs, so that a postponed block may be refused that a node which
received the blocks one by one accepts (`main.cpp:2570`; the refusal leads to case 1).

The passing properties are stated for what remains: `~tainted`, `stranded`, `missed`,
`overdue`, `scanned`, `interrupted`, `shared`, `leaked`, `cut` and `Late` name exactly the states
those cases lead to.

## 6. Plan

Done: BlockTree, Ledger, ChainState, BlockIntake, TxMemPool, StakeMiner, SecureMsg, TxRelay,
NodeLifecycle, AnonLedger and AddrMan with their proofs. Next, in this order:

1. *Retarget* and *StakeModifier* as pure operators checked against reference definitions.
2. *WalletSpends*: what CommitTransaction marks as spent when one of its stores fails.
3. *ThinSync*.

Twelve runs and forty properties are as many as the project can check in a sensible time: a
new component takes the place of a run that says less.
