----------------------------- MODULE BlockTree ------------------------------
(***************************************************************************)
(* The blocks a node may be given and the transactions they hold, as       *)
(* constants: what the chain state, the intake of blocks and the abstract  *)
(* ledger share.                                                           *)
(***************************************************************************)
EXTENDS Integers, Sequences, FiniteSets

CONSTANTS
    Blocks,     \* every block the node may be given
    Genesis,    \* the block LoadBlockIndex creates in an empty database
    Prev,       \* Prev[b]: the block hashPrevBlock names, for b # Genesis
    Height,     \* Height[b]: nHeight
    Trust,      \* Trust[b]: nChainTrust
    Txs,        \* every transaction
    Vtx,        \* Vtx[b]: the block's transactions, in order
    Vin,        \* Vin[t]: the outputs <<transaction, n>> that t spends
    NOut,       \* NOut[t]: vout.size()
    Generated,  \* the coinbase and coinstake transactions
    Maturity,   \* nCoinbaseMaturity
    None        \* no block, no open batch

TxsIn(b) == {Vtx[b][i] : i \in DOMAIN Vtx[b]}

(* Blocks form a tree; every block has a positive GetBlockTrust().         *)
ASSUME ChainAssumption ==
    /\ Genesis \in Blocks
    /\ None \notin Blocks
    /\ Prev \in [Blocks \ {Genesis} -> Blocks]
    /\ Height \in [Blocks -> Nat]
    /\ Height[Genesis] = 0
    /\ Trust \in [Blocks -> Nat]
    /\ \A b \in Blocks \ {Genesis} :
          Height[b] = Height[Prev[b]] + 1 /\ Trust[b] > Trust[Prev[b]]

(* CheckBlock refuses a block that holds a transaction twice; AcceptBlock  *)
(* makes a coinbase begin with its block's height; the outputs of the      *)
(* genesis block are never indexed.                                        *)
ASSUME TxAssumption ==
    /\ Vtx \in [Blocks -> Seq(Txs)]
    /\ Vtx[Genesis] = << >>
    /\ \A b \in Blocks : \A i, j \in DOMAIN Vtx[b] : Vtx[b][i] = Vtx[b][j] => i = j
    /\ Vin \in [Txs -> SUBSET (Txs \X Nat)]
    /\ NOut \in [Txs -> Nat]
    /\ Generated \subseteq Txs
    /\ Maturity \in Nat
    /\ \A b, c \in Blocks : \A t \in TxsIn(b) \cap TxsIn(c) :
          Vin[t] = {} => Height[b] = Height[c]

(* The blocks reached from b through pprev, b itself included: the least   *)
(* set that holds b and the predecessor of each of its blocks.             *)
Chain == [b \in Blocks |->
    {a \in Blocks : \A S \in SUBSET Blocks :
        (b \in S /\ \A x \in S \ {Genesis} : Prev[x] \in S) => a \in S}]

(* The transactions of a set of blocks, the outputs spent in a block, and  *)
(* those of transaction t among them.                                      *)
TxsOf(C) == UNION {TxsIn(b) : b \in C}
SpentBy(b) == UNION {Vin[t] : t \in TxsIn(b)}

(* The chain of tip holds no transaction twice and spends no output twice. *)
SpendsOnce(tip) ==
    /\ \A b, c \in Chain[tip] : b # c =>
          /\ TxsIn(b) \cap TxsIn(c) = {}
          /\ SpentBy(b) \cap SpentBy(c) = {}
    /\ \A b \in Chain[tip] : \A t, u \in TxsIn(b) : t # u => Vin[t] \cap Vin[u] = {}

(* Moreover its blocks spend only outputs of transactions that the chain   *)
(* holds no later.                                                         *)
Sound(tip) ==
    /\ SpendsOnce(tip)
    /\ \A b \in Chain[tip] : \A o \in SpentBy(b) :
          o[1] \in TxsOf(Chain[b]) /\ o[2] < NOut[o[1]]

(* The outputs that the transactions of tip's chain create and none of     *)
(* them spends.                                                            *)
UnspentOf(tip) ==
    {o \in UNION {{t} \X (0 .. NOut[t] - 1) : t \in TxsOf(Chain[tip])} :
        \A b \in Chain[tip] : o \notin SpentBy(b)}
=============================================================================
