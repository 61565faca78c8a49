---------------------------- MODULE MCChainState ----------------------------
(***************************************************************************)
(* A small tree of blocks for ChainState.                                  *)
(*                                                                         *)
(*        g --- p --- a1 --- a2 --- a3                                     *)
(*               \--- b1 --- b2 --- b3 --- b4                              *)
(*                                                                         *)
(* p holds a coinbase with two outputs.  a1 spends its first output with   *)
(* t1, which b2 holds too; a2 spends the second with t2 and an output of   *)
(* t1.  b1 spends the second with t3 and, in the same block, t3's output   *)
(* with t4; b3 spends with t2 what t3 has spent, so it can never connect.  *)
(* b4 and a3 come after a tip that the database may not have.              *)
(* The trusts make b1 weaker than a1, b2 stronger than a2, and let b2,     *)
(* lower than a2, survive a restart without being the best.                *)
(***************************************************************************)
EXTENDS ChainState

CONSTANTS g, p, a1, a2, a3, b1, b2, b3, b4, c0, t1, t2, t3, t4

MCBlocks == {g, p, a1, a2, a3, b1, b2, b3, b4}
MCPrev == [b \in MCBlocks \ {g} |->
    CASE b = p -> g [] b = a1 -> p [] b = a2 -> a1
      [] b = b1 -> p [] b = b2 -> b1 [] b = b3 -> b2
      [] b = b4 -> b3 [] b = a3 -> a2]
MCHeight == [b \in MCBlocks |->
    CASE b = g -> 0 [] b = p -> 1 [] b \in {a1, b1} -> 2
      [] b \in {a2, b2} -> 3 [] b \in {a3, b3} -> 4 [] b = b4 -> 5]
MCTrust == [b \in MCBlocks |->
    CASE b = g -> 1 [] b = p -> 2 [] b = a1 -> 4 [] b = a2 -> 5
      [] b = b1 -> 3 [] b = b2 -> 6 [] b = b3 -> 7
      [] b = b4 -> 8 [] b = a3 -> 9]

MCTxs == {c0, t1, t2, t3, t4}
MCVtx == [b \in MCBlocks |->
    CASE b = p -> <<c0>> [] b = a1 -> <<t1>> [] b = a2 -> <<t2>>
      [] b = b1 -> <<t3, t4>> [] b = b2 -> <<t1>> [] b = b3 -> <<t2>>
      [] OTHER -> << >>]
MCVin == [t \in MCTxs |->
    CASE t = c0 -> {} [] t = t1 -> {<<c0, 0>>} [] t = t2 -> {<<c0, 1>>, <<t1, 0>>}
      [] t = t3 -> {<<c0, 1>>} [] t = t4 -> {<<t3, 0>>}]
MCNOut == [t \in MCTxs |-> IF t = c0 THEN 2 ELSE 1]
MCGenerated == {c0}
=============================================================================
