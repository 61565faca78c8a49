---------------------------- MODULE MCBlockIntake ---------------------------
(***************************************************************************)
(* Six blocks for BlockIntake, without transactions.                       *)
(*                                                                         *)
(*        g --- a1 --- a2 --- a3                                           *)
(*         \--- b1 --- b2                                                  *)
(*                                                                         *)
(* a1 and b1 have the same stake, and so have a2 and b2.  b2 has more      *)
(* trust than a2 but not than a3, and the pool holds one orphan before it  *)
(* is pruned, so that up to two are in it.                                 *)
(***************************************************************************)
EXTENDS BlockIntake

CONSTANTS g, a1, a2, a3, b1, b2, s1, s2

MCBlocks == {g, a1, a2, a3, b1, b2}
MCPrev == [b \in MCBlocks \ {g} |->
    CASE b \in {a1, b1} -> g [] b = a2 -> a1 [] b = a3 -> a2 [] b = b2 -> b1]
MCHeight == [b \in MCBlocks |->
    CASE b = g -> 0 [] b \in {a1, b1} -> 1 [] b \in {a2, b2} -> 2 [] b = a3 -> 3]
MCTrust == [b \in MCBlocks |->
    CASE b = g -> 1 [] b = a1 -> 3 [] b = a2 -> 4 [] b = b1 -> 2 [] b = b2 -> 5 [] b = a3 -> 6]
MCStake == [b \in MCBlocks |->
    CASE b \in {a1, b1} -> s1 [] b \in {a2, b2} -> s2 [] OTHER -> None]
MCTxs == {}
MCVtx == [b \in MCBlocks |-> << >>]
MCVin == [t \in MCTxs |-> {}]
MCNOut == [t \in MCTxs |-> 0]
=============================================================================
