---------------------------- MODULE MCStakeMiner ----------------------------
(***************************************************************************)
(* Seven blocks and six transactions for TxMemPool and StakeMiner.         *)
(*                                                                         *)
(*        g --- p --- q --- a1 --- a2                                      *)
(*                     \--- b1 --- b2                                      *)
(*                                                                         *)
(* p holds a coinbase with two outputs, mature from q on.  t1 and t2 both  *)
(* spend the first, t3 spends the second; a1 and b2 both hold t3.  t4      *)
(* spends t1 and t3 and is in no block, t5 spends t3 alone.  So a pool at  *)
(* a1 with t1 and t4 loses both to b1, where t2 is; t4 in a pool at a2     *)
(* conflicts with t5 and stays behind when the chain moves to b2; and t5   *)
(* can be taken back there.  The trusts order the blocks b1, a1, a2, b2.   *)
(***************************************************************************)
EXTENDS StakeMiner

CONSTANTS g, p, q, a1, a2, b1, b2, c0, t1, t2, t3, t4, t5

MCBlocks == {g, p, q, a1, a2, b1, b2}
MCPrev == [b \in MCBlocks \ {g} |->
    CASE b = p -> g [] b = q -> p [] b \in {a1, b1} -> q [] b = a2 -> a1 [] b = b2 -> b1]
MCHeight == [b \in MCBlocks |->
    CASE b = g -> 0 [] b = p -> 1 [] b = q -> 2 [] b \in {a1, b1} -> 3 [] OTHER -> 4]
MCTrust == [b \in MCBlocks |->
    CASE b = g -> 1 [] b = p -> 2 [] b = q -> 3
      [] b = a1 -> 5 [] b = a2 -> 6 [] b = b1 -> 4 [] b = b2 -> 7]

MCTxs == {c0, t1, t2, t3, t4, t5}
MCVtx == [b \in MCBlocks |->
    CASE b = p -> <<c0>> [] b = a1 -> <<t3>> [] b = a2 -> <<t1, t5>>
      [] b = b1 -> <<t2>> [] b = b2 -> <<t3>> [] OTHER -> << >>]
MCVin == [t \in MCTxs |->
    CASE t = c0 -> {} [] t \in {t1, t2} -> {<<c0, 0>>} [] t = t3 -> {<<c0, 1>>}
      [] t = t4 -> {<<t1, 0>>, <<t3, 0>>} [] t = t5 -> {<<t3, 0>>}]
MCNOut == [t \in MCTxs |-> IF t = c0 THEN 2 ELSE 1]
MCTime == [t \in MCTxs |-> IF t \in {t4, t5} THEN 2 ELSE 1]
MCGenerated == {c0}
=============================================================================
