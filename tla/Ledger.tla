------------------------------- MODULE Ledger -------------------------------
(***************************************************************************)
(* What the transaction database promises its readers: it shows one chain  *)
(* of blocks, whole and sound, with exactly the outputs that chain leaves  *)
(* unspent, and it moves in single steps, to chains of more trust only.    *)
(* Once it has been driven from a tip it does not have (lost), it promises *)
(* no more than the growth of trust.                                       *)
(***************************************************************************)
EXTENDS BlockTree

VARIABLES tip, unspent, lost

vars == <<tip, unspent, lost>>

Init == tip = Genesis /\ unspent = {} /\ lost = FALSE

Advance(b) ==
    /\ Trust[b] > Trust[tip]
    /\ tip' = b
    /\ \/ ~lost /\ Sound(b) /\ unspent' = UnspentOf(b)
       \/ lost
    /\ UNCHANGED lost

LoseTrack == ~lost /\ lost' = TRUE /\ UNCHANGED <<tip, unspent>>

Next == (\E b \in Blocks : Advance(b)) \/ LoseTrack

Spec == Init /\ [][Next]_vars
=============================================================================
