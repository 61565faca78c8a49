---------------------------- MODULE MCAnonLedger -----------------------------
(* Two coins are made in the first block and may be spent from the third   *)
(* height on.  Three branches: one spends the first coin with s1, one with *)
(* s2 (another ring), one with s1 again, a block later; s4 spends the coin *)
(* that s1 makes.                                                          *)
(*                                                                         *)
(*   g - a1 - a2 - b3 - b4 - b5       a1: d1 d2  b3: s1  b5: s4            *)
(*               \ c3 - c4                       c3: s2  c4: s3            *)
(*               \ e3 - e4 - e5 - e6             e4: s1  e6: s4            *)
EXTENDS AnonLedger, TLC
CONSTANTS g, a1, a2, b3, b4, b5, c3, c4, e3, e4, e5, e6,
          base, d1, d2, s1, s2, s3, s4, o1, o2, o3, o4

MCPrev == a1 :> g @@ a2 :> a1 @@ b3 :> a2 @@ b4 :> b3 @@ b5 :> b4 @@ c3 :> a2 @@ c4 :> c3
          @@ e3 :> a2 @@ e4 :> e3 @@ e5 :> e4 @@ e6 :> e5
MCHeight == g :> 0 @@ a1 :> 1 @@ a2 :> 2 @@ b3 :> 3 @@ c3 :> 3 @@ e3 :> 3
            @@ b4 :> 4 @@ c4 :> 4 @@ e4 :> 4 @@ b5 :> 5 @@ e5 :> 5 @@ e6 :> 6
MCTrust == g :> 0 @@ a1 :> 1 @@ a2 :> 2 @@ b3 :> 4 @@ c3 :> 3 @@ c4 :> 5 @@ b4 :> 6
           @@ e3 :> 3 @@ e4 :> 7 @@ b5 :> 9 @@ e5 :> 8 @@ e6 :> 10
MCVtx == [b \in Blocks |-> CASE b = a1 -> <<d1, d2>> [] b \in {b3, e4} -> <<s1>>
            [] b = c3 -> <<s2>> [] b = c4 -> <<s3>> [] b \in {b5, e6} -> <<s4>> [] OTHER -> << >>]

(* Each has an ordinary input of its own, so that none conflicts by those. *)
MCVin == base :> {} @@ d1 :> {<<base, 0>>} @@ d2 :> {<<base, 1>>} @@ s1 :> {<<base, 2>>}
         @@ s2 :> {<<base, 3>>} @@ s3 :> {<<base, 4>>} @@ s4 :> {<<base, 5>>}
MCNOut == [t \in Txs |-> IF t = base THEN 6 ELSE 1]
MCSpends == [t \in Txs |-> CASE t \in {s1, s2} -> o1 [] t = s3 -> o2 [] t = s4 -> o3 [] OTHER -> None]
MCRing == [t \in Txs |-> CASE t = s1 -> {o1} [] t \in {s2, s3} -> {o1, o2} [] t = s4 -> {o3} [] OTHER -> {}]
MCCreates == [t \in Txs |-> CASE t = d1 -> o1 [] t = d2 -> o2 [] t = s1 -> o3 [] t = s2 -> o4 [] OTHER -> None]
=============================================================================
