----------------------------- MODULE MCTxRelay ------------------------------
(* Five transactions: f is confirmed, a spends it, b and d both spend an   *)
(* output of a, and c one of a and one of b.                               *)
EXTENDS TxRelay
CONSTANTS f, a, b, c, d, p, q

MCVin == f :> {} @@ a :> {<<f, 0>>} @@ b :> {<<a, 0>>} @@ d :> {<<a, 0>>}
         @@ c :> {<<a, 1>>, <<b, 0>>}
MCAnnounces == p :> {a, c} @@ q :> {a}
=============================================================================
