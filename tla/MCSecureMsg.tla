---------------------------- MODULE MCSecureMsg -----------------------------
(***************************************************************************)
(* Two nodes and the messages their users send, m1 at n1 and the others at *)
(* n2, or all of them at n1 (MCSender), in one bucket.  No two messages    *)
(* have the same key in the send queue.                                    *)
(***************************************************************************)
EXTENDS SecureMsg

CONSTANTS n1, n2, m1, m2, time

MCAuthor == [m \in Msgs |-> IF m = m1 THEN n1 ELSE n2]
MCSender == [m \in Msgs |-> n1]
MCKey == [m \in Msgs |-> m]
MCBucketOf == [m \in Msgs |-> time]
=============================================================================
