----------------------------- MODULE MCAddrMan ------------------------------
(***************************************************************************)
(* Five services at four addresses, two sources, two buckets for one new   *)
(* entry and two for one tried entry: every bucket overflows, and an entry *)
(* evicted from the tried ones may find its own bucket full.  GetAddr_     *)
(* hands out one of two entries, two of three, and two of four at most.    *)
(***************************************************************************)
EXTENDS AddrMan

CONSTANTS s1, s2, s3, s4, s5, peer1, peer2

MCServices == {s1, s2, s3, s4, s5}
MCAddress == [s \in MCServices |-> IF s = s5 THEN s1 ELSE s]
MCSources == {peer1, peer2}

(* Both sources share the bucket of all addresses but s1's.                *)
MCNewBucket == [p \in MCServices \X MCSources |->
                   IF MCAddress[p[1]] = s1 /\ p[2] = peer2 THEN 2 ELSE 1]
MCTriedBucket == [s \in MCServices |-> IF s = s3 THEN 2 ELSE 1]
=============================================================================
