--------------------------- MODULE MCNodeLifecycle ---------------------------
(***************************************************************************)
(* ThreadOpenConnections, which also opens one-shots, and                  *)
(* ThreadOpenAddedConnections open connections to one address, which may   *)
(* also connect to us.                                                     *)
(***************************************************************************)
EXTENDS NodeLifecycle

CONSTANTS opencon, addcon, peer

MCWays == [o \in {opencon, addcon} |->
              IF o = opencon THEN {"address", "oneshot"} ELSE {"address"}]

(* Larger: addcon opens by name, and the RPC thread tries once, in turn.   *)
MCMoreWays == [o \in {opencon, addcon} |->
                  IF o = opencon THEN {"address", "oneshot"} ELSE {"name", "onetry"}]
=============================================================================
