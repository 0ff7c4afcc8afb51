------------------------------ MODULE MCClientRpc ------------------------------
(***************************************************************************)
(* A small instance of ClientRpc: two cores with a session each.           *)
(***************************************************************************)
EXTENDS ClientRpc

MCShards == {1, 2}
MCOwner == [id \in Sessions |-> IF id = "a" THEN 1 ELSE 2]
=============================================================================
