------------------------------ MODULE MCMcpShard ------------------------------
(***************************************************************************)
(* Small instances of McpShard: two cores, a queue of one message, one     *)
(* resource, a batch of two requests (a single one for the violations).    *)
(***************************************************************************)
EXTENDS McpShard

MCBodies == {<<[method |-> "unsubscribe", uri |-> "u"], [method |-> "subscribe", uri |-> "u"]>>}
MCSubscribe == {<<[method |-> "subscribe", uri |-> "u"]>>}
=============================================================================
