---------------------------- MODULE MCBlockPath ----------------------------
(***************************************************************************)
(* A small instance of BlockPath: an old probe and a new one, two hosts.   *)
(* Nothing tells two probes or two hosts apart but their names.            *)
(***************************************************************************)
EXTENDS BlockPath, TLC

Alike == Permutations(Probes) \cup Permutations(IPs)
=============================================================================
