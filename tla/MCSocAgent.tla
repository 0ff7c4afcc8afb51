----------------------------- MODULE MCSocAgent -----------------------------
(***************************************************************************)
(* Small instances of SocAgent: two hosts, a pipe of one line, a window of *)
(* one second.                                                             *)
(***************************************************************************)
EXTENDS SocAgent
=============================================================================
