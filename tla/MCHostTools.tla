---------------------------- MODULE MCHostTools ----------------------------
(***************************************************************************)
(* A small instance of HostTools. The socket numbers are none that a       *)
(* reference count takes.                                                  *)
(***************************************************************************)
EXTENDS HostTools
=============================================================================
