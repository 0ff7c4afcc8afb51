------------------------------ MODULE MCStdout ------------------------------
(***************************************************************************)
(* Small instances of Stdout: the data plane thread, one or two reactors.  *)
(***************************************************************************)
EXTENDS Stdout
=============================================================================
