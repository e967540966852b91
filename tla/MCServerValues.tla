---------------------------- MODULE MCServerValues ----------------------------
(* A small instance of ServerValues for TLC. *)
EXTENDS ServerValues
=============================================================================
