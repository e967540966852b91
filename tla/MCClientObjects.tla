--------------------------- MODULE MCClientObjects ---------------------------
(* Small instances of ClientObjects for TLC. *)
EXTENDS ClientObjects
=============================================================================
