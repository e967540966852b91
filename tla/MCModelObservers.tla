--------------------------- MODULE MCModelObservers ---------------------------
(* A small instance of ModelObservers for TLC. *)
EXTENDS ModelObservers
===============================================================================
