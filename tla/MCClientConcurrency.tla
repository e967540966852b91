------------------------ MODULE MCClientConcurrency ------------------------
(* Small instances of ClientConcurrency for TLC. *)
EXTENDS ClientConcurrency, TLC

(* Waiters are interchangeable, and so are connectors and variables        *)
(* (safety runs only).                                                     *)
Interchangeable ==
    Permutations(Waiters) \cup Permutations(Connectors) \cup Permutations(Vars)
=============================================================================
