------------------------- MODULE MCClientRegistries -------------------------
(* Small instances of ClientRegistries for TLC. *)
EXTENDS ClientRegistries, TLC

CONSTANTS a, b, o1, o2, i1, i2

(* The second server has a variable less, and uses the id of b for a. *)
MCNodeOf == (o1 :> (a :> i1 @@ b :> i2)) @@ (o2 :> (a :> i2 @@ b :> Nothing))
=============================================================================
