------------------------------ MODULE PlainValues ------------------------------
(***************************************************************************)
(* What the objects of class Variant are to their callers (README.md:3, 6; *)
(* OpcUaVariant.hh:43-48, 57-92): values, up to moves.  A copy has a value *)
(* of its own.  A move takes nothing from its source: source and target    *)
(* are kin from then on, and what is set through one shows in all of the   *)
(* kin and in no other object.                                             *)
(***************************************************************************)
CONSTANTS
    Objects,     \* the Variant objects
    Values,      \* scalars and arrays
    Empty,       \* the null value
    Gone         \* of an object that does not exist

VARIABLES
    val,     \* the value that an object shows
    kin,     \* the objects that have one value with an object, itself included
    moving   \* whether the last call was given an object to move from

plainVars == <<val, kin, moving>>

Exists(o) == val[o] # Gone

Init ==
    /\ val = [o \in Objects |-> Gone]
    /\ kin = [o \in Objects |-> {}]
    /\ moving = FALSE

(* an object of its own, as a copy is too *)
Create(o, x) ==
    /\ ~Exists(o)
    /\ val' = [val EXCEPT ![o] = x]
    /\ kin' = [kin EXCEPT ![o] = {o}]
    /\ moving' = FALSE

CreateCopy(o, p) == Exists(p) /\ Create(o, val[p])

(* o leaves its kin for that of p. *)
Join(o, p) ==
    /\ moving' = TRUE
    /\ val' = [val EXCEPT ![o] = val[p]]
    /\ kin' = [q \in Objects |->
                  IF q \in kin[p] \cup {o} THEN kin[p] \cup {o} ELSE kin[q] \ {o}]

CreateMoved(o, p) == ~Exists(o) /\ Exists(p) /\ Join(o, p)
AssignMoved(o, p) == Exists(o) /\ Exists(p) /\ Join(o, p)

Set(o, x) ==
    /\ Exists(o)
    /\ val' = [q \in Objects |-> IF q \in kin[o] THEN x ELSE val[q]]
    /\ moving' = FALSE
    /\ UNCHANGED kin

(* An object that is assigned its own value or that of its kin is emptied. *)
AssignCopy(o, p) ==
    /\ Exists(p)
    /\ Set(o, IF p \in kin[o] THEN Empty ELSE val[p])

Swap(o, p) ==
    LET Other(q) == IF q = o THEN p ELSE IF q = p THEN o ELSE q
    IN  /\ Exists(o) /\ Exists(p)
        /\ val' = [q \in Objects |-> val[Other(q)]]
        /\ kin' = [q \in Objects |-> {Other(r) : r \in kin[Other(q)]}]
        /\ moving' = FALSE

Destroy(o) ==
    /\ Exists(o)
    /\ val' = [val EXCEPT ![o] = Gone]
    /\ kin' = [q \in Objects |-> IF q = o THEN {} ELSE kin[q] \ {o}]
    /\ moving' = FALSE

Next ==
    \/ \E o \in Objects :
           \/ \E x \in Values \cup {Empty} : Create(o, x)
           \/ \E x \in Values : Set(o, x)
           \/ Destroy(o)
    \/ \E o, p \in Objects :
           \/ CreateCopy(o, p) \/ CreateMoved(o, p)
           \/ AssignCopy(o, p) \/ AssignMoved(o, p) \/ Swap(o, p)

Spec == Init /\ [][Next]_plainVars
=============================================================================
