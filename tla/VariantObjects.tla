---------------------------- MODULE VariantObjects ----------------------------
(***************************************************************************)
(* The objects of class Variant (OpcUaVariant.cc, OpcUaVariant.hh), each   *)
(* with a shared_ptr to a native UA_Variant.  Copies get a native variant  *)
(* of their own; a move copies the pointer, so that its source goes on to  *)
(* share the native variant.                                               *)
(*                                                                         *)
(* A native variant is deleted with the last pointer to it: the cells that *)
(* nobody points to are free.                                              *)
(***************************************************************************)
CONSTANTS
    Objects,   \* the Variant objects
    Values,    \* scalars and arrays
    Empty,     \* the null value of a native variant
    Cells,     \* native variants
    Nothing    \* the pointer of an object that does not exist

ASSUME NothingAssumption == Nothing \notin Cells
ASSUME ValuesAssumption == Empty \notin Values /\ Nothing \notin Values \cup {Empty}

VARIABLES
    value,   \* the shared pointer of an object
    native,  \* what a native variant holds
    moving   \* whether the last call was given a Variant && (for properties)

vars == <<value, native, moving>>

Init ==
    /\ value = [o \in Objects |-> Nothing]
    /\ native = [c \in Cells |-> Empty]
    /\ moving = FALSE

Exists(o) == value[o] # Nothing
Free == {c \in Cells : \A o \in Objects : value[o] # c}

(* the default constructor, and then a value *)
Allocate(o, x) ==
    /\ ~Exists(o)
    /\ \E c \in Free :
           /\ value' = [value EXCEPT ![o] = c]
           /\ native' = [native EXCEPT ![c] = x]
    /\ moving' = FALSE

(* The default constructor, those from plain and native values, and the    *)
(* one that takes over a native variant.                                   *)
Construct(o) == \E x \in Values \cup {Empty} : Allocate(o, x)

CopyConstruct(o, p) == Exists(p) /\ Allocate(o, native[value[p]])

MoveConstruct(o, p) ==
    /\ ~Exists(o) /\ Exists(p)
    /\ value' = [value EXCEPT ![o] = value[p]]
    /\ UNCHANGED native
    /\ moving' = TRUE

Swap(o, p) ==
    /\ Exists(o) /\ Exists(p)
    /\ value' = [value EXCEPT ![o] = value[p], ![p] = value[o]]
    /\ UNCHANGED native
    /\ moving' = FALSE

(* mutant: copy assignment copies the pointer *)
AssignPointer(o, p) ==
    /\ Exists(o) /\ Exists(p)
    /\ value' = [value EXCEPT ![o] = value[p]]
    /\ UNCHANGED native
    /\ moving' = FALSE

(* The target is emptied first, also when the source shares its cell. *)
CopyAssign(o, p) ==
    /\ Exists(o) /\ Exists(p)
    /\ native' = [native EXCEPT ![value[o]] =
                     IF value[p] = value[o] THEN Empty ELSE native[value[p]]]
    /\ UNCHANGED value
    /\ moving' = FALSE

MoveAssign(o, p) ==
    /\ Exists(o) /\ Exists(p)
    /\ value' = [value EXCEPT ![o] = value[p]]
    /\ UNCHANGED native
    /\ moving' = TRUE

(* setValueFrom, setArrayValueFrom, and assignment from plain values *)
SetValueFrom(o) ==
    /\ Exists(o)
    /\ \E x \in Values : native' = [native EXCEPT ![value[o]] = x]
    /\ UNCHANGED value
    /\ moving' = FALSE

Destroy(o) ==
    /\ Exists(o)
    /\ value' = [value EXCEPT ![o] = Nothing]
    /\ UNCHANGED native
    /\ moving' = FALSE

Next ==
    \/ \E o \in Objects : Construct(o) \/ SetValueFrom(o) \/ Destroy(o)
    \/ \E o, p \in Objects :
           \/ CopyConstruct(o, p) \/ MoveConstruct(o, p) \/ Swap(o, p)
           \/ CopyAssign(o, p) \/ MoveAssign(o, p)

Spec == Init /\ [][Next]_vars
-----------------------------------------------------------------------------
(* Every variable keeps to its range. *)
TypeOK ==
    /\ value \in [Objects -> Cells \cup {Nothing}]
    /\ native \in [Cells -> Values \cup {Empty}]
    /\ moving \in BOOLEAN

ValueOf(o) == IF Exists(o) THEN native[value[o]] ELSE Nothing

(* the objects that point to what o points to *)
Sharing(o) == {p \in Objects : Exists(o) /\ value[p] = value[o]}

(* Variant objects are values up to moves, whatever their callers do:      *)
(* objects show one value only while one was moved into the other, over    *)
(* any chain of copies, moves, swaps and assignments, and then each of     *)
(* them sees what is set through the other (OpcUaVariant.cc:54-57, 73-77); *)
(* an assignment within them, of an object to itself too, loses the value  *)
(* (OpcUaVariant.cc:65-70).                                                *)
Plain == INSTANCE PlainValues WITH
             Gone <- Nothing,
             val <- [o \in Objects |-> ValueOf(o)],
             kin <- [o \in Objects |-> Sharing(o)]
ObjectsAreValues == Plain!Spec
=============================================================================
