--------------------------- MODULE MCVariantObjects ---------------------------
(* A small instance of VariantObjects and VariantReadings for TLC. *)
EXTENDS VariantReadings, TLC

Scalar(t, x) == [type |-> t, scalar |-> TRUE, items |-> <<x>>]
Array(t, items) == [type |-> t, scalar |-> FALSE, items |-> items]

MinusTwo(w) == <<254>> \o [i \in 1..(w - 1) |-> 255]

(* -2 or its complement in integer types, arrays whose elements differ,    *)
(* and two floating values that print alike.                               *)
Samples ==
    {Scalar(t, MinusTwo(Width[t])) : t \in {2, INT32, UINT32, INT64, FLOAT}}
        \cup {Scalar(BOOLEANT, <<1>>), Scalar(STRINGT, "Hello"),
              Array(3, <<<<1, 0>>, <<254, 255>>, <<2, 0>>>>),
              Array(UINT32, <<<<1, 2, 3, 128>>, <<4, 5, 6, 7>>>>),
              Array(DOUBLE, <<MinusTwo(8), [MinusTwo(8) EXCEPT ![1] = 255]>>),
              Array(STRINGT, <<"Hello", "World">>)}

(* six decimals do not tell the lowest bits apart *)
MCDecimals(bytes) == SubSeq(bytes, 2, Len(bytes))

(* Objects and cells are interchangeable. *)
Interchangeable == Permutations(Objects) \cup Permutations(Cells)
===============================================================================
