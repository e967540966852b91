---------------------------- MODULE VariantReadings ----------------------------
(***************************************************************************)
(* What the values of Variant objects read as: getValueAs,                 *)
(* getArrayValuesAs and toString (OpcUaVariant.hh:161-224,                 *)
(* OpcUaVariant.cc:92-208) reinterpret the memory of the native value at   *)
(* the type asked for; they do not look at the type that was stored.       *)
(*                                                                         *)
(* A value is a record of its type, whether it is a scalar, and its items. *)
(* A numeric item is its bytes, the lowest first, a text one symbol.       *)
(***************************************************************************)
EXTENDS VariantObjects, Integers, Sequences

CONSTANTS
    Beyond,       \* a byte that is read past the end of a value, and the
                  \* text of a number with such bytes: nothing is known of it
    Decimals(_)   \* the text that std::to_string makes of a floating value,
                  \* with six decimals: values may have it in common

(* The indices of the types, UA_TYPES_... of open62541.                    *)
BOOLEANT == 0
INT32 == 5
UINT32 == 6
INT64 == 7
UINT64 == 8
FLOAT == 9
DOUBLE == 10
STRINGT == 11
Width == [t \in 0..DOUBLE |-> <<1, 1, 1, 2, 2, 4, 4, 8, 8, 4, 8>>[t + 1]]
Signed == {1, 3, INT32, INT64}
Integral == 1..UINT64
Narrow == {t \in 1..INT32 : Width[t] < Width[INT32]}
Floating == {FLOAT, DOUBLE}

ASSUME ItemsAssumption ==
    \A n \in Values :
        /\ n.type \in 0..STRINGT
        /\ n.type = STRINGT => n.items \in Seq(STRING)
        /\ n.type # STRINGT => n.items \in Seq([1..Width[n.type] -> 0..255])
        /\ n.scalar \in BOOLEAN
        /\ n.scalar => Len(n.items) = 1
Numeric(n) == n # Empty /\ n.type <= DOUBLE

(* size bytes of a value, from an offset: what a cast pointer points to.   *)
(* The items lie one after the other.                                      *)
BytesAt(n, offset, size) ==
    LET w == Width[n.type]
    IN  [i \in 1..size |->
            IF offset + i <= w * Len(n.items)
            THEN n.items[((offset + i - 1) \div w) + 1][((offset + i - 1) % w) + 1]
            ELSE Beyond]

(* getValueAs, for a number *)
GetValueAs(n, t) ==
    IF n = Empty \/ ~n.scalar
    THEN [i \in 1..Width[t] |-> 0]
    ELSE BytesAt(n, 0, Width[t])

(* mutant: the elements lie apart by the width they were stored with *)
ElementsApart(n, t) ==
    IF n = Empty THEN <<>>
    ELSE [i \in 1..Len(n.items) |-> BytesAt(n, (i - 1) * Width[INT32], Width[t])]

(* getArrayValuesAs, for numbers *)
GetArrayValuesAs(n, t) ==
    IF n = Empty THEN <<>>
    ELSE IF n.scalar THEN <<GetValueAs(n, t)>>
    ELSE [i \in 1..Len(n.items) |-> BytesAt(n, (i - 1) * Width[t], Width[t])]

(* The number that the bytes of an integer stand for: its 64 bits, with    *)
(* its sign.                                                               *)
NumberOf(t, bytes) ==
    [i \in 1..8 |->
        IF i <= Width[t] THEN bytes[i]
        ELSE IF t \in Signed /\ bytes[Width[t]] >= 128 THEN 255 ELSE 0]

(* the text of a number: to_string, or true and false *)
TextOf(t, bytes) ==
    IF t \in Integral THEN NumberOf(t, bytes)
    ELSE IF t \in Floating THEN Decimals(bytes) ELSE bytes

ASSUME BeyondAssumption ==
    /\ Beyond \notin 0..255
    /\ \A n \in Values : n.type # STRINGT =>
           \A i \in DOMAIN n.items : TextOf(n.type, n.items[i]) # Beyond

(* mutant: everything up to UINT32 is read as an int *)
PrintedAsInt(t) ==
    IF t \in 1..UINT32 THEN INT32 ELSE IF t = FLOAT THEN DOUBLE ELSE t

(* the type that toString reads a value of type t as *)
PrintedAs(t) ==
    CASE t \in 1..INT32 -> INT32
      [] t \in {FLOAT, DOUBLE} -> DOUBLE
      [] OTHER -> t

(* toString: the numbers or texts that it prints, in order.  A scalar is   *)
(* read as an array of one, and prints alike.                              *)
Printed(n) ==
    IF n = Empty THEN <<>>
    ELSE IF Numeric(n)
    THEN LET t == PrintedAs(n.type)
             read == GetArrayValuesAs(n, t)
         IN  [i \in DOMAIN read |->
                 IF Beyond \in {read[i][j] : j \in DOMAIN read[i]}
                 THEN Beyond ELSE TextOf(t, read[i])]
    ELSE IF n.scalar \/ n.type = STRINGT THEN n.items ELSE <<>>

(* getValueAs<std::string> *)
GetText(n) == IF n = Empty \/ ~n.scalar THEN <<>> ELSE Printed(n)

(* getArrayValuesAs<std::string>: arrays of numbers have no texts *)
GetTexts(n) ==
    IF n = Empty THEN <<>>
    ELSE IF n.scalar THEN <<Printed(n)>>
    ELSE IF n.type = STRINGT THEN [i \in DOMAIN n.items |-> <<n.items[i]>>]
    ELSE <<>>
-----------------------------------------------------------------------------
(* C++'s conversion between integers: modulo 2 to the bits of the target.  *)
Converted(n, i, t) == SubSeq(NumberOf(n.type, n.items[i]), 1, Width[t])

Held == {ValueOf(o) : o \in {p \in Objects : Exists(p)}}

(* "The internal value converted into the provided value-type"             *)
(* (OpcUaVariant.hh:110, 114) is what an integer reads as at the integer   *)
(* types up to its own width, and never at a wider one: there memory past  *)
(* the end is read (OpcUaVariant.hh:183).  An array is converted at its    *)
(* own width and never at a wider one (OpcUaVariant.hh:221).  Every value  *)
(* reads as what was stored at the type it was stored with.  What is read  *)
(* across integers, booleans and floating values, or of arrays at smaller  *)
(* widths, is not said.                                                    *)
ReadsAreConversions ==
    \A n \in Held : Numeric(n) =>
        /\ GetArrayValuesAs(n, n.type) = n.items
        /\ \A t \in Integral : n.type \in Integral =>
               /\ n.scalar =>
                      (GetValueAs(n, t) = Converted(n, 1, t)
                           <=> Width[t] <= Width[n.type])
               /\ n.items # <<>> /\ Width[t] >= Width[n.type] =>
                      (GetArrayValuesAs(n, t) =
                           [i \in DOMAIN n.items |-> Converted(n, i, t)]
                           <=> Width[t] = Width[n.type])

(* Of the numbers toString prints those with a type of their own width in  *)
(* its groups, with their sign: all but integers of 8 and 16 bits and      *)
(* floats, of which it reads past the end (OpcUaVariant.cc:109-125,        *)
(* 158-198).  Asked for as a string, a scalar is what toString prints, and *)
(* an array is nothing; asked for as strings an array of numbers is        *)
(* nothing too, though the code means to "always convert to a string if    *)
(* string is required" (OpcUaVariant.hh:168, 196).                         *)
PrintsWhatItHolds ==
    \A n \in Held : n # Empty /\ n.items # <<>> =>
        /\ Numeric(n) =>
               (Printed(n) = [i \in DOMAIN n.items |-> TextOf(n.type, n.items[i])]
                    <=> n.type \notin Narrow \cup {FLOAT})
        /\ GetText(n) = Printed(n) <=> n.scalar
        /\ GetTexts(n) = [i \in DOMAIN n.items |-> <<Printed(n)[i]>>]
               <=> n.scalar \/ n.type = STRINGT
=============================================================================
