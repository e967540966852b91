------------------------ MODULE VariantObjects_proofs ------------------------
(***************************************************************************)
(* Theorems about VariantObjects, for any objects, values and native       *)
(* variants, and any use of them.  That the pointers point to native       *)
(* variants is the invariant; the refinement mapping takes the objects     *)
(* that share a native variant for kin.                                    *)
(***************************************************************************)
EXTENDS VariantReadings, TLAPS

(* Every variable keeps to its range. *)
LEMMA TypesKept == Spec => []TypeOK
<1> USE DEF TypeOK, Exists
<1>1. Init => TypeOK
    BY DEF Init
<1>2. TypeOK /\ [Next]_vars => TypeOK'
  <2> SUFFICES ASSUME TypeOK, [Next]_vars PROVE TypeOK'
      OBVIOUS
  <2> USE DEF Free
  <2>1. ASSUME NEW o \in Objects, NEW x \in Values \cup {Empty}, Allocate(o, x)
        PROVE  TypeOK'
      BY <2>1, NothingAssumption DEF Allocate
  <2>2. ASSUME NEW o \in Objects, Construct(o) PROVE TypeOK'
      BY <2>1, <2>2 DEF Construct
  <2>3. ASSUME NEW o \in Objects, SetValueFrom(o) PROVE TypeOK'
      BY <2>3 DEF SetValueFrom
  <2>4. ASSUME NEW o \in Objects, Destroy(o) PROVE TypeOK'
      BY <2>4 DEF Destroy
  <2>5. ASSUME NEW o \in Objects, NEW p \in Objects, CopyConstruct(o, p)
        PROVE  TypeOK'
    <3>1. native[value[p]] \in Values \cup {Empty}
        BY <2>5 DEF CopyConstruct
    <3> QED
        BY <2>1, <2>5, <3>1 DEF CopyConstruct
  <2>6. ASSUME NEW o \in Objects, NEW p \in Objects, MoveConstruct(o, p)
        PROVE  TypeOK'
      BY <2>6 DEF MoveConstruct
  <2>7. ASSUME NEW o \in Objects, NEW p \in Objects, Swap(o, p)
        PROVE  TypeOK'
      BY <2>7 DEF Swap
  <2>8. ASSUME NEW o \in Objects, NEW p \in Objects, CopyAssign(o, p)
        PROVE  TypeOK'
      BY <2>8 DEF CopyAssign
  <2>9. ASSUME NEW o \in Objects, NEW p \in Objects, MoveAssign(o, p)
        PROVE  TypeOK'
      BY <2>9 DEF MoveAssign
  <2>10. CASE UNCHANGED vars
      BY <2>10 DEF vars
  <2> QED
      BY <2>2, <2>3, <2>4, <2>5, <2>6, <2>7, <2>8, <2>9, <2>10 DEF Next
<1> QED
    BY <1>1, <1>2, PTL DEF Spec

(***************************************************************************)
(* Each operation is that of a plain value                                 *)
(***************************************************************************)

(* What an object shows, and with whom.                                    *)
LEMMA ValueType ==
    ASSUME TypeOK, NEW o \in Objects
    PROVE  /\ Exists(o) => /\ value[o] \in Cells
                           /\ ValueOf(o) = native[value[o]]
                           /\ ValueOf(o) \in Values \cup {Empty}
           /\ ~Exists(o) => ValueOf(o) = Nothing
           /\ (ValueOf(o) # Nothing) <=> Exists(o)
           /\ Sharing(o) = {p \in Objects : Exists(o) /\ value[p] = value[o]}
BY ValuesAssumption DEF TypeOK, ValueOf, Exists, Sharing

(* A new native variant shows in its object only.                          *)
LEMMA AllocateCreates ==
    ASSUME TypeOK, NEW o \in Objects, NEW x \in Values \cup {Empty},
           Allocate(o, x)
    PROVE  Plain!Create(o, x)
<1>1. PICK c \in Free : /\ value' = [value EXCEPT ![o] = c]
                        /\ native' = [native EXCEPT ![c] = x]
    BY DEF Allocate
<1>2. c \in Cells /\ c # Nothing /\ \A q \in Objects : value[q] # c
    BY NothingAssumption DEF Free
<1>3. \A q \in Objects : ValueOf(q)' = IF q = o THEN x ELSE ValueOf(q)
    BY <1>1, <1>2 DEF Allocate, TypeOK, ValueOf, Exists
<1>4. \A q \in Objects : Sharing(q)' = IF q = o THEN {o} ELSE Sharing(q)
    BY <1>1, <1>2 DEF Allocate, TypeOK, Sharing, Exists
<1>5. ValueOf(o) = Nothing /\ ~moving'
    BY ValueType DEF Allocate
<1> QED
    BY <1>3, <1>4, <1>5 DEF Allocate, Plain!Create, Plain!Exists

(* A value that is set through a pointer shows in all that share it.       *)
LEMMA WriteSets ==
    ASSUME TypeOK, NEW o \in Objects, Exists(o), NEW x,
           native' = [native EXCEPT ![value[o]] = x],
           UNCHANGED value, moving' = FALSE
    PROVE  Plain!Set(o, x)
<1>1. \A q \in Objects :
          ValueOf(q)' = IF q \in Sharing(o) THEN x ELSE ValueOf(q)
    BY DEF TypeOK, ValueOf, Exists, Sharing
<1>2. \A q \in Objects : Sharing(q)' = Sharing(q)
    BY DEF Sharing, Exists
<1>3. ValueOf(o) # Nothing
    BY ValueType
<1> QED
    BY <1>1, <1>2, <1>3 DEF Plain!Set, Plain!Exists

(* A pointer that is copied joins its object with the other.               *)
LEMMA PointerJoins ==
    ASSUME TypeOK, NEW o \in Objects, NEW p \in Objects, Exists(p),
           value' = [value EXCEPT ![o] = value[p]],
           UNCHANGED native, moving' = TRUE
    PROVE  Plain!Join(o, p)
<1>1. \A q \in Objects : ValueOf(q)' = IF q = o THEN ValueOf(p) ELSE ValueOf(q)
    BY DEF TypeOK, ValueOf, Exists
<1> DEFINE K == Sharing(p) \cup {o}
<1>2. ASSUME NEW q \in Objects
      PROVE  Sharing(q)' = IF q \in K THEN K ELSE Sharing(q) \ {o}
  <2>1. \A r \in Objects : value'[r] = IF r = o THEN value[p] ELSE value[r]
      BY DEF TypeOK
  <2>2. Sharing(q)' = {r \in Objects : value'[q] # Nothing /\ value'[r] = value'[q]}
      BY DEF Sharing, Exists
  <2>3. K = {r \in Objects : value'[r] = value[p]}
      BY <2>1 DEF Sharing, Exists
  <2>4. CASE q \in K
      BY <2>1, <2>2, <2>3, <2>4 DEF Exists
  <2>5. CASE q \notin K
    <3>1. value'[q] = value[q] /\ value[q] # value[p] /\ q # o
        BY <2>1, <2>3, <2>5
    <3>2. Sharing(q) \ {o} = {r \in Objects \ {o} : value[q] # Nothing /\ value[r] = value[q]}
        BY DEF Sharing, Exists
    <3>3. \A r \in Objects :
              value'[r] = value'[q] <=> r # o /\ value[r] = value[q]
        BY <2>1, <3>1
    <3> QED
        BY <2>2, <2>5, <3>1, <3>2, <3>3
  <2> QED
      BY <2>4, <2>5
<1> QED
    BY <1>1, <1>2 DEF Plain!Join

(* Each operation does to the values of all objects what it should:        *)
(* Variant implements values that are copied by assignments, and shared    *)
(* by moves (OpcUaVariant.hh:43-48, OpcUaVariant.cc:47-77), whatever is    *)
(* assigned to what.                                                       *)
THEOREM VariantsAreValues == Spec => ObjectsAreValues
<1>1. Init => Plain!Init
    BY DEF Init, Plain!Init, ValueOf, Sharing, Exists
<1>2. TypeOK /\ [Next]_vars => [Plain!Next]_(Plain!plainVars)
  <2> SUFFICES ASSUME TypeOK, [Next]_vars
               PROVE  Plain!Next \/ UNCHANGED Plain!plainVars
      OBVIOUS
  <2>1. ASSUME NEW o \in Objects, Construct(o)
        PROVE  Plain!Next
      BY <2>1, AllocateCreates DEF Construct, Plain!Next
  <2>2. ASSUME NEW o \in Objects, SetValueFrom(o)
        PROVE  Plain!Next
      BY <2>2, WriteSets DEF SetValueFrom, Plain!Next
  <2>3. ASSUME NEW o \in Objects, Destroy(o)
        PROVE  Plain!Next
    <3>1. /\ Exists(o) /\ moving' = FALSE /\ native' = native
          /\ \A q \in Objects : value'[q] = IF q = o THEN Nothing ELSE value[q]
        BY <2>3 DEF Destroy, TypeOK
    <3>2. \A q \in Objects :
              ValueOf(q)' = IF q = o THEN Nothing ELSE ValueOf(q)
        BY <3>1 DEF ValueOf, Exists
    <3>3. \A q \in Objects :
              Sharing(q)' = IF q = o THEN {} ELSE Sharing(q) \ {o}
        BY <3>1 DEF Sharing, Exists
    <3>4. ValueOf(o) # Nothing
        BY <3>1, ValueType
    <3>5. Plain!Destroy(o)
        BY <3>1, <3>2, <3>3, <3>4 DEF Plain!Destroy, Plain!Exists
    <3> QED
        BY <3>5 DEF Plain!Next
  <2>4. ASSUME NEW o \in Objects, NEW p \in Objects, CopyConstruct(o, p)
        PROVE  Plain!Next
    <3>1. /\ Exists(p) /\ Allocate(o, ValueOf(p)) /\ ValueOf(p) # Nothing
          /\ ValueOf(p) \in Values \cup {Empty}
        BY <2>4, ValueType DEF CopyConstruct
    <3>2. Plain!CreateCopy(o, p)
        BY <3>1, AllocateCreates DEF Plain!CreateCopy, Plain!Exists
    <3> QED
        BY <3>2 DEF Plain!Next
  <2>5. ASSUME NEW o \in Objects, NEW p \in Objects, MoveConstruct(o, p)
        PROVE  Plain!Next
    <3>1. Plain!CreateMoved(o, p)
        BY <2>5, PointerJoins, ValueType
        DEF MoveConstruct, Plain!CreateMoved, Plain!Exists
    <3> QED
        BY <3>1 DEF Plain!Next
  <2>6. ASSUME NEW o \in Objects, NEW p \in Objects, Swap(o, p)
        PROVE  Plain!Next
    <3> DEFINE Other(q) == IF q = o THEN p ELSE IF q = p THEN o ELSE q
    <3>1. /\ Exists(o) /\ Exists(p) /\ moving' = FALSE /\ native' = native
          /\ \A q \in Objects : value'[q] = value[Other(q)]
        BY <2>6 DEF Swap, TypeOK
    <3>2. \A q \in Objects : Other(q) \in Objects /\ Other(Other(q)) = q
        OBVIOUS
    <3> HIDE DEF Other
    <3>3. \A q \in Objects : ValueOf(q)' = ValueOf(Other(q))
        BY <3>1, <3>2 DEF ValueOf, Exists
    <3>4. \A q \in Objects : Sharing(q)' = {Other(r) : r \in Sharing(Other(q))}
        BY <3>1, <3>2 DEF Sharing, Exists
    <3>5. ValueOf(o) # Nothing /\ ValueOf(p) # Nothing
        BY <3>1, ValueType
    <3>6. Plain!Swap(o, p)
        BY <3>1, <3>2, <3>3, <3>4, <3>5 DEF Plain!Swap, Plain!Exists, Other
    <3> QED
        BY <3>6 DEF Plain!Next
  <2>7. ASSUME NEW o \in Objects, NEW p \in Objects, CopyAssign(o, p)
        PROVE  Plain!Next
    <3>1. p \in Sharing(o) <=> value[p] = value[o]
        BY <2>7 DEF CopyAssign, Sharing
    <3>2. Plain!Set(o, IF p \in Sharing(o) THEN Empty ELSE ValueOf(p))
        BY <2>7, <3>1, WriteSets, ValueType DEF CopyAssign
    <3>3. Plain!AssignCopy(o, p)
        BY <2>7, <3>2, ValueType DEF CopyAssign, Plain!AssignCopy, Plain!Exists
    <3> QED
        BY <3>3 DEF Plain!Next
  <2>8. ASSUME NEW o \in Objects, NEW p \in Objects, MoveAssign(o, p)
        PROVE  Plain!Next
    <3>1. Plain!AssignMoved(o, p)
        BY <2>8, PointerJoins, ValueType
        DEF MoveAssign, Plain!AssignMoved, Plain!Exists
    <3> QED
        BY <3>1 DEF Plain!Next
  <2>9. CASE UNCHANGED vars
      BY <2>9 DEF vars, Plain!plainVars, ValueOf, Sharing, Exists
  <2> QED
      BY <2>1, <2>2, <2>3, <2>4, <2>5, <2>6, <2>7, <2>8, <2>9 DEF Next
<1> QED
    BY <1>1, <1>2, TypesKept, PTL
    DEF Spec, ObjectsAreValues, Plain!Spec

(***************************************************************************)
(* What values read as                                                     *)
(***************************************************************************)

(* The types are as wide as open62541's.                                   *)
LEMMA Widths ==
    /\ \A t \in 0..DOUBLE : Width[t] \in {1, 2, 4, 8}
    /\ \A t \in 0..DOUBLE : PrintedAs(t) \in 0..DOUBLE
    /\ \A t \in 0..DOUBLE :
           IF t \in Narrow \cup {FLOAT} THEN Width[t] < Width[PrintedAs(t)]
                                       ELSE PrintedAs(t) = t
    /\ \A t \in Integral : t \in 0..DOUBLE
<1> USE DEF BOOLEANT, INT32, UINT32, INT64, UINT64, FLOAT, DOUBLE
<1> DEFINE W == <<1, 1, 1, 2, 2, 4, 4, 8, 8, 4, 8>>
<1>1. /\ W[1] = 1 /\ W[2] = 1 /\ W[3] = 1 /\ W[4] = 2 /\ W[5] = 2 /\ W[6] = 4
      /\ W[7] = 4 /\ W[8] = 8 /\ W[9] = 8 /\ W[10] = 4 /\ W[11] = 8
    OBVIOUS
<1>2. \A t \in 0..10 : Width[t] = W[t + 1]
    BY DEF Width
<1> HIDE DEF W
<1>3. /\ Width[0] = 1 /\ Width[1] = 1 /\ Width[2] = 1 /\ Width[3] = 2
      /\ Width[4] = 2 /\ Width[5] = 4 /\ Width[6] = 4 /\ Width[7] = 8
      /\ Width[8] = 8 /\ Width[9] = 4 /\ Width[10] = 8
    BY <1>1, <1>2
<1>4. \A t \in 0..10 : t \in {0, 1, 2, 3, 4, 5, 6, 7, 8, 9, 10}
    OBVIOUS
<1>5. \A t \in 0..10 : Width[t] \in {1, 2, 4, 8}
    BY <1>3, <1>4
<1>6. \A t \in 0..10 : PrintedAs(t) = IF t \in 1..5 THEN 5 ELSE IF t \in {9, 10} THEN 10 ELSE t
    BY DEF PrintedAs
<1>7. \A t \in 0..10 : t \in Narrow <=> t \in {1, 2, 3, 4}
    BY <1>3, <1>4 DEF Narrow
<1>8. \A t \in 0..10 : PrintedAs(t) \in 0..10
    BY <1>4, <1>6
<1>9. ASSUME NEW t \in 0..10
      PROVE  IF t \in Narrow \cup {9} THEN Width[t] < Width[PrintedAs(t)]
                                     ELSE PrintedAs(t) = t
    BY <1>3, <1>4, <1>6, <1>7
<1> QED
    BY <1>5, <1>8, <1>9 DEF Integral

(* What a numeric value consists of.                                       *)
LEMMA NumericItems ==
    ASSUME NEW n \in Values, Numeric(n)
    PROVE  /\ n # Empty /\ n.type \in 0..DOUBLE
           /\ Width[n.type] \in {1, 2, 4, 8}
           /\ Len(n.items) \in Nat /\ DOMAIN n.items = 1..Len(n.items)
           /\ n.items = [i \in 1..Len(n.items) |-> n.items[i]]
           /\ \A i \in 1..Len(n.items) :
                  n.items[i] \in [1..Width[n.type] -> 0..255]
           /\ n.scalar => Len(n.items) = 1
<1> DEFINE Item == [1..Width[n.type] -> 0..255]
           type == n.type
<1>1. type \in 0..11 /\ n # Empty /\ type <= 10
    BY ItemsAssumption DEF Numeric, STRINGT, DOUBLE
<1> HIDE DEF type
<1>2. type \in 0..10 /\ type # 11
    BY <1>1
<1>3. n.type \in 0..DOUBLE /\ n.type # STRINGT
    BY <1>2 DEF type, STRINGT, DOUBLE
<1>4. n.items \in Seq(Item)
    BY <1>3, ItemsAssumption
<1> HIDE DEF Item
<1>5. /\ Len(n.items) \in Nat /\ DOMAIN n.items = 1..Len(n.items)
      /\ n.items = [i \in 1..Len(n.items) |-> n.items[i]]
      /\ \A i \in 1..Len(n.items) : n.items[i] \in Item
    BY <1>4
<1> QED
    BY <1>1, <1>3, <1>5, Widths, ItemsAssumption DEF Item

(* The bytes of item i begin where those of the items before it end.       *)
LEMMA ItemBytes ==
    ASSUME NEW n \in Values, Numeric(n), NEW i \in 1..Len(n.items),
           NEW size \in Nat, size <= Width[n.type]
    PROVE  /\ n.items[i] \in [1..Width[n.type] -> 0..255]
           /\ BytesAt(n, (i - 1) * Width[n.type], size) =
                  [j \in 1..size |-> n.items[i][j]]
<1> DEFINE w == Width[n.type]
           L == Len(n.items)
<1>2. w \in {1, 2, 4, 8} /\ L \in Nat /\ n.items[i] \in [1..w -> 0..255]
    BY NumericItems
<1>3. BytesAt(n, (i - 1) * w, size) =
          [j \in 1..size |->
              IF (i - 1) * w + j <= w * L
              THEN n.items[(((i - 1) * w + j - 1) \div w) + 1]
                          [(((i - 1) * w + j - 1) % w) + 1]
              ELSE Beyond]
    BY DEF BytesAt
<1> HIDE DEF w, L
<1>4. i \in 1..L /\ size <= w
    BY DEF w, L
<1>5. ASSUME NEW j \in 1..size
      PROVE  /\ (i - 1) * w + j <= w * L
             /\ (((i - 1) * w + j - 1) \div w) + 1 = i
             /\ (((i - 1) * w + j - 1) % w) + 1 = j
  <2>1. CASE w = 1
      BY <1>2, <1>4, <2>1
  <2>2. CASE w = 2
      BY <1>2, <1>4, <2>2
  <2>3. CASE w = 4
      BY <1>2, <1>4, <2>3
  <2>4. CASE w = 8
      BY <1>2, <1>4, <2>4
  <2> QED
      BY <1>2, <2>1, <2>2, <2>3, <2>4
<1>6. BytesAt(n, (i - 1) * w, size) = [j \in 1..size |-> n.items[i][j]]
    BY <1>3, <1>5
<1> QED
    BY <1>2, <1>6 DEF w

(* At its own width a value reads as its items.                            *)
LEMMA ReadAtOwnWidth ==
    ASSUME NEW n \in Values, Numeric(n), NEW t \in 0..DOUBLE,
           Width[t] = Width[n.type]
    PROVE  GetArrayValuesAs(n, t) = n.items
<1> DEFINE w == Width[n.type]
<1>1. /\ n.scalar => Len(n.items) = 1
      /\ n.items = [i \in 1..Len(n.items) |-> n.items[i]]
    BY NumericItems
<1>2. /\ w \in {1, 2, 4, 8}
      /\ \A i \in 1..Len(n.items) : n.items[i] \in [1..w -> 0..255]
    BY NumericItems
<1> HIDE DEF w
<1>3. ASSUME NEW i \in 1..Len(n.items)
      PROVE  BytesAt(n, (i - 1) * w, w) = n.items[i]
  <2>1. w \in Nat /\ w <= w
      BY <1>2
  <2>2. BytesAt(n, (i - 1) * w, w) = [j \in 1..w |-> n.items[i][j]]
      BY <2>1, ItemBytes DEF w
  <2> QED
      BY <1>2, <2>2
<1>4. n # Empty
    BY DEF Numeric
<1>5. CASE n.scalar
  <2>1. Len(n.items) = 1 /\ (1 - 1) * w = 0
      BY <1>1, <1>2, <1>5
  <2>2. BytesAt(n, 0, w) = n.items[1]
      BY <1>3, <2>1
  <2>3. GetArrayValuesAs(n, t) = <<n.items[1]>>
      BY <1>4, <1>5, <2>2 DEF GetArrayValuesAs, GetValueAs, w
  <2>4. n.items = <<n.items[1]>>
      BY <1>1, <2>1
  <2> QED
      BY <2>3, <2>4
<1>6. CASE ~n.scalar
  <2>1. GetArrayValuesAs(n, t) = [i \in 1..Len(n.items) |-> n.items[i]]
      BY <1>3, <1>4, <1>6 DEF GetArrayValuesAs, w
  <2> QED
      BY <1>1, <2>1
<1> QED
    BY <1>5, <1>6

(* A narrower integer is the lower bytes of the number.                    *)
LEMMA ConvertedBytes ==
    ASSUME NEW n \in Values, Numeric(n), n.type \in Integral,
           NEW i \in 1..Len(n.items), NEW t \in Integral,
           Width[t] <= Width[n.type]
    PROVE  Converted(n, i, t) = [j \in 1..Width[t] |-> n.items[i][j]]
<1>1. Width[t] \in {1, 2, 4, 8} /\ Width[n.type] \in {1, 2, 4, 8}
    BY Widths
<1> DEFINE u == Width[t]
           v == Width[n.type]
           bytes == n.items[i]
           number == NumberOf(n.type, bytes)
<1> HIDE DEF bytes
<1>2. number = [j \in 1..8 |->
                   IF j <= v THEN bytes[j]
                   ELSE IF n.type \in Signed /\ bytes[v] >= 128 THEN 255 ELSE 0]
    BY DEF NumberOf
<1> HIDE DEF number, u, v
<1>3. u \in 1..8 /\ \A j \in 1..u : j \in 1..8 /\ j <= v
    BY <1>1 DEF u, v
<1>4. \A j \in 1..u : number[j] = bytes[j]
    BY <1>2, <1>3
<1>5. SubSeq(number, 1, u) = [j \in 1..u |-> number[j]]
    BY <1>2, <1>3
<1> QED
    BY <1>4, <1>5 DEF Converted, number, bytes, u

(* The last item is read past the end at any wider type.                   *)
LEMMA ReadPastEnd ==
    ASSUME NEW n \in Values, Numeric(n), Len(n.items) # 0, NEW t \in 0..DOUBLE,
           Width[n.type] < Width[t]
    PROVE  LET read == GetArrayValuesAs(n, t)
               last == Len(n.items)
           IN  /\ DOMAIN read = 1..last
               /\ Width[t] \in DOMAIN read[last]
               /\ read[last][Width[t]] = Beyond
               /\ n.scalar => last = 1 /\ read[1] = GetValueAs(n, t)
<1> DEFINE w == Width[n.type]
           u == Width[t]
           L == Len(n.items)
           read == GetArrayValuesAs(n, t)
<1>1. w \in {1, 2, 4, 8} /\ u \in {1, 2, 4, 8} /\ w < u
    BY NumericItems, Widths
<1>2. L \in Nat /\ L # 0 /\ n # Empty /\ (n.scalar => L = 1)
    BY NumericItems
<1>3. \A offset : BytesAt(n, offset, u) =
          [i \in 1..u |->
              IF offset + i <= w * L
              THEN n.items[((offset + i - 1) \div w) + 1][((offset + i - 1) % w) + 1]
              ELSE Beyond]
    BY DEF BytesAt
<1>4. IF n.scalar THEN read = <<GetValueAs(n, t)>> /\ GetValueAs(n, t) = BytesAt(n, 0, u)
                  ELSE read = [i \in 1..L |-> BytesAt(n, (i - 1) * u, u)]
    BY <1>2 DEF GetArrayValuesAs, GetValueAs
<1> HIDE DEF w, u, L, read
<1>5. ~((L - 1) * u + u <= w * L)
  <2>1. CASE w = 1
      BY <1>1, <1>2, <2>1
  <2>2. CASE w = 2
      BY <1>1, <1>2, <2>2
  <2>3. CASE w = 4
      BY <1>1, <1>2, <2>3
  <2> QED
      BY <1>1, <2>1, <2>2, <2>3
<1>6. u \in 1..u /\ L \in 1..L
    BY <1>1, <1>2
<1>7. /\ u \in DOMAIN BytesAt(n, (L - 1) * u, u)
      /\ BytesAt(n, (L - 1) * u, u)[u] = Beyond
    BY <1>3, <1>5, <1>6
<1>8. CASE n.scalar
  <2>1. L = 1 /\ (L - 1) * u = 0
      BY <1>1, <1>2, <1>8
  <2>2. read[1] = GetValueAs(n, t) /\ DOMAIN read = 1..1
      BY <1>4, <1>8
  <2> QED
      BY <1>4, <1>7, <1>8, <2>1, <2>2 DEF L, u, read
<1>9. CASE ~n.scalar
  <2>1. DOMAIN read = 1..L /\ read[L] = BytesAt(n, (L - 1) * u, u)
      BY <1>4, <1>6, <1>9
  <2> QED
      BY <1>7, <1>9, <2>1 DEF L, u, read
<1> QED
    BY <1>8, <1>9

(* What a conversion is made of are bytes.                                 *)
LEMMA ConvertedType ==
    ASSUME NEW n \in Values, Numeric(n), n.type \in Integral,
           NEW i \in 1..Len(n.items), NEW t \in Integral
    PROVE  Converted(n, i, t) \in [1..Width[t] -> 0..255]
<1> DEFINE u == Width[t]
           v == Width[n.type]
           bytes == n.items[i]
           number == NumberOf(n.type, bytes)
<1>1. u \in {1, 2, 4, 8} /\ v \in {1, 2, 4, 8} /\ bytes \in [1..v -> 0..255]
    BY NumericItems, Widths
<1>2. number = [j \in 1..8 |->
                   IF j <= v THEN bytes[j]
                   ELSE IF n.type \in Signed /\ bytes[v] >= 128 THEN 255 ELSE 0]
    BY DEF NumberOf
<1>3. Converted(n, i, t) = SubSeq(number, 1, u)
    BY DEF Converted
<1> HIDE DEF number, u, v, bytes
<1>4. \A j \in 1..8 : number[j] \in 0..255
    BY <1>1, <1>2
<1>5. SubSeq(number, 1, u) = [j \in 1..u |-> number[j]]
    BY <1>1, <1>2
<1>6. \A j \in 1..u : j \in 1..8
    BY <1>1
<1> QED
    BY <1>3, <1>4, <1>5, <1>6 DEF u

(* Reading any value.                                                      *)
LEMMA ValueReads ==
    ASSUME NEW n \in Values, Numeric(n)
    PROVE  /\ GetArrayValuesAs(n, n.type) = n.items
           /\ \A t \in Integral : n.type \in Integral =>
                  /\ n.scalar =>
                         (GetValueAs(n, t) = Converted(n, 1, t)
                              <=> Width[t] <= Width[n.type])
                  /\ n.items # <<>> /\ Width[t] >= Width[n.type] =>
                         (GetArrayValuesAs(n, t) =
                              [i \in DOMAIN n.items |-> Converted(n, i, t)]
                              <=> Width[t] = Width[n.type])
<1>1. /\ n # Empty /\ n.type \in 0..DOUBLE
      /\ n.scalar => Len(n.items) = 1
      /\ n.items = [i \in 1..Len(n.items) |-> n.items[i]]
      /\ Len(n.items) \in Nat /\ DOMAIN n.items = 1..Len(n.items)
      /\ \A i \in 1..Len(n.items) : n.items[i] \in [1..Width[n.type] -> 0..255]
    BY NumericItems
<1>2. Width[n.type] \in {1, 2, 4, 8}
    BY NumericItems
<1>3. GetArrayValuesAs(n, n.type) = n.items
    BY <1>1, ReadAtOwnWidth
<1> DEFINE last == Len(n.items)
<1>a. n.scalar => last = 1
    BY NumericItems
<1> HIDE DEF last
<1>b. n.scalar => last # 0 /\ 1 \in 1..last
    BY <1>a
<1> SUFFICES ASSUME NEW t \in Integral, n.type \in Integral
             PROVE  /\ n.scalar =>
                           (GetValueAs(n, t) = Converted(n, 1, t)
                                <=> Width[t] <= Width[n.type])
                    /\ n.items # <<>> /\ Width[t] >= Width[n.type] =>
                           (GetArrayValuesAs(n, t) =
                                [i \in DOMAIN n.items |-> Converted(n, i, t)]
                                <=> Width[t] = Width[n.type])
    BY <1>3
<1>4. t \in 0..DOUBLE /\ Width[t] \in {1, 2, 4, 8}
    BY Widths
<1>5. ASSUME n.scalar, Width[t] <= Width[n.type]
      PROVE  GetValueAs(n, t) = Converted(n, 1, t)
  <2>1. Len(n.items) = 1 /\ 1 \in 1..Len(n.items)
      BY <1>a, <1>b, <1>5 DEF last
  <2>2. (1 - 1) * Width[n.type] = 0 /\ Width[t] \in Nat
      BY <1>2, <1>4
  <2>3. BytesAt(n, 0, Width[t]) = [j \in 1..Width[t] |-> n.items[1][j]]
      BY <1>5, <2>1, <2>2, ItemBytes
  <2>4. GetValueAs(n, t) = [j \in 1..Width[t] |-> n.items[1][j]]
      BY <1>1, <1>5, <2>3 DEF GetValueAs
  <2> QED
      BY <1>5, <2>1, <2>4, ConvertedBytes
<1>6. ASSUME Len(n.items) # 0, Width[n.type] < Width[t]
      PROVE  /\ GetArrayValuesAs(n, t) # [i \in DOMAIN n.items |-> Converted(n, i, t)]
             /\ n.scalar => GetValueAs(n, t) # Converted(n, 1, t)
  <2> DEFINE read == GetArrayValuesAs(n, t)
             u == Width[t]
  <2> USE DEF last
  <2>1. /\ read[last][u] = Beyond
        /\ n.scalar => last = 1 /\ read[1] = GetValueAs(n, t)
      BY <1>4, <1>6, ReadPastEnd
  <2>2. last \in 1..last /\ u \in 1..u
      BY <1>1, <1>4, <1>6
  <2>3. Converted(n, last, t) \in [1..u -> 0..255]
      BY <2>2, ConvertedType
  <2>4. Converted(n, last, t)[u] # Beyond
      BY <2>2, <2>3, BeyondAssumption
  <2>5. read[last] # Converted(n, last, t)
      BY <2>1, <2>4
  <2> HIDE DEF read, last
  <2>6. read # [i \in 1..last |-> Converted(n, i, t)]
      BY <2>2, <2>5
  <2>7. n.scalar => GetValueAs(n, t) # Converted(n, 1, t)
      BY <2>1, <2>5
  <2> QED
      BY <1>1, <2>6, <2>7 DEF read, last
<1>7. ASSUME Width[t] = Width[n.type]
      PROVE  GetArrayValuesAs(n, t) = [i \in DOMAIN n.items |-> Converted(n, i, t)]
  <2>1. GetArrayValuesAs(n, t) = n.items
      BY <1>4, <1>7, ReadAtOwnWidth
  <2>2. ASSUME NEW i \in 1..Len(n.items)
        PROVE  Converted(n, i, t) = n.items[i]
    <3>1. Converted(n, i, t) = [j \in 1..Width[n.type] |-> n.items[i][j]]
        BY <1>2, <1>7, ConvertedBytes
    <3>2. n.items[i] \in [1..Width[n.type] -> 0..255]
        BY <1>1
    <3> QED
        BY <3>1, <3>2
  <2> QED
      BY <1>1, <2>1, <2>2
<1>8. n.scalar => (GetValueAs(n, t) = Converted(n, 1, t) <=> Width[t] <= Width[n.type])
  <2>1. n.scalar => Len(n.items) # 0
      BY <1>b DEF last
  <2>2. Width[n.type] < Width[t] \/ Width[t] <= Width[n.type]
      BY <1>2, <1>4
  <2>3. ~(Width[n.type] < Width[t] /\ Width[t] <= Width[n.type])
      BY <1>2, <1>4
  <2> QED
      BY <1>5, <1>6, <2>1, <2>2, <2>3
<1>9. n.items # <<>> => Len(n.items) # 0
    BY <1>1
<1>10. Width[t] >= Width[n.type] =>
           /\ Width[n.type] < Width[t] \/ Width[t] = Width[n.type]
           /\ ~(Width[n.type] < Width[t] /\ Width[t] = Width[n.type])
    BY <1>2, <1>4
<1> QED
    BY <1>6, <1>7, <1>8, <1>9, <1>10

(* Printing any value.                                                     *)
LEMMA ValuePrints ==
    ASSUME NEW n \in Values, n.items # <<>>
    PROVE  /\ Numeric(n) =>
                  (Printed(n) = [i \in DOMAIN n.items |-> TextOf(n.type, n.items[i])]
                       <=> n.type \notin Narrow \cup {FLOAT})
           /\ GetText(n) = Printed(n) <=> n.scalar
           /\ GetTexts(n) = [i \in DOMAIN n.items |-> <<Printed(n)[i]>>]
                  <=> n.scalar \/ n.type = STRINGT
<1>1. n # Empty /\ n.type \in 0..STRINGT /\ n.scalar \in BOOLEAN
    BY ValuesAssumption, ItemsAssumption
<1>2. Numeric(n) \/ n.type = STRINGT
    BY <1>1 DEF Numeric, DOUBLE, STRINGT
<1>3. ~(Numeric(n) /\ n.type = STRINGT)
    BY DEF Numeric, DOUBLE, STRINGT
<1> DEFINE items == n.items
           L == Len(items)
<1>b. items # <<>> /\ n.scalar => L = 1
    BY ItemsAssumption
<1>c. \E S : items \in Seq(S)
  <2>1. n.type = STRINGT => items \in Seq(STRING)
      BY ItemsAssumption
  <2>2. n.type # STRINGT => items \in Seq([1..Width[n.type] -> 0..255])
      BY ItemsAssumption
  <2> HIDE DEF items
  <2> QED
      BY <2>1, <2>2
<1>d. items # <<>>
    OBVIOUS
<1> HIDE DEF items
<1>e. L \in Nat /\ L # 0 /\ DOMAIN items = 1..L /\ items = [i \in 1..L |-> items[i]]
    BY <1>c, <1>d
<1> HIDE DEF L
<1>4. L \in Nat /\ L # 0 /\ DOMAIN n.items = 1..L /\ (n.scalar => L = 1)
    BY <1>b, <1>d, <1>e DEF items
<1>5. L \in 1..L
    BY <1>4
<1>6. ASSUME Numeric(n)
      PROVE  /\ DOMAIN Printed(n) = 1..L
             /\ Printed(n) = [i \in 1..L |-> Printed(n)[i]]
             /\ Printed(n) = [i \in 1..L |-> TextOf(n.type, n.items[i])]
                    <=> n.type \notin Narrow \cup {FLOAT}
  <2> DEFINE t == PrintedAs(n.type)
             read == GetArrayValuesAs(n, t)
             text(i) == IF Beyond \in {read[i][j] : j \in DOMAIN read[i]}
                        THEN Beyond ELSE TextOf(t, read[i])
  <2>1. /\ n.type \in 0..DOUBLE
        /\ \A i \in 1..L : n.items[i] \in [1..Width[n.type] -> 0..255]
      BY <1>6, NumericItems DEF L, items
  <2>2. Printed(n) = [i \in DOMAIN read |-> text(i)]
      BY <1>1, <1>6 DEF Printed
  <2>3. CASE n.type \notin Narrow \cup {FLOAT}
    <3>1. t = n.type
        BY <2>1, <2>3, Widths
    <3>2. read = n.items
        BY <1>6, <2>1, <3>1, ReadAtOwnWidth
    <3>3. ASSUME NEW i \in 1..L
          PROVE  text(i) = TextOf(n.type, n.items[i])
      <4>1. \A j \in DOMAIN n.items[i] : n.items[i][j] # Beyond
          BY <2>1, BeyondAssumption
      <4> QED
          BY <3>1, <3>2, <4>1
    <3> HIDE DEF text, read, t
    <3>4. Printed(n) = [i \in 1..L |-> TextOf(n.type, n.items[i])]
        BY <1>4, <2>2, <3>2, <3>3
    <3> QED
        BY <2>3, <3>4
  <2>4. CASE n.type \in Narrow \cup {FLOAT}
    <3>1. t \in 0..DOUBLE /\ Width[n.type] < Width[t]
        BY <2>1, <2>4, Widths
    <3>2. /\ DOMAIN read = 1..L /\ Width[t] \in DOMAIN read[L]
          /\ read[L][Width[t]] = Beyond
        BY <1>4, <1>6, <3>1, ReadPastEnd DEF L, items
    <3>3. text(L) = Beyond
        BY <3>2
    <3>4. TextOf(n.type, n.items[L]) # Beyond
        BY <1>3, <1>4, <1>5, <1>6, BeyondAssumption
    <3> HIDE DEF text, read, t
    <3>5. /\ Printed(n) = [i \in 1..L |-> text(i)] /\ Printed(n)[L] = Beyond
        BY <1>5, <2>2, <3>2, <3>3
    <3>6. Printed(n) # [i \in 1..L |-> TextOf(n.type, n.items[i])]
        BY <1>5, <3>4, <3>5
    <3> QED
        BY <2>4, <3>5, <3>6
  <2> QED
      BY <2>3, <2>4
<1>7. n.type = STRINGT => Printed(n) = n.items
    BY <1>1, <1>3 DEF Printed
<1>8. /\ DOMAIN Printed(n) = 1..L
      /\ Printed(n) = [i \in 1..L |-> Printed(n)[i]]
  <2>1. n.type = STRINGT => n.items = [i \in 1..L |-> n.items[i]]
      BY <1>e DEF items
  <2> QED
      BY <1>2, <1>4, <1>6, <1>7, <2>1
<1>9. GetText(n) = Printed(n) <=> n.scalar
  <2>1. DOMAIN Printed(n) # {}
      BY <1>5, <1>8
  <2>2. Printed(n) # <<>>
      BY <2>1
  <2> QED
      BY <1>1, <2>2 DEF GetText
<1>10. GetTexts(n) = [i \in 1..L |-> <<Printed(n)[i]>>]
           <=> n.scalar \/ n.type = STRINGT
  <2>1. CASE n.scalar
    <3>1. L = 1
        BY <1>4, <2>1
    <3>2. Printed(n) = <<Printed(n)[1]>>
        BY <1>8, <3>1
    <3>3. GetTexts(n) = <<Printed(n)>>
        BY <1>1, <2>1 DEF GetTexts
    <3>4. <<Printed(n)>> = [i \in 1..1 |-> Printed(n)]
        OBVIOUS
    <3>5. \A i \in 1..1 : <<Printed(n)[i]>> = Printed(n)
        BY <3>2
    <3> QED
        BY <2>1, <3>1, <3>3, <3>4, <3>5
  <2>2. CASE ~n.scalar /\ n.type = STRINGT
      BY <1>1, <1>4, <1>7, <2>2 DEF GetTexts
  <2>3. CASE ~n.scalar /\ n.type # STRINGT
    <3>1. GetTexts(n) = <<>>
        BY <1>1, <2>3 DEF GetTexts
    <3>2. DOMAIN [i \in 1..L |-> <<Printed(n)[i]>>] # {}
        BY <1>5
    <3> QED
        BY <2>3, <3>1, <3>2
  <2> QED
      BY <2>1, <2>2, <2>3
<1> QED
    BY <1>4, <1>6, <1>9, <1>10

(* What an object holds.                                                   *)
LEMMA HeldValue ==
    ASSUME TypeOK, NEW n \in Held
    PROVE  n \in Values \cup {Empty}
BY DEF TypeOK, Held, ValueOf, Exists

(* Whatever was done to the objects: scalar integers read as the C++       *)
(* conversion of what was stored at types that are not wider, and never    *)
(* at wider ones; arrays of any length at their own width and never at     *)
(* wider ones (OpcUaVariant.hh:161-224).                                   *)
THEOREM ReadingsConvert == Spec => []ReadsAreConversions
<1>1. TypeOK => ReadsAreConversions
  <2> SUFFICES ASSUME TypeOK
               PROVE  \A n \in Held : Numeric(n) => n \in Values
      BY ValueReads DEF ReadsAreConversions
  <2> QED
      BY HeldValue DEF Numeric
<1> QED
    BY <1>1, TypesKept, PTL

(* Whatever was done to the objects: toString prints the numbers of all    *)
(* types but the integers of 8 and 16 bits and floats, of those never all; *)
(* texts are handed out as they are printed of scalars and arrays of       *)
(* strings, and of no other arrays (OpcUaVariant.cc:92-208).               *)
THEOREM PrintingShowsAll == Spec => []PrintsWhatItHolds
<1>1. TypeOK => PrintsWhatItHolds
  <2> SUFFICES ASSUME TypeOK
               PROVE  \A n \in Held : n # Empty => n \in Values
      BY ValuePrints DEF PrintsWhatItHolds
  <2> QED
      BY HeldValue
<1> QED
    BY <1>1, TypesKept, PTL
=============================================================================
