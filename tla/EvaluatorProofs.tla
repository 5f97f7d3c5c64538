--------------------------- MODULE EvaluatorProofs ---------------------------
(***************************************************************************)
(* The build-time evaluator keeps memory typed, and emits the run it made, *)
(* for every program that javac makes and every limit.                     *)
(*                                                                         *)
(* Two invariants carry it.  Shape says what frames, heap, statics and     *)
(* classes are made of; each instruction keeps it.  Held says that every   *)
(* static, field and element is of its declared type; it is kept where     *)
(* memory is written, given Shape, and given of aastore what a JVM's       *)
(* verifier makes sure of (StoresVerified).  Both rest on one fact: memory *)
(* only grows, and an object never changes its class (Grows).              *)
(***************************************************************************)
EXTENDS Evaluator, TLAPS, FiniteSetTheorems, SequenceTheorems, WellFoundedInduction

\* Remainders by a positive number, and those of a number that already is one.
LEMMA Remainders ==
    ASSUME NEW M \in Nat \ {0}
    PROVE  /\ \A n \in Int : n % M \in 0 .. M - 1
           /\ \A u \in 0 .. M - 1 : u % M = u /\ (u - M) % M = u
<1>1. \A n \in Int : n % M \in 0 .. M - 1
  OBVIOUS
<1>2. ASSUME NEW u \in 0 .. M - 1 PROVE u % M = u
  OBVIOUS
<1>3. ASSUME NEW u \in 0 .. M - 1 PROVE (u - M) % M = u
  OBVIOUS
<1> QED BY <1>1, <1>2, <1>3

\* A signed number of some bits is an int, and is its own signed number.
LEMMA SignedAgain ==
    ASSUME NEW bits \in 1 .. IntBits, NEW n \in Int
    PROVE  Signed(n, bits) \in Int /\ Signed(Signed(n, bits), bits) = Signed(n, bits)
<1> DEFINE H == 2 ^ (bits - 1)
<1>1. H \in Nat \ {0} /\ 2 ^ bits = 2 * H
  BY PowersAssumption
<1> DEFINE M == 2 * H
           u == n % M
<1>2. M \in Nat \ {0} /\ H < M
  BY <1>1
<1>3. u \in 0 .. M - 1 /\ u % M = u /\ (u - M) % M = u
  <2> HIDE DEF M
  <2> QED BY <1>2, Remainders
<1>4. Signed(n, bits) = IF u < H THEN u ELSE u - M
  BY <1>1 DEF Signed, Unsigned
<1>5. \A k : Signed(k, bits) = IF k % M < H THEN k % M ELSE (k % M) - M
  BY <1>1 DEF Signed, Unsigned
<1> HIDE DEF u, H, M
<1>6. CASE u < H
  BY <1>1, <1>2, <1>3, <1>4, <1>5, <1>6
<1>7. CASE ~(u < H)
  BY <1>1, <1>2, <1>3, <1>4, <1>5, <1>7
<1> QED BY <1>6, <1>7

Widths == {ByteBits, ShortBits, IntBits}

\* No width exceeds an int's.
LEMMA WidthsFit == Widths \subseteq 1 .. IntBits
BY BitsAssumption DEF Widths

\* The powers of two that Narrow takes remainders by.
LEMMA PowersOfWidths == \A bits \in Widths : 2 ^ bits \in Nat \ {0}
<1> SUFFICES ASSUME NEW bits \in Widths PROVE 2 ^ bits \in Nat \ {0}
  OBVIOUS
<1> DEFINE H == 2 ^ (bits - 1)
<1>1. H \in Nat \ {0} /\ 2 ^ bits = 2 * H
  BY WidthsFit, PowersAssumption
<1> HIDE DEF H
<1> QED BY <1>1

\* Arithmetic wraps to ints.
LEMMA Wrapped == \A n \in Int : Wrap(n) \in Int
BY WidthsFit, SignedAgain DEF Wrap, Widths

\* Narrow makes an int that it leaves as it is.
LEMMA NarrowAgain ==
    ASSUME NEW type, NEW n \in Int
    PROVE  Narrow(type, n) \in Int /\ Narrow(type, Narrow(type, n)) = Narrow(type, n)
<1>1. CASE type = ByteType
  <2>1. \A k : Narrow(type, k) = Signed(k, ByteBits)
    BY <1>1 DEF Narrow, ByteType, BooleanType, ShortType, CharType, Scalar
  <2> QED BY <2>1, WidthsFit, SignedAgain DEF Widths
<1>2. CASE type = ShortType
  <2>1. \A k : Narrow(type, k) = Signed(k, ShortBits)
    BY <1>2 DEF Narrow, ByteType, BooleanType, ShortType, CharType, Scalar
  <2> QED BY <2>1, WidthsFit, SignedAgain DEF Widths
<1>3. CASE type = BooleanType
  <2>1. \A k : Narrow(type, k) = k % 2
    BY <1>3 DEF Narrow, ByteType, BooleanType, ShortType, CharType, Scalar
  <2> QED BY <2>1
<1>4. CASE type = CharType
  <2> DEFINE M == 2 ^ ShortBits
  <2>1. M \in Nat \ {0}
    BY PowersOfWidths DEF Widths
  <2>2. \A k : Narrow(type, k) = k % M
    BY <1>4 DEF Narrow, Unsigned, ByteType, BooleanType, ShortType, CharType, Scalar
  <2> HIDE DEF M
  <2>3. n % M \in 0 .. M - 1 /\ (n % M) % M = n % M
    BY <2>1, Remainders
  <2> QED BY <2>1, <2>2, <2>3
<1>5. CASE type \notin {ByteType, ShortType, BooleanType, CharType}
  BY <1>5 DEF Narrow
<1> QED BY <1>1, <1>2, <1>3, <1>4, <1>5

-----------------------------------------------------------------------------
(* Characters. *)

\* A code point is a number that is no surrogate.
LEMMA Points == \A c : c \in CodePoints <=> c \in Nat /\ c \notin Surrogates
BY DEF CodePoints

\* The characters of words and decimals are code points.
LEMMA Ascii == \A c \in 45 .. 122 : c \in CodePoints
BY UnitsAssumption DEF CodePoints, Surrogates

\* The default of a char is a code point.
LEMMA ZeroIsAPoint == 0 \in CodePoints
BY UnitsAssumption DEF CodePoints, Surrogates

-----------------------------------------------------------------------------
(* Values. *)

Objects == {a \in DOMAIN heap : Own(heap[a].class)}
Arrays == {a \in DOMAIN heap : heap[a].class = ArrayClass}

Numbers == {"int"} \X Int
Values ==
    UNION {Numbers, {"bool"} \X BOOLEAN, {"char"} \X CodePoints, {"string"} \X Seq(CodePoints),
           {"object"} \X Objects, {"array"} \X Arrays, {Null, SystemOut}}

\* A failed conversion can be told from every value.
LEMMA BadIsNoValue == Bad \notin Values
BY DEF Bad, Values, Numbers, Null, SystemOut

\* What a kind says of the rest of a value.
LEMMA ValueOfKind ==
    ASSUME NEW v \in Values
    PROVE  /\ v = <<Kind(v), v[2]>>
           /\ Kind(v) \in {"int", "bool", "char", "string", "object", "array", "null", "out"}
           /\ Kind(v) = "int" => v[2] \in Int /\ v \in Numbers
           /\ Kind(v) = "bool" => v[2] \in BOOLEAN
           /\ Kind(v) = "char" => v[2] \in CodePoints
           /\ Kind(v) = "string" => v[2] \in Seq(CodePoints)
           /\ Kind(v) = "object" => v[2] \in Objects
           /\ Kind(v) = "array" => v[2] \in Arrays
           /\ Kind(v) = "null" => v = Null
BY DEF Values, Numbers, Kind, Null, SystemOut

\* What the constructors of values make.
LEMMA MadeValues ==
    /\ \A n \in Int : Number(n) \in Values /\ Number(n) \in Numbers
    /\ \A b \in BOOLEAN : Bool(b) \in Values
    /\ \A c \in CodePoints : Char(c) \in Values
    /\ \A text \in Seq(CodePoints) : String(text) \in Values
    /\ \A a \in Objects : ObjectRef(a) \in Values
    /\ \A a \in Arrays : ArrayRef(a) \in Values
    /\ Null \in Values /\ SystemOut \in Values
BY DEF Values, Numbers, Number, Bool, Char, String, ObjectRef, ArrayRef

\* pop_int gives an int, or fails.
LEMMA IntOfValues ==
    ASSUME NEW v \in Values \cup {Bad}
    PROVE  IntOf(v) = Bad \/ (IntOf(v) \in Numbers /\ IntOf(v)[2] \in Int /\ Kind(IntOf(v)) = "int")
<1>1. CASE v = Bad
  BY <1>1 DEF IntOf, Bad, Kind
<1>2. CASE v \in Values
  BY <1>2, ValueOfKind, Points DEF IntOf, Number, Kind, Numbers
<1> QED BY <1>1, <1>2

\* char_from_i32 gives a character, or fails.
LEMMA CharsFrom ==
    ASSUME NEW n PROVE CharFrom(n) \in ({"char"} \X CodePoints) \cup {Bad}
BY Points DEF CharFrom, Char


IntTypes == {IntType, ByteType, ShortType}

\* The types of a JVM are told apart.
LEMMA TypesDiffer ==
    /\ BooleanType # CharType
    /\ IntTypes \cap {BooleanType, CharType} = {}
    /\ IntLike = IntTypes \cup {BooleanType, CharType}
    /\ \A type \in IntLike : ~IsArray(type) /\ type # Object(ObjectClass) /\ type \notin StringFields
    /\ StringType # Object(ObjectClass) /\ StringType \in StringFields
    /\ \A type \in StringFields : ~IsArray(type)
<1>1. BooleanType # CharType /\ IntTypes \cap {BooleanType, CharType} = {}
  BY DEF IntTypes, IntType, ByteType, ShortType, BooleanType, CharType, Scalar
<1>2. IntLike = IntTypes \cup {BooleanType, CharType}
  BY DEF IntLike, SubWord, IntTypes
<1>3. \A type \in IntLike : type[1] \notin {"array", "object"}
  BY DEF IntLike, SubWord, IntType, ByteType, ShortType, BooleanType, CharType, Scalar
<1>4. \A type \in StringFields : type[1] = "object"
  BY DEF StringFields, StringType, Object
<1>5. StringType # Object(ObjectClass)
  BY DEF StringType, Object, ObjectClass, StringClass
<1>6. StringType \in StringFields /\ Object(ObjectClass) \in StringFields
  BY DEF StringFields
<1> QED BY <1>1, <1>2, <1>3, <1>4, <1>5, <1>6 DEF IsArray

\* Typed, by the type it converts to.
LEMMA TypedCases ==
    ASSUME NEW type, NEW v
    PROVE  /\ type \in IntTypes => Typed(type, v) = IntOf(v)
           /\ type = BooleanType => Typed(type, v) = BoolOf(v)
           /\ type = CharType => Typed(type, v) = CharOf(v)
           /\ type \notin IntLike => Typed(type, v) \in {v, Bad}
<1>1. CASE type \in IntTypes
  BY <1>1, TypesDiffer DEF Typed, IntTypes
<1>2. CASE type = BooleanType
  BY <1>2, TypesDiffer DEF Typed, IntTypes
<1>3. CASE type = CharType
  BY <1>3, TypesDiffer DEF Typed, IntTypes
<1>4. CASE type \notin IntLike
  BY <1>4, TypesDiffer DEF Typed, IntTypes
<1> QED BY <1>1, <1>2, <1>3, <1>4, TypesDiffer

\* A parameter or a result is converted to a value, of its declared kind.
LEMMA TypedValues ==
    ASSUME NEW type, NEW v \in Values \cup {Bad}
    PROVE  /\ Typed(type, v) \in Values \cup {Bad}
           /\ Typed(type, v) # Bad =>
                /\ type \in IntTypes => Typed(type, v) \in Numbers
                /\ type = BooleanType => Kind(Typed(type, v)) = "bool"
                /\ type = CharType => Kind(Typed(type, v)) = "char" /\ Typed(type, v)[2] \notin Surrogates
<1>1. CASE type \in IntTypes
  BY <1>1, TypedCases, IntOfValues, TypesDiffer DEF Values
<1>2. CASE type = BooleanType
  <2>1. Typed(type, v) = BoolOf(v)
    BY <1>2, TypedCases
  <2>2. CASE v \in Values
    BY <1>2, <2>1, <2>2, ValueOfKind, MadeValues, TypesDiffer DEF BoolOf, Bool, Kind
  <2>3. CASE v = Bad
    BY <1>2, <2>1, <2>3, TypesDiffer DEF BoolOf, Bad, Kind
  <2> QED BY <2>2, <2>3
<1>3. CASE type = CharType
  <2>1. Typed(type, v) = CharOf(v)
    BY <1>3, TypedCases
  <2>2. Typed(type, v) \in ({"char"} \X CodePoints) \cup {Bad}
    <3>1. CASE v = Bad
      BY <2>1, <3>1 DEF CharOf, Bad, Kind
    <3>2. CASE v \in Values
      BY <2>1, <3>2, ValueOfKind, CharsFrom DEF CharOf
    <3> QED BY <3>1, <3>2
  <2> QED BY <1>3, <2>2, TypesDiffer, Points DEF Values, Kind
<1>4. CASE type \notin IntLike
  BY <1>4, TypedCases, TypesDiffer
<1> QED BY <1>1, <1>2, <1>3, <1>4, TypesDiffer

\* System.out is never converted.
LEMMA TypedNotOut ==
    ASSUME NEW type, NEW v \in Values \cup {Bad}
    PROVE  Kind(Typed(type, v)) # "out"
<1>1. CASE type \in IntLike
  <2>1. CASE Typed(type, v) = Bad
    BY <2>1 DEF Bad, Kind
  <2>2. CASE Typed(type, v) # Bad
    BY <1>1, <2>2, TypedValues, TypesDiffer DEF Numbers, Kind
  <2> QED BY <2>1, <2>2
<1>2. CASE type \notin IntLike
  <2>1. Typed(type, v) \in {v, Bad} /\ (Typed(type, v) = v => v = Bad \/ Kind(v) \in References)
    BY <1>2, TypesDiffer DEF Typed, IntTypes, References
  <2>2. Kind(Bad) # "out"
    BY DEF Bad, Kind
  <2> QED BY <2>1, <2>2 DEF References
<1> QED BY <1>1, <1>2

\* Holds, by type.
LEMMA HoldsCases ==
    ASSUME NEW type, NEW v
    PROVE  /\ type \in IntTypes => (Holds(type, v) <=> Kind(v) = "int" /\ v[2] = Narrow(type, v[2]))
           /\ type = BooleanType => (Holds(type, v) <=> Kind(v) = "bool")
           /\ type = CharType => (Holds(type, v) <=> Kind(v) = "char" /\ v[2] \notin Surrogates)
           /\ type \notin IntLike => (Holds(type, v) <=> Fits(type, v))
<1>1. CASE type \in IntTypes
  BY <1>1, TypesDiffer DEF Holds, IntTypes
<1>2. CASE type = BooleanType
  BY <1>2, TypesDiffer DEF Holds, IntTypes
<1>3. CASE type = CharType
  BY <1>3, TypesDiffer DEF Holds, IntTypes
<1>4. CASE type \notin IntLike
  BY <1>4, TypesDiffer DEF Holds, IntTypes
<1> QED BY <1>1, <1>2, <1>3, <1>4, TypesDiffer

\* A number narrowed to a type is one a field of that type holds.
LEMMA NarrowedHolds ==
    ASSUME NEW type \in IntTypes, NEW n \in Int
    PROVE  Number(Narrow(type, n)) \in Values /\ Holds(type, Number(Narrow(type, n)))
<1>1. Narrow(type, n) \in Int /\ Narrow(type, Narrow(type, n)) = Narrow(type, n)
  BY NarrowAgain
<1>2. Kind(Number(Narrow(type, n))) = "int" /\ Number(Narrow(type, n))[2] = Narrow(type, n)
  BY DEF Kind, Number
<1> QED BY <1>1, <1>2, HoldsCases, MadeValues

\* A value converted for a field that it fits is one the field holds.
LEMMA ForFieldHolds ==
    ASSUME NEW type, NEW v \in Values \cup {Bad}, ForField(type, v) # Bad, Fits(type, ForField(type, v))
    PROVE  ForField(type, v) \in Values /\ Holds(type, ForField(type, v))
<1>1. CASE type \in {ByteType, ShortType}
  <2> type \notin {IntType, BooleanType, CharType}
    BY <1>1 DEF IntType, ByteType, ShortType, BooleanType, CharType, Scalar
  <2>1. ForField(type, v) = IF IntOf(v) = Bad THEN Bad ELSE Number(Narrow(type, IntOf(v)[2]))
    BY <1>1 DEF ForField
  <2>2. IntOf(v) # Bad /\ IntOf(v)[2] \in Int
    BY <2>1, IntOfValues
  <2> QED BY <1>1, <2>1, <2>2, NarrowedHolds DEF IntTypes
<1>2. CASE type \in {IntType, BooleanType, CharType}
  <2>1. ForField(type, v) = Typed(type, v)
    BY <1>2, TypesDiffer DEF ForField, IntTypes, IntType, ByteType, ShortType, Scalar
  <2>2. CASE type = IntType
    <3>1. Typed(type, v) = IntOf(v) /\ IntOf(v) # Bad
      BY <2>1, <2>2, TypedCases DEF IntTypes
    <3>2. IntOf(v) \in Numbers /\ Kind(IntOf(v)) = "int"
      BY <3>1, IntOfValues
    <3>3. Narrow(type, IntOf(v)[2]) = IntOf(v)[2]
      BY <2>2, TypesDiffer DEF Narrow, IntTypes, IntType, ByteType, ShortType, BooleanType, CharType, Scalar
    <3> QED BY <2>1, <2>2, <3>1, <3>2, <3>3, HoldsCases DEF IntTypes, Values
  <2>3. CASE type \in {BooleanType, CharType}
    BY <2>1, <2>3, TypedValues, HoldsCases
  <2> QED BY <1>2, <2>2, <2>3
<1>3. CASE type \notin IntLike
  <2>1. type \notin {ByteType, ShortType} /\ type \notin {IntType, BooleanType, CharType}
    BY <1>3, TypesDiffer DEF IntTypes
  <2>2. ForField(type, v) = IF Accepts(type, v) THEN v ELSE Bad
    BY <2>1 DEF ForField
  <2> QED BY <1>3, <2>2, HoldsCases
<1> QED BY <1>1, <1>2, <1>3, TypesDiffer DEF IntTypes

\* An int made an element of an array it fits.
LEMMA FromIntHolds ==
    ASSUME NEW type, NEW n \in Int, FromInt(type, n) # Bad, Fits(type, FromInt(type, n))
    PROVE  FromInt(type, n) \in Values /\ Holds(type, FromInt(type, n))
<1>1. CASE type = BooleanType
  BY <1>1, TypesDiffer, MadeValues, HoldsCases DEF FromInt, Bool, Kind
<1>2. CASE type = CharType
  <2>1. FromInt(type, n) = CharFrom(Narrow(CharType, n))
    BY <1>2, TypesDiffer DEF FromInt
  <2>2. FromInt(type, n) \in {"char"} \X CodePoints
    BY <2>1, CharsFrom
  <2> QED BY <1>2, <2>2, HoldsCases, Points DEF Values, Kind
<1>3. CASE type \in IntTypes
  <2>1. FromInt(type, n) = Number(Narrow(type, n))
    BY <1>3, TypesDiffer DEF FromInt
  <2> QED BY <1>3, <2>1, NarrowedHolds
<1>4. CASE type \notin IntLike
  <2>1. Kind(FromInt(type, n)) = "int"
    BY <1>4, TypesDiffer DEF FromInt, Number, Kind
  <2>2. ~Fits(type, FromInt(type, n))
    BY <1>4, <2>1, TypesDiffer DEF Fits, References, IntTypes
  <2> QED BY <2>2
<1> QED BY <1>1, <1>2, <1>3, <1>4, TypesDiffer

\* A default is a value of its declared type.
LEMMA DefaultHolds ==
    ASSUME NEW type
    PROVE  DefaultValue(type) \in Values /\ Holds(type, DefaultValue(type))
<1>1. CASE type = BooleanType
  <2>1. DefaultValue(type) = Bool(FALSE)
    BY <1>1, TypesDiffer DEF DefaultValue, IntTypes
  <2>2. FALSE \in BOOLEAN
    OBVIOUS
  <2>3. Bool(FALSE) \in Values
    BY <2>2, MadeValues
  <2>4. Kind(Bool(FALSE)) = "bool"
    BY DEF Bool, Kind
  <2> QED BY <1>1, <2>1, <2>3, <2>4, HoldsCases
<1>2. CASE type = CharType
  <2>1. DefaultValue(type) = Char(0)
    BY <1>2, TypesDiffer DEF DefaultValue, IntTypes
  <2> QED BY <1>2, <2>1, ZeroIsAPoint, Points, MadeValues, HoldsCases DEF Char, Kind
<1>3. CASE type \in IntTypes
  <2>1. DefaultValue(type) = Number(0)
    BY <1>3, TypesDiffer DEF DefaultValue, IntTypes
  <2>2. Narrow(type, 0) = 0
    <3>1. \A bits \in Widths : Signed(0, bits) = 0
      <4> SUFFICES ASSUME NEW bits \in Widths PROVE Signed(0, bits) = 0
        OBVIOUS
      <4> DEFINE H == 2 ^ (bits - 1)
      <4>1. H \in Nat \ {0} /\ 2 ^ bits = 2 * H
        BY WidthsFit, PowersAssumption
      <4>2. Signed(0, bits) = IF 0 % (2 * H) < H THEN 0 % (2 * H) ELSE (0 % (2 * H)) - 2 * H
        BY <4>1 DEF Signed, Unsigned
      <4> HIDE DEF H
      <4>3. 0 \in 0 .. 2 * H - 1 /\ 2 * H \in Nat \ {0}
        BY <4>1
      <4>4. 0 % (2 * H) = 0
        BY <4>3, Remainders
      <4> QED BY <4>1, <4>2, <4>4
    <3>2. Narrow(type, 0) \in {0, Signed(0, ByteBits), Signed(0, ShortBits)}
      BY <1>3 DEF Narrow, IntTypes, IntType, ByteType, ShortType, BooleanType, CharType, Scalar
    <3> QED BY <3>1, <3>2 DEF Widths
  <2> QED BY <1>3, <2>1, <2>2, MadeValues, HoldsCases DEF Number, Kind
<1>4. CASE type \notin IntLike
  <2>1. DefaultValue(type) = Null
    BY <1>4, TypesDiffer DEF DefaultValue, IntTypes
  <2>2. Fits(type, Null)
    BY <1>4, TypesDiffer DEF Fits, Null, Kind, References, IntTypes
  <2> QED BY <1>4, <2>1, <2>2, HoldsCases, MadeValues
<1> QED BY <1>1, <1>2, <1>3, <1>4, TypesDiffer

-----------------------------------------------------------------------------
(* Strings. *)

Least(S) == CHOOSE x \in S : \A y \in S : x <= y

\* A set of naturals that is not empty has a least one.
LEMMA LeastNatural ==
    ASSUME NEW S \in SUBSET Nat, S # {}
    PROVE  Least(S) \in S /\ \A n \in S : Least(S) <= n
<1> DEFINE R == {p \in Nat \X Nat : p[1] < p[2]}
<1>1. IsWellFoundedOn(R, Nat)
  BY NatLessThanWellFounded DEF OpToRel
<1>2. PICK m \in S : \A n \in S : <<n, m>> \notin R
  <2> HIDE DEF R
  <2> QED BY <1>1, WFMin
<1>3. \A n \in S : m <= n
  <2> SUFFICES ASSUME NEW n \in S PROVE m <= n
    OBVIOUS
  <2>1. <<n, m>> \notin R
    BY <1>2
  <2>2. ~(n < m)
    BY <2>1
  <2> QED BY <2>2
<1> QED BY <1>3 DEF Least

\* A part of a sequence is made of what the sequence is made of.
LEMMA PartOfSeq ==
    ASSUME NEW S, NEW s \in Seq(S), NEW m \in Nat \ {0}, NEW n \in Int, n <= Len(s)
    PROVE  SubSeq(s, m, n) \in Seq(S)
<1>1. CASE n < m
  BY <1>1
<1>2. CASE m <= n
  BY <1>2
<1> QED BY <1>1, <1>2

\* Sequences put one after another: by the least length at which it would fail.
LEMMA Flattened ==
    ASSUME NEW S, NEW ss \in Seq(Seq(S))
    PROVE  FlattenSeq(ss) \in Seq(S)
<1>1. CASE Len(ss) = 0
  BY <1>1 DEF FlattenSeq
<1>2. CASE Len(ss) # 0
  <2> DEFINE n == Len(ss)
             Is(f, m) == f = [i \in 1 .. m |-> IF i = 1 THEN ss[i] ELSE f[i - 1] \o ss[i]]
             Without == {m \in 1 .. n : ~ \E f : Is(f, m) /\ \A i \in 1 .. m : f[i] \in Seq(S)}
  <2>1. n \in Nat /\ n >= 1 /\ \A i \in 1 .. n : ss[i] \in Seq(S)
    BY <1>2
  <2>2. Without = {}
    <3> SUFFICES ASSUME Without # {} PROVE FALSE
      OBVIOUS
    <3> DEFINE m == Least(Without)
    <3>1. m \in Without /\ \A k \in Without : m <= k
      <4>1. Without \subseteq 1 .. n
        BY Zenon
      <4> HIDE DEF Without
      <4>2. Without \in SUBSET Nat
        BY <2>1, <4>1
      <4> QED BY <4>2, LeastNatural
    <3> HIDE DEF m
    <3>2. CASE m = 1
      <4> DEFINE f == [i \in 1 .. 1 |-> ss[i]]
      <4>1. Is(f, 1) /\ f[1] \in Seq(S)
        BY <2>1
      <4>2. \A i \in 1 .. 1 : f[i] \in Seq(S)
        BY <4>1
      <4>3. 1 \in Without
        BY <3>1, <3>2
      <4>4. ~ \E h : Is(h, 1) /\ \A i \in 1 .. 1 : h[i] \in Seq(S)
        BY <4>3
      <4> HIDE DEF f, Is, Without
      <4> QED BY <4>1, <4>2, <4>4
    <3>3. CASE m # 1
      <4>1. m - 1 \in 1 .. n /\ m - 1 \notin Without /\ m \in 1 .. n
        <5>1. m \in 1 .. n
          BY <3>1
        <5>2. m - 1 \in 1 .. n /\ ~(m <= m - 1)
          BY <2>1, <5>1, <3>3
        <5> HIDE DEF Without
        <5> QED BY <3>1, <5>1, <5>2
      <4>2. PICK g : Is(g, m - 1) /\ \A i \in 1 .. m - 1 : g[i] \in Seq(S)
        BY <4>1
      <4> DEFINE f == [i \in 1 .. m |-> IF i = m THEN g[m - 1] \o ss[m] ELSE g[i]]
      <4>3. Is(f, m)
        <5>1. \A i \in 1 .. m : f[i] = IF i = 1 THEN ss[i] ELSE f[i - 1] \o ss[i]
          <6> SUFFICES ASSUME NEW i \in 1 .. m PROVE f[i] = IF i = 1 THEN ss[i] ELSE f[i - 1] \o ss[i]
            OBVIOUS
          <6>1. CASE i = m
            <7>1. f[i] = g[m - 1] \o ss[m]
              BY <6>1
            <7>2. f[i - 1] = g[m - 1]
              BY <3>3, <4>1, <6>1
            <7> HIDE DEF f, Is, Without
            <7> QED BY <3>3, <6>1, <7>1, <7>2
          <6>2. CASE i # m
            <7>1. i \in 1 .. m - 1
              BY <6>2, <4>1
            <7>2. g[i] = IF i = 1 THEN ss[i] ELSE g[i - 1] \o ss[i]
              BY <4>2, <7>1
            <7>3. i # 1 => f[i - 1] = g[i - 1]
              BY <7>1, <4>1
            <7>4. f[i] = g[i]
              BY <6>2
            <7> HIDE DEF f, Is, Without
            <7>5. CASE i = 1
              BY <7>2, <7>4, <7>5
            <7>6. CASE i # 1
              BY <7>2, <7>3, <7>4, <7>6
            <7> QED BY <7>5, <7>6
          <6> QED BY <6>1, <6>2
        <5> QED BY <5>1
      <4>4. \A i \in 1 .. m : f[i] \in Seq(S)
        BY <2>1, <4>1, <4>2
      <4> HIDE DEF f
      <4> QED BY <3>1, <4>1, <4>3, <4>4
    <3> QED BY <3>2, <3>3
  <2> DEFINE flatten == CHOOSE f : Is(f, n)
  <2>3. Is(flatten, n)
    <3>1. n \in 1 .. n
      BY <2>1
    <3>2. n \notin Without
      BY <2>2
    <3>3. \E f : Is(f, n) /\ \A i \in 1 .. n : f[i] \in Seq(S)
      BY <3>1, <3>2
    <3>4. \E f : Is(f, n)
      BY <3>3
    <3> HIDE DEF Is
    <3> QED BY <3>4
  <2>4. \A i \in 1 .. n : flatten[i] \in Seq(S)
    <3> DEFINE Wrong == {i \in 1 .. n : flatten[i] \notin Seq(S)}
               m == Least(Wrong)
    <3> SUFFICES ASSUME Wrong # {} PROVE FALSE
      OBVIOUS
    <3>1. m \in Wrong /\ \A k \in Wrong : m <= k
      <4>1. Wrong \subseteq 1 .. n
        BY Zenon
      <4> HIDE DEF Wrong, flatten
      <4>2. Wrong \in SUBSET Nat
        BY <2>1, <4>1
      <4> QED BY <4>2, LeastNatural
    <3> HIDE DEF m, flatten
    <3>2. flatten[m] = IF m = 1 THEN ss[m] ELSE flatten[m - 1] \o ss[m]
      BY <2>3, <3>1
    <3>3. m # 1 => m - 1 \in 1 .. n /\ flatten[m - 1] \in Seq(S)
      BY <2>1, <3>1
    <3>4. m \in 1 .. n /\ flatten[m] \notin Seq(S)
      BY <3>1
    <3> HIDE DEF Wrong, Is
    <3>5. ss[m] \in Seq(S)
      BY <2>1, <3>4
    <3>6. CASE m = 1
      BY <3>2, <3>4, <3>5, <3>6
    <3>7. CASE m # 1
      <4> DEFINE u == flatten[m - 1]
                 w == ss[m]
      <4>1. u \in Seq(S) /\ w \in Seq(S)
        BY <3>3, <3>5, <3>7
      <4>2. flatten[m] = u \o w
        BY <3>2, <3>7
      <4> HIDE DEF u, w
      <4>3. u \o w \in Seq(S)
        BY <4>1
      <4> QED BY <3>4, <4>2, <4>3
    <3> QED BY <3>6, <3>7
  <2>5. FlattenSeq(ss) = flatten[n]
    BY <1>2 DEF FlattenSeq
  <2> HIDE DEF flatten
  <2> QED BY <2>1, <2>4, <2>5
<1> QED BY <1>1, <1>2

\* The units of a text are numbers.
LEMMA UnitsOfText == \A text \in Seq(CodePoints) : Units(text) \in Seq(Nat)
<1> SUFFICES ASSUME NEW text \in Seq(CodePoints) PROVE Units(text) \in Seq(Nat)
  OBVIOUS
<1> DEFINE Of(c) == IF c = Supplementary THEN <<HighUnit, LowUnit>> ELSE <<c>>
           ss == [k \in DOMAIN text |-> Of(text[k])]
<1>1. \A c \in Nat : Of(c) \in Seq(Nat)
  <2>1. HighUnit \in Nat /\ LowUnit \in Nat
    BY UnitsAssumption
  <2> QED BY <2>1
<1>2. ss \in Seq(Seq(Nat))
  <2> HIDE DEF Of
  <2>1. ss = [k \in 1 .. Len(text) |-> Of(text[k])]
    OBVIOUS
  <2>2. ASSUME NEW k \in 1 .. Len(text) PROVE Of(text[k]) \in Seq(Nat)
    <3>1. text[k] \in CodePoints
      OBVIOUS
    <3>2. text[k] \in Nat
      BY <3>1, Points
    <3> QED BY <1>1, <3>2
  <2> QED BY <2>1, <2>2
<1>3. Units(text) = FlattenSeq(ss)
  BY DEF Units
<1> HIDE DEF ss
<1> QED BY <1>2, <1>3, Flattened

\* java_string_hash_code gives an int for every text: by the least prefix where it would not.
LEMMA HashesAreInts == \A text \in Seq(CodePoints) : HashCode(text) \in Int
<1> SUFFICES ASSUME NEW text \in Seq(CodePoints) PROVE HashCode(text) \in Int
  OBVIOUS
<1> DEFINE units == Units(text)
           n == Len(units)
           Is(f, m) == f = [k \in 0 .. m |-> IF k = 0 THEN 0 ELSE Wrap(f[k - 1] * 31 + units[k])]
           Has0(m) == \E f : Is(f, m) /\ \A k \in 0 .. m : f[k] \in Int
           Without == {m \in 0 .. n : ~Has0(m)}
<1>1. n \in Nat /\ \A k \in 1 .. n : units[k] \in Int
  BY UnitsOfText
<1>2. Without = {}
  <2> SUFFICES ASSUME Without # {} PROVE FALSE
    OBVIOUS
  <2> DEFINE m == Least(Without)
  <2>1. m \in Without /\ \A k \in Without : m <= k
    <3>1. Without \subseteq 0 .. n
      BY Zenon
    <3> HIDE DEF Without
    <3>2. Without \in SUBSET Nat
      BY <1>1, <3>1
    <3> QED BY <3>2, LeastNatural
  <2> HIDE DEF m, units
  <2>2. m \in 0 .. n /\ ~Has0(m)
    BY <2>1
  <2>3. CASE m = 0
    <3> DEFINE f == [k \in 0 .. 0 |-> 0]
    <3>1. Is(f, 0) /\ \A k \in 0 .. 0 : f[k] \in Int
      OBVIOUS
    <3> HIDE DEF f, Is
    <3> QED BY <2>2, <2>3, <3>1
  <2>4. CASE m # 0
    <3>1. m - 1 \in 0 .. n /\ ~(m <= m - 1) /\ m \in 1 .. n
      BY <1>1, <2>2, <2>4
    <3>2. Has0(m - 1)
      BY <2>1, <3>1
    <3>3. PICK g : Is(g, m - 1) /\ \A k \in 0 .. m - 1 : g[k] \in Int
      BY <3>2
    <3> DEFINE f == [k \in 0 .. m |-> IF k = m THEN Wrap(g[m - 1] * 31 + units[m]) ELSE g[k]]
    <3>4. Is(f, m)
      <4>1. \A k \in 0 .. m : f[k] = IF k = 0 THEN 0 ELSE Wrap(f[k - 1] * 31 + units[k])
        <5> SUFFICES ASSUME NEW k \in 0 .. m
                     PROVE  f[k] = IF k = 0 THEN 0 ELSE Wrap(f[k - 1] * 31 + units[k])
          OBVIOUS
        <5>1. CASE k = m
          <6>1. f[k] = Wrap(g[m - 1] * 31 + units[m])
            BY <5>1
          <6>2. f[k - 1] = g[m - 1]
            BY <2>4, <3>1, <5>1
          <6> HIDE DEF f, Is, Without
          <6> QED BY <2>4, <5>1, <6>1, <6>2
        <5>2. CASE k # m
          <6>1. k \in 0 .. m - 1
            BY <5>2, <3>1
          <6>2. g[k] = IF k = 0 THEN 0 ELSE Wrap(g[k - 1] * 31 + units[k])
            BY <3>3, <6>1
          <6>3. k # 0 => f[k - 1] = g[k - 1]
            BY <6>1, <3>1
          <6>4. f[k] = g[k]
            BY <5>2
          <6> HIDE DEF f, Is, Without
          <6>5. CASE k = 0
            BY <6>2, <6>4, <6>5
          <6>6. CASE k # 0
            BY <6>2, <6>3, <6>4, <6>6
          <6> QED BY <6>5, <6>6
        <5> QED BY <5>1, <5>2
      <4> QED BY <4>1
    <3>5. \A k \in 0 .. m : f[k] \in Int
      <4>1. Wrap(g[m - 1] * 31 + units[m]) \in Int
        <5>1. g[m - 1] * 31 + units[m] \in Int
          BY <1>1, <3>1, <3>3
        <5> QED BY <5>1, Wrapped
      <4>2. \A k \in 0 .. m : k # m => k \in 0 .. m - 1
        BY <3>1
      <4> HIDE DEF Is, Without
      <4> QED BY <3>3, <4>1, <4>2
    <3> HIDE DEF f, Is
    <3> QED BY <2>2, <3>4, <3>5
  <2> QED BY <2>3, <2>4
<1> DEFINE hash == CHOOSE f : Is(f, n)
<1>3. Is(hash, n)
  <2>1. n \in 0 .. n
    BY <1>1
  <2>2. n \notin Without
    BY <1>2
  <2>3. Has0(n)
    BY <2>1, <2>2
  <2>4. \E f : Is(f, n)
    BY <2>3
  <2> HIDE DEF Is
  <2> QED BY <2>4
<1>4. \A k \in 0 .. n : hash[k] \in Int
  <2> DEFINE Wrong == {k \in 0 .. n : hash[k] \notin Int}
             m == Least(Wrong)
  <2> SUFFICES ASSUME Wrong # {} PROVE FALSE
    OBVIOUS
  <2>1. m \in Wrong /\ \A k \in Wrong : m <= k
    <3>1. Wrong \subseteq 0 .. n
      BY Zenon
    <3> HIDE DEF Wrong, hash
    <3>2. Wrong \in SUBSET Nat
      BY <1>1, <3>1
    <3> QED BY <3>2, LeastNatural
  <2> HIDE DEF m, hash, units
  <2>2. m \in 0 .. n /\ hash[m] \notin Int
    BY <2>1
  <2>3. hash[m] = IF m = 0 THEN 0 ELSE Wrap(hash[m - 1] * 31 + units[m])
    BY <1>3, <2>2
  <2>4. CASE m = 0
    BY <2>2, <2>3, <2>4
  <2>5. CASE m # 0
    <3>1. m - 1 \in 0 .. n /\ ~(m <= m - 1) /\ m \in 1 .. n
      BY <1>1, <2>2, <2>5
    <3>2. hash[m - 1] \in Int
      BY <2>1, <3>1
    <3>3. hash[m - 1] * 31 + units[m] \in Int
      BY <1>1, <3>1, <3>2
    <3> HIDE DEF Wrong, Is
    <3> QED BY <2>2, <2>3, <2>5, <3>3, Wrapped
  <2> QED BY <2>4, <2>5
<1>5. HashCode(text) = hash[n]
  BY DEF HashCode
<1> HIDE DEF hash, units
<1> QED BY <1>1, <1>4, <1>5

\* A number is written in characters.
LEMMA DecimalsAreTexts == \A n \in Int : Decimal(n) \in Seq(CodePoints) /\ Identified(n) \in Seq(CodePoints)
<1> SUFFICES ASSUME NEW n \in Int PROVE Decimal(n) \in Seq(CodePoints) /\ Identified(n) \in Seq(CodePoints)
  OBVIOUS
<1> DEFINE places == {d \in 2 .. 10 : Tens[d] <= Abs(n)}
           length == Cardinality(places) + 1
           digits == [k \in 1 .. length |-> 48 + ((Abs(n) \div Tens[length + 1 - k]) % 10)]
           sign == IF n < 0 THEN <<45>> ELSE <<>>
<1>1. length \in 1 .. 10
  <2>1. IsFiniteSet(2 .. 10) /\ Cardinality(2 .. 10) = 9
    <3>1. \A a, b \in Int :
            IsFiniteSet(a .. b) /\ Cardinality(a .. b) = IF a > b THEN 0 ELSE b - a + 1
      BY FS_Interval
    <3>2. 2 \in Int /\ 10 \in Int
      OBVIOUS
    <3>3. IsFiniteSet(2 .. 10) /\ Cardinality(2 .. 10) = IF 2 > 10 THEN 0 ELSE 10 - 2 + 1
      BY <3>1, <3>2, Zenon
    <3> QED BY <3>3
  <2>2. Cardinality(places) \in Nat /\ Cardinality(places) <= 9
    <3>1. places \subseteq 2 .. 10
      OBVIOUS
    <3> HIDE DEF places
    <3> QED BY <2>1, <3>1, FS_Subset, FS_CardinalityType
  <2> HIDE DEF places
  <2> QED BY <2>2
<1>2. \A d \in 1 .. 10 : Tens[d] \in Nat \ {0}
  BY DEF Tens
<1>3. Abs(n) \in Nat
  BY DEF Abs
<1>4. digits \in Seq(CodePoints)
  <2> HIDE DEF length
  <2> SUFFICES ASSUME NEW k \in 1 .. length
               PROVE  48 + ((Abs(n) \div Tens[length + 1 - k]) % 10) \in CodePoints
    BY <1>1
  <2>1. length + 1 - k \in 1 .. 10
    BY <1>1
  <2>2. Tens[length + 1 - k] \in Nat \ {0}
    BY <1>2, <2>1
  <2>3. Abs(n) \div Tens[length + 1 - k] \in Int
    BY <1>3, <2>2
  <2> DEFINE x == Abs(n) \div Tens[length + 1 - k]
  <2>7. x \in Int
    BY <2>3
  <2> HIDE DEF x
  <2>4. x % 10 \in 0 .. 9
    BY <2>7
  <2>5. 48 + (x % 10) \in 45 .. 122
    BY <2>4
  <2>6. 48 + (x % 10) \in CodePoints
    BY <2>5, Ascii
  <2> QED BY <2>6 DEF x
<1>5. sign \in Seq(CodePoints)
  <2>1. 45 \in 45 .. 122
    OBVIOUS
  <2>2. 45 \in CodePoints
    BY <2>1, Ascii
  <2> QED BY <2>2
<1>6. Decimal(n) = sign \o digits
  BY DEF Decimal
<1> HIDE DEF sign, digits
<1>7. Decimal(n) \in Seq(CodePoints)
  BY <1>4, <1>5, <1>6
<1>8. <<64>> \in Seq(CodePoints)
  <2>1. 64 \in 45 .. 122
    OBVIOUS
  <2>2. 64 \in CodePoints
    BY <2>1, Ascii
  <2> QED BY <2>2
<1> QED BY <1>7, <1>8 DEF Identified

\* What value_to_string_bytes gives is a text.
LEMMA BytesAreTexts ==
    ASSUME NEW v \in Values, Kind(v) \in {"int", "bool", "char", "string", "null"}
    PROVE  Bytes(v) \in Seq(CodePoints)
<1>1. TrueWord \in Seq(CodePoints) /\ FalseWord \in Seq(CodePoints) /\ NullWord \in Seq(CodePoints)
  <2>1. {97, 101, 102, 108, 110, 114, 115, 116, 117} \subseteq 45 .. 122
    OBVIOUS
  <2>2. {97, 101, 102, 108, 110, 114, 115, 116, 117} \subseteq CodePoints
    BY <2>1, Ascii
  <2> QED BY <2>2 DEF TrueWord, FalseWord, NullWord
<1>2. CASE Kind(v) = "int"
  BY <1>2, ValueOfKind, DecimalsAreTexts DEF Bytes
<1>3. CASE Kind(v) = "bool"
  BY <1>1, <1>3 DEF Bytes
<1>4. CASE Kind(v) = "char"
  <2>1. v[2] \in CodePoints
    BY <1>4, ValueOfKind
  <2>2. Bytes(v) = <<v[2]>>
    BY <1>4 DEF Bytes
  <2> QED BY <2>1, <2>2
<1>5. CASE Kind(v) = "string"
  BY <1>5, ValueOfKind DEF Bytes
<1>6. CASE Kind(v) = "null"
  BY <1>1, <1>6 DEF Bytes
<1> QED BY <1>2, <1>3, <1>4, <1>5, <1>6

\* The parts of a recipe, whose arguments are all there, make a text.
LEMMA JoinedIsText ==
    ASSUME NEW parts, parts \in Seq(ToSet(parts)),
           \A p \in ToSet(parts) : p[1] # "arg" => p[2] \in Seq(CodePoints),
           NEW args, Len(args) \in Nat, ArgsBefore(parts, Len(parts)) = Len(args),
           \A i \in 1 .. Len(args) :
             args[i] \in Values /\ Kind(args[i]) \in {"int", "bool", "char", "string", "null"}
    PROVE  Joined(args, parts) \in Seq(CodePoints)
<1> DEFINE n == Len(parts)
           Taken(k) == {i \in 1 .. k : parts[i][1] = "arg"}
           Text(k) == IF parts[k][1] = "arg" THEN Bytes(args[ArgsBefore(parts, k)]) ELSE parts[k][2]
           texts == [k \in DOMAIN parts |-> Text(k)]
<1>1. n \in Nat /\ DOMAIN parts = 1 .. n
  OBVIOUS
<1>2. \A k \in 1 .. n : Text(k) \in Seq(CodePoints)
  <2> SUFFICES ASSUME NEW k \in 1 .. n PROVE Text(k) \in Seq(CodePoints)
    OBVIOUS
  <2>1. CASE parts[k][1] # "arg"
    BY <1>1, <2>1 DEF ToSet
  <2>2. CASE parts[k][1] = "arg"
    <3>1. IsFiniteSet(1 .. n)
      BY <1>1, FS_Interval
    <3>2. Taken(n) \subseteq 1 .. n /\ Taken(k) \subseteq Taken(n) /\ k \in Taken(k)
      BY <1>1, <2>2
    <3> HIDE DEF Taken
    <3>3. IsFiniteSet(Taken(n)) /\ IsFiniteSet(Taken(k))
      BY <3>1, <3>2, FS_Subset
    <3>4. Cardinality(Taken(k)) <= Cardinality(Taken(n))
      BY <3>2, <3>3, FS_Subset
    <3>5. Cardinality(Taken(k)) \in Nat /\ Cardinality(Taken(n)) \in Nat
      BY <3>3, FS_CardinalityType
    <3>6. Cardinality(Taken(k)) # 0
      BY <3>2, <3>3, FS_EmptySet
    <3>7. ArgsBefore(parts, k) = Cardinality(Taken(k)) /\ Len(args) = Cardinality(Taken(n))
      BY DEF ArgsBefore, Taken
    <3>8. ArgsBefore(parts, k) \in 1 .. Len(args)
      BY <3>4, <3>5, <3>6, <3>7
    <3> QED BY <2>2, <3>8, BytesAreTexts
  <2> QED BY <2>1, <2>2
<1>3. texts \in Seq(Seq(CodePoints))
  <2> HIDE DEF Text
  <2>1. texts = [k \in 1 .. n |-> Text(k)]
    BY <1>1
  <2> QED BY <1>1, <1>2, <2>1
<1>4. Joined(args, parts) = FlattenSeq(texts)
  BY DEF Joined
<1> HIDE DEF texts
<1> QED BY <1>3, <1>4, Flattened

\* A position in a text is one of its characters, or its end.
LEMMA CharAtValue == \A text \in Seq(CodePoints) : \A index : CharAt(text, index) \in Values \cup {Bad}
<1> SUFFICES ASSUME NEW text \in Seq(CodePoints), NEW index, CharAt(text, index) # Bad
             PROVE  CharAt(text, index) \in Values
  OBVIOUS
<1> DEFINE at == {k \in Boundaries(text, index) : k < Len(text)}
           k == CHOOSE k \in at : TRUE
<1>1. CharAt(text, index) = Char(text[k + 1]) /\ at # {}
  BY DEF CharAt
<1>2. k \in at
  <2> HIDE DEF at
  <2> QED BY <1>1
<1>3. k \in 0 .. Len(text) /\ k < Len(text)
  BY <1>2 DEF Boundaries
<1> HIDE DEF k, at
<1>4. text[k + 1] \in CodePoints
  BY <1>3
<1> QED BY <1>1, <1>4, MadeValues

\* substring gives a string, or fails.
LEMMA SubstringValue == \A text \in Seq(CodePoints) : \A from, to : Substring(text, from, to) \in Values \cup {Bad}
<1> SUFFICES ASSUME NEW text \in Seq(CodePoints), NEW from, NEW to, Substring(text, from, to) # Bad
             PROVE  Substring(text, from, to) \in Values
  OBVIOUS
<1> DEFINE k == CHOOSE k \in Boundaries(text, from) : TRUE
           l == CHOOSE l \in Boundaries(text, to) : TRUE
<1>1. /\ Boundaries(text, from) # {} /\ Boundaries(text, to) # {}
      /\ Substring(text, from, to) = String(SubSeq(text, k + 1, l))
  BY DEF Substring
<1>2. k \in Boundaries(text, from) /\ l \in Boundaries(text, to)
  BY <1>1
<1>3. k \in 0 .. Len(text) /\ l \in 0 .. Len(text)
  BY <1>2 DEF Boundaries
<1> HIDE DEF k, l
<1>4. k + 1 \in Nat \ {0} /\ l \in Int /\ l <= Len(text)
  BY <1>3
<1>5. SubSeq(text, k + 1, l) \in Seq(CodePoints)
  BY <1>4, PartOfSeq
<1> QED BY <1>1, <1>5, MadeValues

\* A string's length is an int.
LEMMA UnitsBeforeIsInt == \A text \in Seq(CodePoints) : UnitsBefore(text, Len(text)) \in Int
<1> SUFFICES ASSUME NEW text \in Seq(CodePoints) PROVE UnitsBefore(text, Len(text)) \in Int
  OBVIOUS
<1>1. SubSeq(text, 1, Len(text)) \in Seq(CodePoints)
  BY PartOfSeq
<1> DEFINE part == SubSeq(text, 1, Len(text))
<1> HIDE DEF part
<1>2. Units(part) \in Seq(Nat)
  BY <1>1, UnitsOfText DEF part
<1>3. Len(Units(part)) \in Nat
  BY <1>2
<1> QED BY <1>3 DEF UnitsBefore, part

\* A truth is a value.
LEMMA BoolValue == \A P : P \in BOOLEAN => Bool(P) \in Values
BY MadeValues

\* Every method of String gives a value, or fails.
LEMMA StringVirtualValue ==
    ASSUME NEW name, NEW text \in Seq(CodePoints), NEW args
    PROVE  StringVirtual(name, text, args) \in Values \cup {Bad}
<1> DEFINE string == IF args # <<>> /\ Kind(args[1]) = "string" THEN args[1][2] ELSE <<>>
           first == IntOf(args[1])[2]
           last == IF Len(args) = 1 THEN UnitsBefore(text, Len(text)) ELSE IntOf(args[2])[2]
           given == StringVirtual(name, text, args)
<1>1. \/ given = Bad
      \/ given = Number(UnitsBefore(text, Len(text)))
      \/ given = Bool(text = <<>>)
      \/ given = CharAt(text, first)
      \/ given = Bool(args[1] = String(text))
      \/ given = Number(HashCode(text))
      \/ given = String(text)
      \/ given = Bool(IsPrefix(string, text))
      \/ given = Bool(IsSuffix(string, text))
      \/ given = Bool(string = <<>> \/ string \in Windows(text, Len(string)))
      \/ given = Substring(text, first, last)
  BY ZenonT(30) DEF StringVirtual
<1>2. /\ (text = <<>>) \in BOOLEAN /\ (args[1] = String(text)) \in BOOLEAN
      /\ (string = <<>> \/ string \in Windows(text, Len(string))) \in BOOLEAN
  OBVIOUS
<1>3. IsPrefix(string, text) \in BOOLEAN /\ IsSuffix(string, text) \in BOOLEAN
  BY DEF IsPrefix, IsSuffix
<1>4. Number(UnitsBefore(text, Len(text))) \in Values /\ Number(HashCode(text)) \in Values
  BY UnitsBeforeIsInt, HashesAreInts, MadeValues
<1>5. CharAt(text, first) \in Values \cup {Bad} /\ Substring(text, first, last) \in Values \cup {Bad}
  BY CharAtValue, SubstringValue
<1>6. String(text) \in Values
  BY MadeValues
<1> HIDE DEF given, string, first, last
<1>7. /\ Bool(text = <<>>) \in Values /\ Bool(args[1] = String(text)) \in Values
      /\ Bool(string = <<>> \/ string \in Windows(text, Len(string))) \in Values
      /\ Bool(IsPrefix(string, text)) \in Values /\ Bool(IsSuffix(string, text)) \in Values
  BY <1>2, <1>3, BoolValue
<1>8. given \in Values \cup {Bad}
  BY <1>1, <1>4, <1>5, <1>6, <1>7
<1> QED BY <1>8 DEF given

\* Every method of Object and of arrays gives a value, or fails.
LEMMA ObjectVirtualValue ==
    ASSUME heap \in Seq(ToSet(heap)), NEW name, NEW v \in Values, NEW args
    PROVE  ObjectVirtual(name, v, args) \in Values \cup {Bad}
<1> DEFINE given == ObjectVirtual(name, v, args)
<1>1. \/ given = Bad
      \/ given = Bool(RefEquals(v, args[1]))
      \/ Kind(v) \in {"object", "array"} /\ given = Number(v[2])
      \/ Kind(v) \in {"object", "array"} /\ given = String(Identified(v[2]))
  BY DEF ObjectVirtual
<1>2. Kind(v) \in {"object", "array"} => v[2] \in Int
  BY ValueOfKind DEF Objects, Arrays
<1>3. RefEquals(v, args[1]) \in BOOLEAN
  BY DEF RefEquals
<1> HIDE DEF given
<1>4. Bool(RefEquals(v, args[1])) \in Values
  BY <1>3, BoolValue
<1>5. Kind(v) \in {"object", "array"} => Number(v[2]) \in Values /\ String(Identified(v[2])) \in Values
  BY <1>2, MadeValues, DecimalsAreTexts
<1>6. given \in Values \cup {Bad}
  BY <1>1, <1>4, <1>5
<1> QED BY <1>6 DEF given

\* idiv of ints is an int.
LEMMA QuotientIsInt == \A a \in Int, b \in Int \ {0} : Quotient(a, b) \in Int
<1> SUFFICES ASSUME NEW a \in Int, NEW b \in Int \ {0} PROVE Quotient(a, b) \in Int
  OBVIOUS
<1>1. Abs(a) \in Nat /\ Abs(b) \in Nat \ {0}
  BY DEF Abs
<1>2. Abs(a) \div Abs(b) \in Int
  BY <1>1
<1> DEFINE q == Abs(a) \div Abs(b)
<1> HIDE DEF q
<1>3. Sign(a) \in {1, -1} /\ Sign(b) \in {1, -1} /\ q \in Int
  BY <1>2 DEF Sign, q
<1>4. Sign(a) * Sign(b) \in {1, -1}
  BY <1>3
<1>5. Sign(a) * Sign(b) * q \in {q, -q}
  BY <1>3, <1>4
<1>6. Sign(a) * Sign(b) * q \in Int
  BY <1>3, <1>5
<1> QED BY <1>6 DEF Quotient, q

-----------------------------------------------------------------------------
(* The inductive invariant. *)

MethodNames == UNION {DOMAIN Classes[c].methods : c \in DOMAIN Classes}
FieldNames == UNION {DOMAIN Classes[c].fields : c \in DOMAIN Classes}

\* An object has no type of element, and an array that of the instruction that made it.
TypesIn(code) == {code[i].type : i \in DOMAIN code}
CodeTypes(class) == UNION {TypesIn(class.methods[m].code) : m \in DOMAIN class.methods}
ElementTypes == {VoidType} \cup UNION {CodeTypes(Classes[c]) : c \in DOMAIN Classes}

\* What the frames, the heap and the statics are made of.
Maps(D) == UNION {[E -> Values] : E \in SUBSET D}
Frames ==
    [class : DOMAIN Classes, method : MethodNames, pc : Nat, steps : 0 .. MaxSteps,
     stack : Seq(Values), locals : Maps(Nat)]
Things ==
    [class : DOMAIN Classes \cup {ArrayClass}, type : ElementTypes, cells : Maps(Nat \cup FieldNames)]

Running(f) == f \in Frames /\ f.method \in DOMAIN Classes[f.class].methods
Shaped(thing) ==
    /\ thing \in Things /\ IsFiniteSet(DOMAIN thing.cells)
    /\ Own(thing.class) => DOMAIN thing.cells \subseteq FieldsOf(thing.class, FALSE)

\* A method that called another was not at its limit, and whoever initializes a class runs.
FramesShaped ==
    /\ frames \in Seq(Frames) /\ Len(frames) <= MaxDepth
    /\ \A k \in DOMAIN frames : Running(frames[k])
    /\ \A k \in DOMAIN frames : k # Len(frames) => frames[k].steps < MaxSteps
InitializersRun ==
    \A c \in initializing : \E k \in DOMAIN frames :
      frames[k].class = c /\ frames[k].method = "<clinit>"
ClassesShaped ==
    /\ initialized \cup initializing \subseteq DOMAIN Classes
    /\ initialized \cap initializing = {}
HeapShaped == heap \in Seq(Things) /\ \A a \in DOMAIN heap : Shaped(heap[a])
StaticsShaped == statics \in Maps(StaticFields)
OutcomeShaped ==
    /\ verdict \in {"running", "compiled", "refused"}
    /\ reason \in IF verdict = "refused" THEN {"limit", "value", "opcode"} ELSE {""}

Shape ==
    /\ IsProgram(program)
    /\ OutcomeShaped /\ ClassesShaped /\ InitializersRun
    /\ FramesShaped /\ HeapShaped /\ StaticsShaped
    /\ BinaryIsTheRun

\* Memory only grows: what a value refers to stays what it is.
Grows ==
    /\ program' = program
    /\ DOMAIN heap \subseteq DOMAIN heap'
    /\ \A a \in DOMAIN heap : heap'[a].class = heap[a].class /\ heap'[a].type = heap[a].type

\* When memory grows, what was a value is one.
LEMMA GrownValues ==
    ASSUME Grows PROVE Values \subseteq Values'
<1>1. Objects \subseteq Objects' /\ Arrays \subseteq Arrays'
  BY DEF Grows, Objects, Arrays, Own, Classes
<1>2. Null' = Null /\ SystemOut' = SystemOut /\ CodePoints' = CodePoints /\ Numbers' = Numbers
  BY DEF Null, SystemOut, CodePoints, Surrogates, Numbers
<1> SUFFICES ASSUME NEW v \in Values PROVE v \in Values'
  OBVIOUS
<1> QED BY <1>1, <1>2 DEF Values

\* When memory grows, locals and cells are still made of values.
LEMMA GrownMaps ==
    ASSUME Grows, NEW D PROVE Maps(D) \subseteq UNION {[E -> Values'] : E \in SUBSET D}
<1> SUFFICES ASSUME NEW m \in Maps(D) PROVE m \in UNION {[E -> Values'] : E \in SUBSET D}
  OBVIOUS
<1>1. PICK E \in SUBSET D : m \in [E -> Values]
  BY DEF Maps
<1>2. m \in [E -> Values']
  BY <1>1, GrownValues
<1> QED BY <1>2

\* When memory grows, a frame is still one.
LEMMA GrownFrames ==
    ASSUME Grows
    PROVE  /\ Frames \subseteq Frames'
           /\ \A f : Running(f) => Running(f)'
<1>1. Frames \subseteq Frames'
  <2>1. Maps(Nat) \subseteq Maps(Nat)' /\ Values \subseteq Values'
    BY GrownMaps, GrownValues DEF Maps
  <2>2. Seq(Values) \subseteq Seq(Values')
    BY <2>1
  <2>3. Classes' = Classes /\ MethodNames' = MethodNames
    BY DEF Grows, Classes, MethodNames
  <2> HIDE DEF Maps, Values, MethodNames, Classes
  <2> SUFFICES ASSUME NEW f \in Frames PROVE f \in Frames'
    OBVIOUS
  <2> QED BY <2>1, <2>2, <2>3 DEF Frames
<1> QED BY <1>1 DEF Running, Grows, Classes

\* When memory grows, an object or an array is still one.
LEMMA GrownThings ==
    ASSUME Grows
    PROVE  /\ Things \subseteq Things'
           /\ \A thing : Shaped(thing) => Shaped(thing)'
<1>1. Things \subseteq Things'
  <2>1. Maps(Nat \cup FieldNames) \subseteq Maps(Nat \cup FieldNames)'
    <3>1. FieldNames' = FieldNames
      BY DEF Grows, Classes, FieldNames
    <3>2. Maps(Nat \cup FieldNames) \subseteq UNION {[E -> Values'] : E \in SUBSET (Nat \cup FieldNames)}
      BY GrownMaps
    <3>3. Maps(Nat \cup FieldNames)' = UNION {[E -> Values'] : E \in SUBSET (Nat \cup FieldNames)}
      BY <3>1 DEF Maps
    <3> QED BY <3>2, <3>3
  <2>2. Classes' = Classes /\ ElementTypes' = ElementTypes
    BY DEF Grows, Classes, ElementTypes
  <2> HIDE DEF Maps, ElementTypes
  <2> SUFFICES ASSUME NEW thing \in Things PROVE thing \in Things'
    OBVIOUS
  <2> QED BY <2>1, <2>2 DEF Things
<1> QED BY <1>1 DEF Shaped, Grows, Classes, Own, FieldsOf

-----------------------------------------------------------------------------
(* What an instruction finds. *)

\* The method that runs.
LEMMA TopFrame ==
    ASSUME Shape, frames # <<>>
    PROVE  /\ Len(frames) \in Nat \ {0} /\ Len(frames) \in DOMAIN frames
           /\ Top = frames[Len(frames)] /\ Top \in Frames /\ Running(Top)
<1>1. frames \in Seq(Frames) /\ \A k \in DOMAIN frames : Running(frames[k])
  BY DEF Shape, FramesShaped
<1> HIDE DEF Frames
<1>2. Len(frames) \in Nat \ {0} /\ Len(frames) \in DOMAIN frames
  BY <1>1
<1>3. Top = frames[Len(frames)]
  BY DEF Top, Last
<1> QED BY <1>1, <1>2, <1>3

\* What the frame of the method that runs is made of.
LEMMA TopFields ==
    ASSUME Shape, frames # <<>>
    PROVE  /\ Top.class \in DOMAIN Classes /\ Top.method \in DOMAIN Classes[Top.class].methods
           /\ Top.method \in MethodNames
           /\ Top.pc \in Nat /\ Top.steps \in 0 .. MaxSteps
           /\ Top.stack \in Seq(Values) /\ Top.locals \in Maps(Nat)
<1> HIDE DEF Top, Classes, MethodNames, Values, Maps
<1>1. Top \in Frames /\ Running(Top)
  BY TopFrame
<1> QED BY <1>1 DEF Frames, Running

\* What is popped is a value, or the stack was empty; likewise a local.
LEMMA Popping ==
    ASSUME Shape, frames # <<>>
    PROVE  /\ \A k \in Nat \ {0} : Arg(k) \in Values \cup {Bad}
           /\ \A n : Local(n) \in Values \cup {Bad}
           /\ \A k \in Nat : Popped(k) \in Seq(Values)
<1> DEFINE stack == Top.stack
<1>1. stack \in Seq(Values)
  BY TopFields
<1> HIDE DEF Values
<1>2. \A k \in Nat \ {0} : Arg(k) \in Values \cup {Bad}
  <2> SUFFICES ASSUME NEW k \in Nat \ {0} PROVE Arg(k) \in Values \cup {Bad}
    OBVIOUS
  <2>1. Arg(k) = IF k <= Len(stack) THEN stack[Len(stack) + 1 - k] ELSE Bad
    BY DEF Arg
  <2> HIDE DEF stack
  <2> QED BY <1>1, <2>1
<1>3. \A n : Local(n) \in Values \cup {Bad}
  <2>1. PICK E \in SUBSET Nat : Top.locals \in [E -> Values]
    BY TopFields DEF Maps
  <2> QED BY <2>1 DEF Local
<1>4. \A k \in Nat : Popped(k) \in Seq(Values)
  <2> SUFFICES ASSUME NEW k \in Nat PROVE Popped(k) \in Seq(Values)
    OBVIOUS
  <2>1. Popped(k) = SubSeq(stack, 1, Len(stack) - k)
    BY DEF Popped
  <2> HIDE DEF stack
  <2>2. Len(stack) - k \in Int /\ Len(stack) - k <= Len(stack)
    BY <1>1
  <2> QED BY <1>1, <2>1, <2>2, PartOfSeq
<1> QED BY <1>2, <1>3, <1>4

\* The instruction that is executed is one of a program that was accepted.
LEMMA Instruction ==
    ASSUME Shape, frames # <<>>, J.op # "end"
    PROVE  IsInstruction(Classes, J)
<1>1. Top.class \in DOMAIN Classes /\ Top.method \in DOMAIN Classes[Top.class].methods
  BY TopFields
<1>2. IsClass(Classes, Classes[Top.class])
  BY <1>1 DEF Shape, IsProgram, Classes
<1>3. J = Code[Top.pc] /\ Top.pc \in DOMAIN Code
  BY DEF J
<1> QED BY <1>1, <1>2, <1>3 DEF IsClass, Code, MethodOf

\* The type an instruction names is one of the program's.
LEMMA InstructionType ==
    ASSUME Shape, frames # <<>>, J.op # "end"
    PROVE  J.type \in ElementTypes
<1>1. Top.class \in DOMAIN Classes /\ Top.method \in DOMAIN Classes[Top.class].methods
  BY TopFields
<1>2. J = Code[Top.pc] /\ Top.pc \in DOMAIN Code
  BY DEF J
<1>3. J.type \in TypesIn(Code)
  BY <1>2 DEF TypesIn
<1>4. J.type \in CodeTypes(Classes[Top.class])
  BY <1>1, <1>3 DEF CodeTypes, Code, MethodOf
<1> QED BY <1>1, <1>4 DEF ElementTypes

\* The methods that run go on.
SameMethods ==
    /\ DOMAIN frames \subseteq DOMAIN frames'
    /\ \A k \in DOMAIN frames :
         frames'[k].class = frames[k].class /\ frames'[k].method = frames[k].method

\* The top frame is moved on.
LEMMA Moved ==
    ASSUME Shape, frames # <<>>, Grows,
           NEW f, f \in Frames', f.class = Top.class, f.method = Top.method, frames' = WithTop(f)
    PROVE  FramesShaped' /\ SameMethods /\ Len(frames') = Len(frames)
<1> DEFINE n == Len(frames)
<1>1. /\ n \in Nat \ {0} /\ n \in DOMAIN frames /\ frames[n] = Top
      /\ frames \in Seq(Frames) /\ n <= MaxDepth
      /\ \A k \in DOMAIN frames : Running(frames[k])
      /\ \A k \in DOMAIN frames : k # n => frames[k].steps < MaxSteps
  BY TopFrame DEF Shape, FramesShaped
<1>2. Frames \subseteq Frames' /\ \A g : Running(g) => Running(g)'
  BY GrownFrames
<1>3. (Running(f))'
  <2>1. Top.method \in DOMAIN Classes[Top.class].methods /\ Classes' = Classes
    BY TopFields DEF Grows, Classes
  <2> QED BY <2>1 DEF Running
<1> HIDE DEF Frames, Running, Top
<1>4. frames' = [frames EXCEPT ![n] = f] /\ DOMAIN frames = 1 .. n
  BY <1>1 DEF WithTop
<1>5. DOMAIN frames' = 1 .. n /\ frames'[n] = f /\ \A k \in 1 .. n : k # n => frames'[k] = frames[k]
  BY <1>1, <1>4
<1>6. frames' \in Seq(Frames') /\ Len(frames') = n
  BY <1>1, <1>2, <1>4
<1>7. \A k \in DOMAIN frames' : frames'[k] \in Frames' /\ frames'[k].method \in DOMAIN Classes'[frames'[k].class].methods
  BY <1>1, <1>2, <1>3, <1>4, <1>5 DEF Running
<1>8. \A k \in DOMAIN frames' : k # Len(frames') => frames'[k].steps < MaxSteps
  BY <1>1, <1>4, <1>5, <1>6
<1> HIDE DEF n
<1>9. FramesShaped'
  BY <1>1, <1>6, <1>7, <1>8 DEF FramesShaped, Running
<1>10. SameMethods
  BY <1>1, <1>4, <1>5 DEF SameMethods
<1> QED BY <1>6, <1>9, <1>10 DEF n

\* A frame that moves on, with another stack.
LEMMA Refitted ==
    ASSUME NEW C, NEW M, NEW N \in Nat, NEW S, NEW L,
           NEW f \in [class : C, method : M, pc : Nat, steps : 0 .. N, stack : S, locals : L],
           NEW pc \in Nat, NEW stack \in S, NEW locals \in L
    PROVE  LET g == [f EXCEPT !.pc = pc, !.stack = stack, !.locals = locals] IN
           /\ g \in [class : C, method : M, pc : Nat, steps : 0 .. N, stack : S, locals : L]
           /\ g.class = f.class /\ g.method = f.method /\ g.steps = f.steps
           /\ g.stack = stack
OBVIOUS

\* A frame with one more step, below the limit.
LEMMA CountedAgain ==
    ASSUME NEW C, NEW M, NEW N \in Nat, NEW S, NEW L,
           NEW f \in [class : C, method : M, pc : Nat, steps : 0 .. N, stack : S, locals : L],
           f.steps < N
    PROVE  LET g == [f EXCEPT !.steps = f.steps + 1] IN
           /\ g \in [class : C, method : M, pc : Nat, steps : 0 .. N, stack : S, locals : L]
           /\ g.class = f.class /\ g.method = f.method
OBVIOUS

\* A frame whose program counter and stack are others.
LEMMA Frame ==
    ASSUME Shape, frames # <<>>, Top.steps < MaxSteps, Grows,
           NEW pc \in Nat, NEW stack \in Seq(Values'), NEW locals \in Maps(Nat)',
           frames' = WithTop(Counted([Top EXCEPT !.pc = pc, !.stack = stack, !.locals = locals]))
    PROVE  FramesShaped' /\ SameMethods /\ Len(frames') = Len(frames)
<1> DEFINE g == [Top EXCEPT !.pc = pc, !.stack = stack, !.locals = locals]
           f == Counted(g)
<1>1. Top \in Frames' /\ MaxSteps \in Nat
  BY TopFrame, GrownFrames, LimitsAssumption
<1>2. g \in Frames' /\ g.class = Top.class /\ g.method = Top.method /\ g.steps < MaxSteps
  <2> HIDE DEF Top, Values, Maps, MethodNames, Classes
  <2> QED BY <1>1, Refitted DEF Frames
<1> HIDE DEF g
<1>3. f.class = Top.class /\ f.method = Top.method /\ f \in Frames'
  <2> HIDE DEF Top, Values, Maps, MethodNames, Classes
  <2> QED BY <1>1, <1>2, CountedAgain DEF Frames, Counted
<1>4. frames' = WithTop(f)
  BY DEF f, g
<1> HIDE DEF f, Frames
<1> QED BY <1>3, <1>4, Moved

\* Go pushes values and leaves frames as they should be.
LEMMA Going ==
    ASSUME Shape, frames # <<>>, Top.steps < MaxSteps, Grows,
           NEW k \in Nat, NEW pushed, pushed \in Seq(Values'), Go(k, pushed)
    PROVE  FramesShaped' /\ SameMethods /\ Len(frames') = Len(frames)
<1> DEFINE stack == Popped(k) \o pushed
<1>1. Top \in Frames
  BY TopFrame
<1>2. Top.locals \in Maps(Nat)' /\ Top.pc + 1 \in Nat
  <2>1. Top \in Frames'
    BY <1>1, GrownFrames
  <2> HIDE DEF Top, Values, Maps, MethodNames, Classes
  <2> QED BY <1>1, <2>1 DEF Frames
<1>3. stack \in Seq(Values')
  <2>1. Popped(k) \in Seq(Values)
    BY Popping
  <2>2. Popped(k) \in Seq(Values')
    BY <2>1, GrownValues
  <2> QED BY <2>2
<1>4. frames' = WithTop(Counted([Top EXCEPT !.pc = Top.pc + 1, !.stack = stack, !.locals = Top.locals]))
  <2>1. [Top EXCEPT !.pc = Top.pc + 1, !.stack = stack, !.locals = Top.locals]
          = [Top EXCEPT !.pc = @ + 1, !.stack = stack]
    <3> HIDE DEF stack, Top, Values, Maps, MethodNames, Classes
    <3> QED BY <1>1 DEF Frames
  <2> QED BY <2>1 DEF Go
<1> HIDE DEF stack
<1> QED BY <1>2, <1>3, <1>4, Frame

-----------------------------------------------------------------------------
(* Steps keep the invariant. *)

\* An instruction is carried out.
Executes == verdict = "running" /\ frames # <<>> /\ Top.steps < MaxSteps

\* Nothing but frames, statics and the heap is touched.
Quietly == Steady /\ UNCHANGED <<initialized, initializing>>

\* What an instruction that runs has to show.
LEMMA Kept ==
    ASSUME Shape, verdict = "running", Grows, Quietly,
           FramesShaped', SameMethods, HeapShaped', StaticsShaped'
    PROVE  Shape'
<1>1. (IsProgram(program))' /\ ClassesShaped' /\ OutcomeShaped'
  BY DEF Shape, ClassesShaped, OutcomeShaped, Quietly, Steady, Grows, Classes, IsProgram, IsClass
<1>2. InitializersRun'
  <2> SUFFICES ASSUME NEW c \in initializing
               PROVE  \E k \in DOMAIN frames' : frames'[k].class = c /\ frames'[k].method = "<clinit>"
    BY DEF InitializersRun, Quietly
  <2>1. PICK k \in DOMAIN frames : frames[k].class = c /\ frames[k].method = "<clinit>"
    BY DEF Shape, InitializersRun
  <2> QED BY <2>1 DEF SameMethods
<1>3. BinaryIsTheRun'
  BY DEF BinaryIsTheRun, Quietly, Steady
<1> QED BY <1>1, <1>2, <1>3 DEF Shape

\* An instruction that writes nothing.
LEMMA SameMemory ==
    ASSUME Shape, program' = program, UNCHANGED <<statics, heap>>
    PROVE  Grows /\ HeapShaped' /\ StaticsShaped'
<1>1. Grows
  BY DEF Grows
<1>2. HeapShaped'
  BY <1>1, GrownThings DEF Shape, HeapShaped
<1>3. StaticsShaped'
  <2>1. StaticFields' = StaticFields
    BY DEF StaticFields, FieldsOf, Classes
  <2>2. Values' = Values
    BY DEF Values, Objects, Arrays, Own, Classes, Numbers, CodePoints, Surrogates, Null, SystemOut
  <2> HIDE DEF Values, StaticFields
  <2> QED BY <2>1, <2>2 DEF Shape, StaticsShaped, Maps
<1> QED BY <1>1, <1>2, <1>3

\* A refusal keeps the shape of everything.
LEMMA Refused ==
    ASSUME Shape, verdict = "running", NEW why \in {"limit", "value", "opcode"}, Refuse(why)
    PROVE  Shape'
<1>1. Grows /\ HeapShaped' /\ StaticsShaped'
  BY SameMemory DEF Refuse, memory
<1>2. (IsProgram(program))' /\ ClassesShaped' /\ OutcomeShaped'
  BY DEF Shape, ClassesShaped, OutcomeShaped, Refuse, memory, Classes, IsProgram, IsClass
<1>3. FramesShaped'
  <2>1. frames' = frames /\ Classes' = Classes
    BY DEF Refuse, Classes
  <2>2. Frames \subseteq Frames' /\ \A f : Running(f) => Running(f)'
    BY <1>1, GrownFrames
  <2> HIDE DEF Frames
  <2>3. frames' \in Seq(Frames')
    BY <2>1, <2>2 DEF Shape, FramesShaped
  <2> QED BY <2>1, <2>2, <2>3 DEF Shape, FramesShaped, Running
<1>4. InitializersRun'
  BY DEF Shape, InitializersRun, Refuse, memory
<1>5. BinaryIsTheRun'
  BY DEF BinaryIsTheRun, Refuse
<1> QED BY <1>1, <1>2, <1>3, <1>4, <1>5 DEF Shape

\* An instruction that gives a value, or fails.
LEMMA Given1 ==
    ASSUME Shape, Executes, NEW k \in Nat, NEW v \in Values \cup {Bad}, Gives(k, v)
    PROVE  Shape'
<1>1. CASE v = Bad
  BY <1>1, Refused DEF Gives, Executes
<1>2. CASE v # Bad
  <2>1. Go(k, <<v>>) /\ Steady /\ UNCHANGED memory
    BY <1>2 DEF Gives
  <2>2. Grows /\ HeapShaped' /\ StaticsShaped' /\ Quietly
    BY <2>1, SameMemory DEF Steady, memory, Quietly
  <2>3. <<v>> \in Seq(Values')
    BY <1>2, <2>2, GrownValues
  <2>4. FramesShaped' /\ SameMethods
    BY <2>1, <2>2, <2>3, Going DEF Executes
  <2> QED BY <2>2, <2>4, Kept DEF Executes
<1> QED BY <1>1, <1>2

\* The next instruction follows, and nothing is made.
LEMMA Passed ==
    ASSUME Shape, Executes, NEW k \in Nat, Go(k, <<>>), Steady, UNCHANGED <<statics, heap, initialized, initializing>>
    PROVE  Shape'
<1>1. Grows /\ HeapShaped' /\ StaticsShaped' /\ Quietly
  BY SameMemory DEF Steady, Quietly
<1>2. <<>> \in Seq(Values')
  OBVIOUS
<1>3. FramesShaped' /\ SameMethods
  BY <1>1, <1>2, Going DEF Executes
<1> QED BY <1>1, <1>3, Kept DEF Executes

\* A value put in a local or a cell.
LEMMA PutMaps ==
    ASSUME NEW D, NEW m \in Maps(D), NEW x \in D, NEW v \in Values
    PROVE  /\ Put(m, x, v) \in Maps(D) /\ DOMAIN Put(m, x, v) = DOMAIN m \cup {x}
           /\ Put(m, x, v)[x] = v /\ \A y \in DOMAIN m : y # x => Put(m, x, v)[y] = m[y]
<1>1. PICK E \in SUBSET D : m \in [E -> Values]
  BY DEF Maps
<1>2. Put(m, x, v) \in [E \cup {x} -> Values]
  BY <1>1 DEF Put
<1>3. E \cup {x} \in SUBSET D
  OBVIOUS
<1>4. Put(m, x, v) \in Maps(D)
  BY <1>2, <1>3 DEF Maps
<1> QED BY <1>1, <1>4 DEF Put

\* store_local keeps the shape of everything.
LEMMA StoredLocal ==
    ASSUME Shape, Executes, NEW k \in Nat, NEW v \in Values \cup {Bad}, J.n \in Nat, StoreLocal(k, v)
    PROVE  Shape'
<1>1. CASE v = Bad
  BY <1>1, Refused DEF StoreLocal, Executes
<1>2. CASE v # Bad
  <2> DEFINE locals == Put(Top.locals, J.n, v)
  <2>1. /\ frames' = WithTop(Counted([Top EXCEPT !.pc = @ + 1, !.stack = Popped(k), !.locals = Put(@, J.n, v)]))
        /\ Steady /\ UNCHANGED memory
    BY <1>2 DEF StoreLocal
  <2>2. Grows /\ HeapShaped' /\ StaticsShaped' /\ Quietly
    BY <2>1, SameMemory DEF Steady, memory, Quietly
  <2>3. Top \in Frames /\ Top.locals \in Maps(Nat) /\ Top.pc + 1 \in Nat
    BY TopFrame, TopFields DEF Executes
  <2>4. locals \in Maps(Nat)'
    <3>1. locals \in Maps(Nat)
      BY <1>2, <2>3, PutMaps
    <3> HIDE DEF locals
    <3> QED BY <2>2, <3>1, GrownMaps DEF Maps
  <2>5. Popped(k) \in Seq(Values')
    <3>1. Popped(k) \in Seq(Values)
      BY Popping DEF Executes
    <3> QED BY <3>1, <2>2, GrownValues
  <2>6. [Top EXCEPT !.pc = @ + 1, !.stack = Popped(k), !.locals = Put(@, J.n, v)]
          = [Top EXCEPT !.pc = Top.pc + 1, !.stack = Popped(k), !.locals = locals]
    <3> HIDE DEF Values, Maps, MethodNames, Classes, Top, J, Popped, Put
    <3> QED BY <2>3 DEF Frames
  <2>7. frames' = WithTop(Counted([Top EXCEPT !.pc = Top.pc + 1, !.stack = Popped(k), !.locals = locals]))
    BY <2>1, <2>6
  <2>8. FramesShaped' /\ SameMethods
    <3> DEFINE stack == Popped(k)
               pc == Top.pc + 1
    <3>1. stack \in Seq(Values') /\ pc \in Nat
      BY <2>3, <2>5
    <3>2. frames' = WithTop(Counted([Top EXCEPT !.pc = pc, !.stack = stack, !.locals = locals]))
      BY <2>7
    <3> HIDE DEF stack, pc, locals
    <3> QED BY <2>2, <2>4, <3>1, <3>2, Frame DEF Executes
  <2> QED BY <2>2, <2>8, Kept DEF Executes
<1> QED BY <1>1, <1>2

\* What is so whenever an instruction is executed.
LEMMA AtExecutes ==
    ASSUME NEW ops, At(ops) PROVE Executes /\ J.op \in ops
BY DEF At, Executes

\* Constants, locals and the stack.
LEMMA LocalsKeep ==
    ASSUME Shape, EvalLocals PROVE Shape'
<1>1. CASE At({"const"}) /\ Gives(0, CASE J.type = IntType -> Number(J.n)
                                     [] J.type = NullType -> Null
                                     [] OTHER -> String(J.text))
  <2> DEFINE v == CASE J.type = IntType -> Number(J.n)
                    [] J.type = NullType -> Null
                    [] OTHER -> String(J.text)
  <2>1. Executes /\ J.op = "const"
    BY <1>1, AtExecutes
  <2>2. /\ J.type = IntType => J.n \in Int
        /\ J.type \notin {IntType, NullType} => J.text \in Seq(CodePoints)
    BY <2>1, Instruction DEF IsInstruction, Executes
  <2>3. v \in Values
    BY <2>2, MadeValues
  <2>4. Gives(0, v)
    BY <1>1
  <2> HIDE DEF v
  <2> QED BY <2>1, <2>3, <2>4, Given1
<1>2. CASE At({"load"}) /\ Gives(0, Local(J.n))
  <2>1. Executes
    BY <1>2, AtExecutes
  <2>2. Local(J.n) \in Values \cup {Bad}
    BY <2>1, Popping DEF Executes
  <2> QED BY <1>2, <2>1, <2>2, Given1
<1>3. CASE At({"store"}) /\ StoreLocal(1, Arg(1))
  <2>1. Executes /\ J.op = "store"
    BY <1>3, AtExecutes
  <2>2. J.n \in Nat /\ Arg(1) \in Values \cup {Bad}
    BY <2>1, Instruction, Popping DEF IsInstruction, Executes
  <2> QED BY <1>3, <2>1, <2>2, StoredLocal
<1>4. CASE /\ At({"iinc"})
           /\ LET int == IntOf(Local(J.n)) IN
              StoreLocal(0, IF int = Bad THEN Bad ELSE Number(Wrap(int[2] + J.by)))
  <2> DEFINE int == IntOf(Local(J.n))
             v == IF int = Bad THEN Bad ELSE Number(Wrap(int[2] + J.by))
  <2>1. Executes /\ J.op = "iinc"
    BY <1>4, AtExecutes
  <2>2. J.n \in Nat /\ J.by \in Int
    BY <2>1, Instruction DEF IsInstruction, Executes
  <2>3. int = Bad \/ int[2] \in Int
    <3>1. Local(J.n) \in Values \cup {Bad}
      BY <2>1, Popping DEF Executes
    <3> QED BY <3>1, IntOfValues
  <2>4. StoreLocal(0, v)
    BY <1>4
  <2>5. v \in Values \cup {Bad}
    <3> HIDE DEF int
    <3>1. CASE int = Bad
      BY <3>1
    <3>2. CASE int # Bad
      <4> DEFINE n == Wrap(int[2] + J.by)
      <4>1. int[2] + J.by \in Int
        BY <2>2, <2>3, <3>2
      <4>2. n \in Int
        BY <4>1, Wrapped
      <4> HIDE DEF n
      <4>3. Number(n) \in Values
        BY <4>2, MadeValues
      <4> QED BY <3>2, <4>3 DEF n
    <3> QED BY <3>1, <3>2
  <2> HIDE DEF v
  <2> QED BY <2>1, <2>2, <2>4, <2>5, StoredLocal
<1>5. CASE At({"pop"}) /\ IF Arg(1) = Bad THEN Refuse("value") ELSE Go(1, <<>>) /\ Steady /\ UNCHANGED memory
  BY <1>5, AtExecutes, Refused, Passed DEF memory, Executes
<1>6. CASE At({"dup"}) /\ Gives(0, Arg(1))
  <2>1. Executes
    BY <1>6, AtExecutes
  <2>2. Arg(1) \in Values \cup {Bad}
    BY <2>1, Popping DEF Executes
  <2> QED BY <1>6, <2>1, <2>2, Given1
<1>7. CASE At({"nop"}) /\ Go(0, <<>>) /\ Steady /\ UNCHANGED memory
  BY <1>7, AtExecutes, Passed DEF memory
<1> QED BY <1>1, <1>2, <1>3, <1>4, <1>5, <1>6, <1>7 DEF EvalLocals

\* pop_int gives an int.
LEMMA IntPopped ==
    ASSUME Shape, Executes, NEW k \in Nat \ {0}, IntOf(Arg(k)) # Bad
    PROVE  IntOf(Arg(k))[2] \in Int
<1>1. Arg(k) \in Values \cup {Bad}
  BY Popping DEF Executes
<1> QED BY <1>1, IntOfValues

\* Arithmetic and conversions of ints.
LEMMA ArithmeticKeeps ==
    ASSUME Shape, EvalArithmetic PROVE Shape'
<1>1. CASE /\ At({"iadd", "isub", "imul", "idiv", "irem"})
           /\ LET b == IntOf(Arg(1))[2]  a == IntOf(Arg(2))[2] IN
              Gives(2, IF ~Ints(2) THEN Bad ELSE
                       CASE J.op = "iadd" -> Number(Wrap(a + b))
                         [] J.op = "isub" -> Number(Wrap(a - b))
                         [] J.op = "imul" -> Number(Wrap(a * b))
                         [] J.op = "idiv" -> DivInt(a, b)
                         [] J.op = "irem" -> RemInt(a, b))
  <2> DEFINE b == IntOf(Arg(1))[2]
             a == IntOf(Arg(2))[2]
             computed == CASE J.op = "iadd" -> Number(Wrap(a + b))
                           [] J.op = "isub" -> Number(Wrap(a - b))
                           [] J.op = "imul" -> Number(Wrap(a * b))
                           [] J.op = "idiv" -> DivInt(a, b)
                           [] J.op = "irem" -> RemInt(a, b)
             v == IF ~Ints(2) THEN Bad ELSE computed
  <2>1. Executes /\ J.op \in {"iadd", "isub", "imul", "idiv", "irem"}
    BY <1>1, AtExecutes
  <2>2. Gives(2, v)
    BY <1>1
  <2>3. Ints(2) => computed \in Values \cup {Bad}
    <3> SUFFICES ASSUME Ints(2) PROVE computed \in Values \cup {Bad}
      OBVIOUS
    <3>1. a \in Int /\ b \in Int
      BY <2>1, IntPopped DEF Ints
    <3> HIDE DEF a, b
    <3>2. a + b \in Int /\ a - b \in Int /\ a * b \in Int
      BY <3>1
    <3>3. DivInt(a, b) \in Values \cup {Bad}
      BY <3>1, QuotientIsInt, Wrapped, MadeValues DEF DivInt
    <3>4. RemInt(a, b) \in Values \cup {Bad}
      <4>1. CASE b = 0
        BY <4>1 DEF RemInt
      <4>2. CASE b # 0
        <5>1. Quotient(a, b) \in Int
          BY <3>1, <4>2, QuotientIsInt
        <5>2. a - b * Quotient(a, b) \in Int /\ 0 \in Int
          BY <3>1, <5>1
        <5>3. Number(a - b * Quotient(a, b)) \in Values /\ Number(0) \in Values
          BY <5>2, MadeValues
        <5> QED BY <4>2, <5>3 DEF RemInt
      <4> QED BY <4>1, <4>2
    <3>5. Number(Wrap(a + b)) \in Values /\ Number(Wrap(a - b)) \in Values /\ Number(Wrap(a * b)) \in Values
      BY <3>2, Wrapped, MadeValues
    <3> QED BY <2>1, <3>3, <3>4, <3>5
  <2>4. v \in Values \cup {Bad}
    <3> HIDE DEF computed
    <3> QED BY <2>3
  <2> HIDE DEF v
  <2> QED BY <2>1, <2>2, <2>4, Given1
<1>2. CASE /\ At(DOMAIN Unary)
           /\ LET a == IntOf(Arg(1))[2] IN
              Gives(1, IF ~Ints(1) THEN Bad ELSE
                       Number(CASE J.op = "ineg" -> Wrap(-a)
                                [] J.op = "i2b" -> Narrow(ByteType, a)
                                [] J.op = "i2s" -> Narrow(ShortType, a)
                                [] J.op = "i2c" -> Narrow(CharType, a)))
  <2> DEFINE a == IntOf(Arg(1))[2]
             n == CASE J.op = "ineg" -> Wrap(-a)
                    [] J.op = "i2b" -> Narrow(ByteType, a)
                    [] J.op = "i2s" -> Narrow(ShortType, a)
                    [] J.op = "i2c" -> Narrow(CharType, a)
             v == IF ~Ints(1) THEN Bad ELSE Number(n)
  <2>1. Executes /\ J.op \in {"ineg", "i2b", "i2s", "i2c"}
    BY <1>2, AtExecutes DEF Unary
  <2>2. Gives(1, v)
    BY <1>2
  <2>3. Ints(1) => n \in Int
    <3> SUFFICES ASSUME Ints(1) PROVE n \in Int
      OBVIOUS
    <3>1. a \in Int
      BY <2>1, IntPopped DEF Ints
    <3> HIDE DEF a
    <3>2. Wrap(-a) \in Int /\ \A type : Narrow(type, a) \in Int
      BY <3>1, Wrapped, NarrowAgain
    <3> QED BY <2>1, <3>2
  <2>4. v \in Values \cup {Bad}
    <3> HIDE DEF n
    <3> QED BY <2>3, MadeValues
  <2> HIDE DEF v
  <2> QED BY <2>1, <2>2, <2>4, Given1
<1> QED BY <1>1, <1>2 DEF EvalArithmetic

\* Branches.
LEMMA BranchKeeps ==
    ASSUME Shape, EvalBranch PROVE Shape'
<1> DEFINE test == IF J.op = "goto" THEN <<"always", "">> ELSE BranchOperands[J.op]
           k == CASE test[1] = "always" -> 0 [] test[1] = "pair" -> 2 [] OTHER -> 1
<1>1. Executes /\ J.op \in {"goto"} \cup Conditional
  BY AtExecutes DEF EvalBranch
<1>2. J.to[1] \in Nat
  BY <1>1, Instruction DEF IsInstruction, Executes, Conditional, BranchOperands
<1>3. k \in Nat
  <2> HIDE DEF test
  <2> QED OBVIOUS
<1>4. \/ Refuse("value")
      \/ /\ \E takes : frames' = WithTop(Counted([Top EXCEPT !.pc = IF takes THEN J.to[1] ELSE @ + 1,
                                                            !.stack = Popped(k)]))
         /\ Steady /\ UNCHANGED memory
  BY DEF EvalBranch
<1> HIDE DEF k
<1>5. CASE Refuse("value")
  BY <1>1, <1>5, Refused DEF Executes
<1>6. ASSUME NEW takes,
             frames' = WithTop(Counted([Top EXCEPT !.pc = IF takes THEN J.to[1] ELSE @ + 1,
                                                   !.stack = Popped(k)])),
             Steady, UNCHANGED memory
      PROVE  Shape'
  <2> DEFINE pc == IF takes THEN J.to[1] ELSE Top.pc + 1
             stack == Popped(k)
             locals == Top.locals
  <2>1. Grows /\ HeapShaped' /\ StaticsShaped' /\ Quietly
    BY <1>6, SameMemory DEF Steady, memory, Quietly
  <2>2. Top \in Frames /\ Top \in Frames'
    BY <1>1, <2>1, TopFrame, GrownFrames DEF Executes
  <2>3. pc \in Nat /\ locals \in Maps(Nat)'
    <3> HIDE DEF Top, Values, Maps, MethodNames, Classes
    <3> QED BY <1>2, <2>2 DEF Frames
  <2>4. stack \in Seq(Values')
    <3>1. stack \in Seq(Values)
      BY <1>1, <1>3, Popping DEF Executes
    <3> HIDE DEF stack
    <3> QED BY <3>1, <2>1, GrownValues
  <2>5. frames' = WithTop(Counted([Top EXCEPT !.pc = pc, !.stack = stack, !.locals = locals]))
    <3>1. [Top EXCEPT !.pc = pc, !.stack = stack, !.locals = Top.locals]
            = [Top EXCEPT !.pc = IF takes THEN J.to[1] ELSE @ + 1, !.stack = stack]
      <4> HIDE DEF stack, Top, Values, Maps, MethodNames, Classes, J
      <4> QED BY <2>2 DEF Frames
    <3> QED BY <1>6, <3>1
  <2> HIDE DEF pc, stack, locals
  <2>6. FramesShaped' /\ SameMethods
    BY <1>1, <2>1, <2>3, <2>4, <2>5, Frame DEF Executes
  <2> QED BY <1>1, <2>1, <2>6, Kept DEF Executes
<1> QED BY <1>4, <1>5, <1>6

\* An object or an array is made.
LEMMA Allocated ==
    ASSUME Shape, Executes, NEW k \in Nat, NEW made, Shaped(made), NEW ref,
           \/ made.class = ArrayClass /\ ref = ArrayRef(NextRef)
           \/ Own(made.class) /\ ref = ObjectRef(NextRef),
           Allocate(k, ref, made)
    PROVE  Shape' /\ Grows
<1> DEFINE n == Len(heap)
<1>1. heap \in Seq(Things) /\ n \in Nat /\ DOMAIN heap = 1 .. n /\ \A a \in DOMAIN heap : Shaped(heap[a])
  BY DEF Shape, HeapShaped
<1>2. heap' = Append(heap, made) /\ Quietly /\ Go(k, <<ref>>) /\ statics' = statics
  BY DEF Allocate, Quietly
<1> HIDE DEF Things, Shaped
<1>3. /\ DOMAIN heap' = 1 .. n + 1 /\ heap'[n + 1] = made
      /\ \A a \in DOMAIN heap : heap'[a] = heap[a]
  BY <1>1, <1>2
<1>4. Grows
  BY <1>1, <1>2, <1>3 DEF Grows, Quietly, Steady
<1>5. HeapShaped'
  <2>1. \A thing : Shaped(thing) => thing \in Things' /\ Shaped(thing)'
    BY <1>4, GrownThings DEF Shaped
  <2>2. heap' \in Seq(Things')
    <3>1. heap \in Seq(Things') /\ made \in Things'
      BY <1>1, <2>1
    <3> QED BY <1>2, <3>1
  <2>3. \A a \in 1 .. n + 1 : a # n + 1 => a \in DOMAIN heap
    BY <1>1
  <2>4. \A a \in DOMAIN heap' : Shaped(heap'[a])
    BY <1>1, <1>3, <2>3
  <2>5. program' = program
    BY <1>4 DEF Grows
  <2>6. \A thing : Shaped(thing) => /\ thing \in Things' /\ IsFiniteSet(DOMAIN thing.cells)
                                    /\ (thing.class \in DOMAIN (program'.classes)) =>
                                         DOMAIN thing.cells \subseteq FieldsOf(thing.class, FALSE)'
    BY <2>1 DEF Shaped, Own, Classes
  <2> QED BY <2>2, <2>4, <2>6 DEF HeapShaped, Shaped, Own, Classes
<1>6. StaticsShaped'
  <2>1. StaticFields' = StaticFields
    BY <1>4 DEF Grows, StaticFields, FieldsOf, Classes
  <2>2. statics \in UNION {[E -> Values'] : E \in SUBSET StaticFields}
    BY <1>4, GrownMaps DEF Shape, StaticsShaped
  <2> HIDE DEF Values, StaticFields
  <2> QED BY <1>2, <2>1, <2>2 DEF StaticsShaped, Maps
<1>7. ref \in Values'
  <2>1. n + 1 \in DOMAIN heap' /\ heap'[n + 1] = made /\ NextRef = n + 1
    BY <1>1, <1>3 DEF NextRef
  <2>2. made.class = ArrayClass => NextRef \in Arrays'
    BY <2>1 DEF Arrays
  <2>3. Own(made.class) => NextRef \in Objects'
    BY <1>4, <2>1 DEF Objects, Own, Classes, Grows
  <2> QED BY <2>2, <2>3 DEF Values, ArrayRef, ObjectRef
<1>8. <<ref>> \in Seq(Values')
  BY <1>7
<1>9. FramesShaped' /\ SameMethods
  BY <1>2, <1>4, <1>8, Going DEF Executes
<1> QED BY <1>2, <1>4, <1>5, <1>6, <1>9, Kept DEF Executes

\* A field or an element is written.
LEMMA Written ==
    ASSUME Shape, Executes, NEW k \in Nat, NEW id \in DOMAIN heap, NEW cell, NEW value \in Values,
           \/ cell \in DOMAIN heap[id].cells
           \/ Own(heap[id].class) /\ cell \in FieldsOf(heap[id].class, FALSE),
           Write(id, cell, value, k)
    PROVE  /\ Shape' /\ Grows
           /\ DOMAIN heap' = DOMAIN heap
           /\ heap'[id].cells = Put(heap[id].cells, cell, value)
           /\ \A a \in DOMAIN heap : a # id => heap'[a] = heap[a]
<1> DEFINE n == Len(heap)
           cells == Put(heap[id].cells, cell, value)
           written == [heap[id] EXCEPT !.cells = cells]
<1>1. /\ heap \in Seq(Things) /\ n \in Nat /\ DOMAIN heap = 1 .. n /\ id \in 1 .. n
      /\ \A a \in DOMAIN heap : Shaped(heap[a])
  BY DEF Shape, HeapShaped
<1>2. /\ heap' = [heap EXCEPT ![id] = written]
      /\ Quietly /\ Go(k, <<>>) /\ statics' = statics
  BY DEF Write, Quietly
<1>3. heap[id] \in Things /\ heap[id].cells \in Maps(Nat \cup FieldNames)
  <2>1. heap[id] \in Things
    BY <1>1
  <2> HIDE DEF Maps, FieldNames, Classes
  <2> QED BY <2>1 DEF Things
<1>4. cell \in Nat \cup FieldNames
  <2>1. CASE cell \in DOMAIN heap[id].cells
    BY <1>3, <2>1 DEF Maps
  <2>2. CASE Own(heap[id].class) /\ cell \in FieldsOf(heap[id].class, FALSE)
    BY <2>2 DEF Own, FieldsOf, FieldNames
  <2> QED BY <2>1, <2>2
<1>5. cells \in Maps(Nat \cup FieldNames) /\ DOMAIN cells = DOMAIN heap[id].cells \cup {cell}
  <2> DEFINE D == Nat \cup FieldNames
             m == heap[id].cells
  <2>1. m \in Maps(D) /\ cell \in D
    BY <1>3, <1>4
  <2> HIDE DEF D, m
  <2>2. Put(m, cell, value) \in Maps(D) /\ DOMAIN Put(m, cell, value) = DOMAIN m \cup {cell}
    BY <2>1, PutMaps
  <2> QED BY <2>2 DEF D, m
<1> HIDE DEF cells
<1>6. /\ written.cells = cells /\ written.class = heap[id].class /\ written.type = heap[id].type
      /\ written \in Things
  <2> HIDE DEF Maps, FieldNames, Classes
  <2> QED BY <1>3, <1>5 DEF Things
<1>7. Shaped(written)
  <2>1. IsFiniteSet(DOMAIN heap[id].cells) /\ (Own(heap[id].class) => DOMAIN heap[id].cells \subseteq FieldsOf(heap[id].class, FALSE))
    BY <1>1 DEF Shaped
  <2>2. IsFiniteSet(DOMAIN cells)
    BY <1>5, <2>1, FS_AddElement
  <2>3. Own(written.class) => DOMAIN cells \subseteq FieldsOf(written.class, FALSE)
    BY <1>5, <1>6, <2>1
  <2> QED BY <1>6, <2>2, <2>3 DEF Shaped
<1> HIDE DEF written
<1>8. /\ DOMAIN heap' = DOMAIN heap /\ heap'[id] = written
      /\ \A a \in DOMAIN heap : a # id => heap'[a] = heap[a]
  BY <1>1, <1>2
<1>9. Grows
  BY <1>1, <1>2, <1>6, <1>8 DEF Grows, Quietly, Steady
<1>10. HeapShaped'
  <2>1. \A thing : Shaped(thing) => thing \in Things' /\ Shaped(thing)'
    BY <1>9, GrownThings DEF Shaped
  <2>2. heap' \in Seq(Things')
    <3>1. heap \in Seq(Things') /\ written \in Things'
      BY <1>1, <1>7, <2>1
    <3> HIDE DEF Things
    <3> QED BY <1>1, <1>2, <3>1
  <2>3. \A a \in DOMAIN heap' : Shaped(heap'[a])
    BY <1>1, <1>7, <1>8
  <2>4. \A thing : Shaped(thing) => /\ thing \in Things' /\ IsFiniteSet(DOMAIN thing.cells)
                                    /\ (thing.class \in DOMAIN (program'.classes)) =>
                                         DOMAIN thing.cells \subseteq FieldsOf(thing.class, FALSE)'
    BY <2>1 DEF Shaped, Own, Classes
  <2> QED BY <2>2, <2>3, <2>4 DEF HeapShaped, Shaped, Own, Classes
<1>11. StaticsShaped'
  <2>1. StaticFields' = StaticFields
    BY <1>9 DEF Grows, StaticFields, FieldsOf, Classes
  <2>2. statics \in UNION {[E -> Values'] : E \in SUBSET StaticFields}
    BY <1>9, GrownMaps DEF Shape, StaticsShaped
  <2> HIDE DEF Values, StaticFields
  <2> QED BY <1>2, <2>1, <2>2 DEF StaticsShaped, Maps
<1>12. <<>> \in Seq(Values')
  OBVIOUS
<1>13. FramesShaped' /\ SameMethods
  BY <1>2, <1>9, <1>12, Going DEF Executes
<1>14. Shape'
  BY <1>2, <1>9, <1>10, <1>11, <1>13, Kept DEF Executes
<1> QED BY <1>6, <1>8, <1>9, <1>14 DEF cells

\* A static that was written holds a value.
LEMMA StaticValues ==
    ASSUME Shape, NEW x \in DOMAIN statics PROVE statics[x] \in Values /\ x \in StaticFields
<1>1. PICK E \in SUBSET StaticFields : statics \in [E -> Values]
  BY DEF Shape, StaticsShaped, Maps
<1> HIDE DEF Values, StaticFields
<1> QED BY <1>1

\* A static is read.
LEMMA GetstaticKeeps ==
    ASSUME Shape, EvalGetstatic PROVE Shape'
<1> DEFINE v == IF IsSystemOut(J) THEN SystemOut
                ELSE IF ~StaticIsOwn THEN Bad
                ELSE IF <<J.class, J.name>> \in DOMAIN statics THEN statics[<<J.class, J.name>>]
                ELSE DefaultValue(J.type)
<1>1. Executes /\ Gives(0, v)
  BY AtExecutes DEF EvalGetstatic
<1>2. v \in Values \cup {Bad}
  BY StaticValues, DefaultHolds, MadeValues
<1> HIDE DEF v
<1> QED BY <1>1, <1>2, Given1

\* What a field is given.
LEMMA FieldValue ==
    ASSUME Shape, Executes, ForField(J.type, Arg(1)) # Bad, Fits(J.type, ForField(J.type, Arg(1)))
    PROVE  ForField(J.type, Arg(1)) \in Values /\ Holds(J.type, ForField(J.type, Arg(1)))
<1>1. Arg(1) \in Values \cup {Bad}
  BY Popping DEF Executes
<1> DEFINE v == Arg(1)
<1> HIDE DEF v
<1>2. v \in Values \cup {Bad} /\ ForField(J.type, v) # Bad /\ Fits(J.type, ForField(J.type, v))
  BY <1>1 DEF v
<1>3. ForField(J.type, v) \in Values /\ Holds(J.type, ForField(J.type, v))
  BY <1>2, ForFieldHolds
<1> QED BY <1>3 DEF v

\* A static is written.
LEMMA PutstaticKeeps ==
    ASSUME Shape, EvalPutstatic PROVE Shape'
<1> DEFINE value == ForField(J.type, Arg(1))
           x == <<J.class, J.name>>
<1>1. Executes
  BY AtExecutes DEF EvalPutstatic
<1>2. CASE Refuse("value")
  BY <1>1, <1>2, Refused DEF Executes
<1>3. CASE ~Refuse("value")
  <2>1. /\ StaticIsOwn /\ value # Bad /\ Fits(J.type, value)
        /\ statics' = Put(statics, x, value) /\ Go(1, <<>>)
        /\ Steady /\ UNCHANGED <<heap, initialized, initializing, printlns, http_server>>
    BY <1>3 DEF EvalPutstatic
  <2>2. value \in Values
    BY <1>1, <2>1, FieldValue
  <2>3. Grows /\ HeapShaped' /\ Quietly
    <3>1. Grows /\ Quietly
      BY <2>1 DEF Grows, Quietly, Steady
    <3>2. HeapShaped'
      BY <2>1, <3>1, GrownThings DEF Shape, HeapShaped
    <3> QED BY <3>1, <3>2
  <2>4. StaticsShaped'
    <3>1. x \in StaticFields
      <4>1. J.class \in DOMAIN Classes /\ J.name \in FieldsOf(J.class, TRUE)
        BY <2>1 DEF StaticIsOwn, Own
      <4>2. x \in {J.class} \X FieldsOf(J.class, TRUE)
        BY <4>1
      <4> HIDE DEF J, x
      <4> QED BY <4>1, <4>2 DEF StaticFields
    <3> HIDE DEF value, x
    <3>2. statics' \in Maps(StaticFields)
      BY <2>1, <2>2, <3>1, PutMaps DEF Shape, StaticsShaped
    <3>3. Maps(StaticFields) \subseteq UNION {[E -> Values'] : E \in SUBSET StaticFields}
      BY <2>3, GrownMaps
    <3>4. StaticFields' = StaticFields
      BY <2>3 DEF Grows, StaticFields, FieldsOf, Classes
    <3> HIDE DEF Values, StaticFields
    <3> QED BY <3>2, <3>3, <3>4 DEF StaticsShaped, Maps
  <2>5. <<>> \in Seq(Values')
    OBVIOUS
  <2>6. FramesShaped' /\ SameMethods
    BY <1>1, <2>1, <2>3, <2>5, Going DEF Executes
  <2> QED BY <1>1, <2>3, <2>4, <2>6, Kept DEF Executes
<1> QED BY <1>2, <1>3

\* An object is made, none of whose fields is written.
LEMMA NewKeeps ==
    ASSUME Shape, EvalNew PROVE Shape'
<1> DEFINE made == [class |-> J.class, type |-> VoidType, cells |-> NoCells]
<1>1. Executes
  BY AtExecutes DEF EvalNew
<1>2. CASE ~Own(J.class)
  BY <1>1, <1>2, Refused DEF EvalNew, Executes
<1>3. CASE Own(J.class)
  <2>1. Allocate(0, ObjectRef(NextRef), made)
    BY <1>3 DEF EvalNew
  <2>2. NoCells \in Maps(Nat \cup FieldNames) /\ DOMAIN NoCells = {}
    <3>1. NoCells \in [{} -> Values]
      BY DEF NoCells
    <3> QED BY <3>1 DEF Maps
  <2>3. IsFiniteSet({})
    BY FS_EmptySet
  <2>4. made.class = J.class /\ made.cells = NoCells /\ made \in Things
    <3> HIDE DEF NoCells, J, Maps, FieldNames
    <3> QED BY <1>3, <2>2 DEF Things, Own, ElementTypes
  <2>5. Shaped(made)
    BY <2>2, <2>3, <2>4 DEF Shaped
  <2>6. Own(made.class)
    BY <1>3, <2>4
  <2> HIDE DEF made
  <2> QED BY <1>1, <2>1, <2>5, <2>6, Allocated
<1> QED BY <1>2, <1>3

\* What a reference on the stack refers to.
LEMMA Referred ==
    ASSUME Shape, NEW v \in Values \cup {Bad}
    PROVE  /\ Kind(v) = "object" => v[2] \in DOMAIN heap /\ Own(heap[v[2]].class) /\ v[2] \in Objects
           /\ Kind(v) = "array" => v[2] \in DOMAIN heap /\ heap[v[2]].class = ArrayClass
           /\ Kind(v) = "string" => v[2] \in Seq(CodePoints)
           /\ v = Bad => Kind(v) = "bad"
<1>1. CASE v \in Values
  BY <1>1, ValueOfKind, BadIsNoValue DEF Objects, Arrays
<1>2. CASE v = Bad
  BY <1>2 DEF Bad, Kind
<1> QED BY <1>1, <1>2

\* What is in memory.
LEMMA CellValues ==
    ASSUME Shape, NEW a \in DOMAIN heap
    PROVE  /\ \A c \in DOMAIN heap[a].cells : heap[a].cells[c] \in Values
           /\ IsFiniteSet(DOMAIN heap[a].cells) /\ heap[a].type \in ElementTypes
           /\ heap[a].class \in DOMAIN Classes \cup {ArrayClass}
<1>1. Shaped(heap[a]) /\ heap[a] \in Things
  BY DEF Shape, HeapShaped, Shaped
<1>2. /\ heap[a].cells \in Maps(Nat \cup FieldNames) /\ heap[a].type \in ElementTypes
      /\ heap[a].class \in DOMAIN Classes \cup {ArrayClass}
  <2> HIDE DEF Maps, FieldNames, ElementTypes, Classes
  <2> QED BY <1>1 DEF Things
<1>3. PICK E \in SUBSET (Nat \cup FieldNames) : heap[a].cells \in [E -> Values]
  BY <1>2 DEF Maps
<1> HIDE DEF Values
<1>4. \A c \in DOMAIN heap[a].cells : heap[a].cells[c] \in Values
  BY <1>3
<1> QED BY <1>1, <1>2, <1>4 DEF Shaped

\* A field is read.
LEMMA GetfieldKeeps ==
    ASSUME Shape, EvalGetfield PROVE Shape'
<1> DEFINE object == Arg(1)
           v == IF ~FieldIsOwn(object) THEN Bad
                ELSE LET cells == heap[object[2]].cells IN
                     IF J.name \in DOMAIN cells THEN cells[J.name] ELSE DefaultValue(J.type)
<1>1. Executes /\ Gives(1, v)
  BY AtExecutes DEF EvalGetfield
<1>2. v \in Values \cup {Bad}
  <2>1. object \in Values \cup {Bad}
    BY <1>1, Popping DEF Executes
  <2> HIDE DEF object
  <2>2. FieldIsOwn(object) => object[2] \in DOMAIN heap
    BY <2>1, Referred DEF FieldIsOwn
  <2> HIDE DEF J
  <2> QED BY <2>2, CellValues, DefaultHolds
<1> HIDE DEF v
<1> QED BY <1>1, <1>2, Given1

\* A field is written.
LEMMA PutfieldKeeps ==
    ASSUME Shape, EvalPutfield PROVE Shape'
<1> DEFINE value == ForField(J.type, Arg(1))
           object == Arg(2)
<1>1. Executes
  BY AtExecutes DEF EvalPutfield
<1>2. CASE Refuse("value")
  BY <1>1, <1>2, Refused DEF Executes
<1>3. CASE ~Refuse("value")
  <2>1. value # Bad /\ Fits(J.type, value) /\ FieldIsOwn(object) /\ Write(object[2], J.name, value, 2)
    BY <1>3 DEF EvalPutfield
  <2>2. value \in Values
    BY <1>1, <2>1, FieldValue
  <2>3. object \in Values \cup {Bad}
    BY <1>1, Popping DEF Executes
  <2> HIDE DEF value, object
  <2>4. /\ object[2] \in DOMAIN heap /\ Own(heap[object[2]].class)
        /\ J.name \in FieldsOf(heap[object[2]].class, FALSE)
    BY <2>1, <2>3, Referred DEF FieldIsOwn
  <2> QED BY <1>1, <2>1, <2>2, <2>4, Written
<1> QED BY <1>2, <1>3

\* An array is made.
LEMMA NewarrayKeeps ==
    ASSUME Shape, EvalNewarray PROVE Shape'
<1> DEFINE n == IntOf(Arg(1))[2]
           cells == [k \in 0 .. n - 1 |-> DefaultValue(J.type)]
           made == [class |-> ArrayClass, type |-> J.type, cells |-> cells]
<1>1. Executes /\ J.op = "newarray"
  BY AtExecutes DEF EvalNewarray
<1>2. CASE Refuse("value")
  BY <1>1, <1>2, Refused DEF Executes
<1>3. CASE ~Refuse("value")
  <2>1. Ints(1) /\ ~(n < 0) /\ Allocate(1, ArrayRef(NextRef), made)
    BY <1>3 DEF EvalNewarray
  <2>2. n \in Int
    BY <1>1, <2>1, IntPopped DEF Ints
  <2>3. J.type \in ElementTypes
    BY <1>1, InstructionType DEF Executes
  <2> HIDE DEF n
  <2>4. DefaultValue(J.type) \in Values
    BY DefaultHolds
  <2>5. cells \in Maps(Nat \cup FieldNames) /\ IsFiniteSet(DOMAIN cells)
    <3>1. cells \in [0 .. n - 1 -> Values] /\ 0 .. n - 1 \in SUBSET (Nat \cup FieldNames)
      BY <2>2, <2>4
    <3>2. IsFiniteSet(0 .. n - 1)
      BY <2>2, FS_Interval
    <3> QED BY <3>1, <3>2 DEF Maps
  <2> HIDE DEF cells
  <2>6. made.class = ArrayClass /\ made.cells = cells /\ made \in Things
    <3> HIDE DEF J, Maps, FieldNames, ElementTypes, Classes
    <3> QED BY <2>3, <2>5 DEF Things
  <2>7. Shaped(made)
    <3>1. ~Own(ArrayClass)
      BY DEF Shape, IsProgram, Own, Classes
    <3> QED BY <2>5, <2>6, <3>1 DEF Shaped
  <2> HIDE DEF made
  <2> QED BY <1>1, <2>1, <2>6, <2>7, Allocated
<1> QED BY <1>2, <1>3

\* An element is read.
LEMMA ArrayLoadKeeps ==
    ASSUME Shape, EvalArrayLoad PROVE Shape'
<1> DEFINE array == Arg(2)
           index == IntOf(Arg(1))
           v == IF ~ElementAt(array, index) THEN Bad
                ELSE LET value == heap[array[2]].cells[index[2]] IN
                     IF J.op = "aaload" THEN value ELSE Typed(heap[array[2]].type, value)
<1>1. Executes
  BY AtExecutes DEF EvalArrayLoad
<1>3. Gives(2, v)
  BY DEF EvalArrayLoad
<1>2. v \in Values \cup {Bad}
  <2>1. array \in Values \cup {Bad}
    BY <1>1, Popping DEF Executes
  <2> HIDE DEF array, index, J
  <2>2. ElementAt(array, index) => array[2] \in DOMAIN heap /\ index[2] \in DOMAIN heap[array[2]].cells
    BY <2>1, Referred DEF ElementAt
  <2>3. ElementAt(array, index) => heap[array[2]].cells[index[2]] \in Values
    BY <2>2, CellValues
  <2> QED BY <2>3, TypedValues
<1> HIDE DEF v
<1> QED BY <1>1, <1>2, <1>3, Given1

\* What an element is given: an int made one of the array's type, or what the stack holds.
LEMMA StoredElement ==
    ASSUME Shape, EvalArrayStore, ~Refuse("value")
    PROVE  LET array == Arg(3)
               index == IntOf(Arg(2))[2]
               type == heap[array[2]].type
               value == IF J.op = "aastore" THEN Arg(1) ELSE FromInt(type, IntOf(Arg(1))[2])
           IN /\ Kind(array) = "array" /\ array[2] \in DOMAIN heap /\ heap[array[2]].class = ArrayClass
              /\ index \in DOMAIN heap[array[2]].cells
              /\ value \in Values /\ Fits(type, value)
              /\ J.op # "aastore" => Holds(type, value)
              /\ Write(array[2], index, value, 3)
<1> DEFINE array == Arg(3)
           index == IntOf(Arg(2))
           type == heap[array[2]].type
           value == IF J.op = "aastore" THEN Arg(1) ELSE FromInt(type, IntOf(Arg(1))[2])
<1>1. Executes
  BY AtExecutes DEF EvalArrayStore
<1>2. /\ ElementAt(array, index) /\ (J.op = "aastore" \/ Ints(1)) /\ value # Bad /\ Fits(type, value)
      /\ Write(array[2], index[2], value, 3)
  BY DEF EvalArrayStore
<1>3. array \in Values \cup {Bad} /\ Arg(1) \in Values \cup {Bad}
  BY <1>1, Popping DEF Executes
<1>4. /\ Kind(array) = "array" /\ array[2] \in DOMAIN heap /\ heap[array[2]].class = ArrayClass
      /\ index[2] \in DOMAIN heap[array[2]].cells
  <2> HIDE DEF array, index
  <2> QED BY <1>2, <1>3, Referred DEF ElementAt
<1>5. CASE J.op = "aastore"
  <2>1. value \in Values
    BY <1>2, <1>3, <1>5
  <2> QED BY <1>2, <1>4, <1>5, <2>1
<1>6. CASE J.op # "aastore"
  <2>1. IntOf(Arg(1))[2] \in Int
    BY <1>1, <1>2, <1>6, IntPopped DEF Ints
  <2> DEFINE n == IntOf(Arg(1))[2]
  <2>2. value = FromInt(type, n)
    BY <1>6
  <2> HIDE DEF n, value, type
  <2>3. value \in Values /\ Holds(type, value)
    BY <1>2, <2>1, <2>2, FromIntHolds DEF n
  <2> QED BY <1>2, <1>4, <1>6, <2>3 DEF value, type
<1> QED BY <1>5, <1>6

\* An element is written.
LEMMA ArrayStoreKeeps ==
    ASSUME Shape, EvalArrayStore PROVE Shape'
<1>1. Executes
  BY AtExecutes DEF EvalArrayStore
<1>2. CASE Refuse("value")
  BY <1>1, <1>2, Refused DEF Executes
<1>3. CASE ~Refuse("value")
  <2> DEFINE id == Arg(3)[2]
             index == IntOf(Arg(2))[2]
             value == IF J.op = "aastore" THEN Arg(1) ELSE FromInt(heap[id].type, IntOf(Arg(1))[2])
  <2>1. id \in DOMAIN heap /\ index \in DOMAIN heap[id].cells /\ value \in Values /\ Write(id, index, value, 3)
    BY <1>3, StoredElement
  <2> HIDE DEF id, index, value
  <2> QED BY <1>1, <2>1, Written
<1> QED BY <1>2, <1>3

\* The length of an array.
LEMMA ArraylengthKeeps ==
    ASSUME Shape, EvalArraylength PROVE Shape'
<1> DEFINE array == Arg(1)
           v == IF Kind(array) # "array" THEN Bad ELSE Number(Cardinality(DOMAIN heap[array[2]].cells))
<1>1. Executes /\ Gives(1, v)
  BY AtExecutes DEF EvalArraylength
<1>2. v \in Values \cup {Bad}
  <2>1. array \in Values \cup {Bad}
    BY <1>1, Popping DEF Executes
  <2> HIDE DEF array
  <2>2. Kind(array) = "array" => IsFiniteSet(DOMAIN heap[array[2]].cells)
    BY <2>1, Referred, CellValues
  <2>3. Kind(array) = "array" => Cardinality(DOMAIN heap[array[2]].cells) \in Nat
    BY <2>2, FS_CardinalityType
  <2> DEFINE n == Cardinality(DOMAIN heap[array[2]].cells)
  <2> HIDE DEF n
  <2>4. Kind(array) = "array" => Number(n) \in Values
    BY <2>3, MadeValues DEF n
  <2> QED BY <2>4 DEF n
<1> HIDE DEF v
<1> QED BY <1>1, <1>2, Given1

\* A checkcast only looks.
LEMMA CheckcastKeeps ==
    ASSUME Shape, EvalCheckcast PROVE Shape'
<1>1. Executes /\ (Refuse("value") \/ (Go(0, <<>>) /\ Steady /\ UNCHANGED memory))
  BY AtExecutes DEF EvalCheckcast
<1> QED BY <1>1, Refused, Passed DEF Executes, memory

-----------------------------------------------------------------------------
(* Calls and returns. *)

\* The frame of a method that is called.
LEMMA Entered ==
    ASSUME NEW class \in DOMAIN Classes, NEW name \in DOMAIN Classes[class].methods,
           NEW args \in Seq(Values)
    PROVE  Running(Entry(class, name, args)) /\ Entry(class, name, args).class = class
           /\ Entry(class, name, args).method = name
<1> DEFINE locals == [s \in 0 .. Len(args) - 1 |-> args[s + 1]]
           f == Entry(class, name, args)
<1>1. locals \in Maps(Nat)
  <2>1. locals \in [0 .. Len(args) - 1 -> Values] /\ 0 .. Len(args) - 1 \in SUBSET Nat
    OBVIOUS
  <2> HIDE DEF Values, locals
  <2> QED BY <2>1 DEF Maps
<1>2. f = [class |-> class, method |-> name, pc |-> 1, steps |-> 0, stack |-> <<>>, locals |-> locals]
  BY DEF Entry
<1>3. name \in MethodNames /\ 0 \in 0 .. MaxSteps /\ <<>> \in Seq(Values)
  BY LimitsAssumption DEF MethodNames
<1> HIDE DEF f, locals
<1>4. f \in Frames /\ f.class = class /\ f.method = name
  <2> HIDE DEF Values, Maps, MethodNames, Classes
  <2> QED BY <1>1, <1>2, <1>3 DEF Frames
<1> QED BY <1>4 DEF Running, f

\* A frame is put on top of others.
LEMMA Pushed ==
    ASSUME Shape, Grows, Len(frames) < MaxDepth,
           NEW below \in Seq(Frames), Len(below) = Len(frames),
           \A k \in DOMAIN below :
             /\ Running(below[k]) /\ below[k].steps < MaxSteps
             /\ below[k].class = frames[k].class /\ below[k].method = frames[k].method,
           NEW f, Running(f), frames' = Append(below, f)
    PROVE  /\ FramesShaped' /\ SameMethods
           /\ frames'[Len(frames) + 1] = f /\ Len(frames) + 1 \in DOMAIN frames'
<1> DEFINE n == Len(frames)
<1>1. n \in Nat /\ MaxDepth \in Nat /\ n + 1 <= MaxDepth /\ DOMAIN frames = 1 .. n
  BY LimitsAssumption DEF Shape, FramesShaped
<1>2. Frames \subseteq Frames' /\ (\A g : Running(g) => g \in Frames' /\ g.method \in DOMAIN Classes'[g.class].methods)
  BY GrownFrames DEF Running
<1>3. f \in Frames
  BY DEF Running
<1> HIDE DEF Frames, n, Running
<1>4. /\ DOMAIN frames' = 1 .. n + 1 /\ Len(frames') = n + 1 /\ frames'[n + 1] = f
      /\ \A k \in 1 .. n : frames'[k] = below[k] /\ k \in DOMAIN below
  BY <1>1, <1>3 DEF n
<1>5. frames' \in Seq(Frames')
  <2>1. below \in Seq(Frames') /\ f \in Frames'
    BY <1>2, <1>3
  <2> QED BY <2>1
<1>6. \A k \in 1 .. n + 1 : k \in 1 .. n \/ k = n + 1
  BY <1>1
<1>7. \A k \in DOMAIN frames' : frames'[k] \in Frames' /\ frames'[k].method \in DOMAIN Classes'[frames'[k].class].methods
  BY <1>2, <1>4, <1>6
<1>8. \A k \in DOMAIN frames' : k # Len(frames') => frames'[k].steps < MaxSteps
  BY <1>4, <1>6
<1>9. FramesShaped'
  BY <1>1, <1>4, <1>5, <1>7, <1>8 DEF FramesShaped, Running
<1>10. SameMethods
  <2>1. \A k \in 1 .. n : k \in 1 .. n + 1
    BY <1>1
  <2> QED BY <1>1, <1>4, <2>1 DEF SameMethods
<1>11. n + 1 \in DOMAIN frames'
  BY <1>1, <1>4
<1> QED BY <1>4, <1>9, <1>10, <1>11 DEF n

\* eval_method keeps the shape of everything.
LEMMA Called ==
    ASSUME Shape, Executes, NEW class, NEW name, NEW args \in Seq(Values \cup {Bad}), NEW k \in Nat,
           EvalMethod(class, name, args, k)
    PROVE  Shape'
<1>1. CASE Refuse("value") \/ Refuse("limit")
  BY <1>1, Refused DEF Executes
<1>2. CASE ~(Refuse("value") \/ Refuse("limit"))
  <2> DEFINE g == [Top EXCEPT !.stack = Popped(k)]
             below == WithTop(g)
             f == Entry(class, name, args)
             n == Len(frames)
  <2>1. /\ Bad \notin ToSet(args) /\ Own(class) /\ Has(class, name) /\ ~(n >= MaxDepth)
        /\ frames' = Append(below, f) /\ Steady /\ UNCHANGED memory
    BY <1>2 DEF EvalMethod
  <2>2. Grows /\ HeapShaped' /\ StaticsShaped' /\ Quietly
    BY <2>1, SameMemory DEF Steady, memory, Quietly
  <2>3. Running(f)
    <3>1. args \in Seq(Values)
      <4>1. \A i \in 1 .. Len(args) : args[i] \in Values
        BY <2>1 DEF ToSet
      <4> HIDE DEF Values
      <4> QED BY <4>1
    <3> QED BY <2>1, <3>1, Entered DEF Own, Has
  <2>4. g \in Frames /\ g.class = Top.class /\ g.method = Top.method /\ g.steps = Top.steps
    <3>1. Top \in Frames /\ Popped(k) \in Seq(Values)
      BY TopFrame, Popping DEF Executes
    <3> HIDE DEF Top, Values, Maps, MethodNames, Classes
    <3> QED BY <3>1 DEF Frames
  <2>5. Running(g)
    BY <2>4, TopFields DEF Running, Executes
  <2>6. /\ n \in Nat \ {0} /\ n \in DOMAIN frames /\ frames[n] = Top
        /\ frames \in Seq(Frames) /\ n <= MaxDepth
        /\ \A i \in DOMAIN frames : Running(frames[i])
        /\ \A i \in DOMAIN frames : i # n => frames[i].steps < MaxSteps
        /\ Top.steps < MaxSteps
    BY TopFrame DEF Shape, FramesShaped, Executes
  <2> HIDE DEF g, Frames, Running, f, Top
  <2>7. /\ below \in Seq(Frames) /\ Len(below) = n /\ DOMAIN below = 1 .. n /\ below[n] = g
        /\ DOMAIN frames = 1 .. n /\ \A i \in 1 .. n : i # n => below[i] = frames[i]
    BY <2>4, <2>6 DEF WithTop
  <2> HIDE DEF below
  <2>8. \A i \in DOMAIN below :
          /\ Running(below[i]) /\ below[i].steps < MaxSteps
          /\ below[i].class = frames[i].class /\ below[i].method = frames[i].method
    <3> SUFFICES ASSUME NEW i \in 1 .. n
                 PROVE  /\ Running(below[i]) /\ below[i].steps < MaxSteps
                        /\ below[i].class = frames[i].class /\ below[i].method = frames[i].method
      BY <2>7
    <3>1. CASE i = n
      BY <2>4, <2>5, <2>6, <2>7, <3>1
    <3>2. CASE i # n
      BY <2>6, <2>7, <3>2
    <3> QED BY <3>1, <3>2
  <2>9. n < MaxDepth
    BY <2>1, <2>6, LimitsAssumption
  <2>10. FramesShaped' /\ SameMethods
    BY <2>1, <2>2, <2>3, <2>7, <2>8, <2>9, Pushed
  <2> QED BY <2>2, <2>10, Kept DEF Executes
<1> QED BY <1>1, <1>2

Calls == {"concat", "invokevirtual", "invokeinterface", "invokespecial", "invokestatic"}

\* The arguments of a call are values, or a conversion failed.
LEMMA GivenValues ==
    ASSUME Shape, Executes, J.op \in Calls
    PROVE  /\ Len(Params) \in Nat
           /\ Given \in Seq(Values \cup {Bad}) /\ Len(Given) = Len(Params)
           /\ DOMAIN Given = 1 .. Len(Params)
           /\ Receiver \in Values \cup {Bad} /\ <<Receiver>> \o Given \in Seq(Values \cup {Bad})
           /\ \A k \in 1 .. Len(Params) : Given[k] \in Values \cup {Bad} /\ Kind(Given[k]) # "out"
<1>1. Params \in Seq(ToSet(Params))
  BY Instruction DEF IsInstruction, Calls, Executes, Params
<1> DEFINE params == Params
           n == Len(params)
<1>2. n \in Nat /\ DOMAIN params = 1 .. n
  <2> HIDE DEF params
  <2>1. params \in Seq(ToSet(params))
    BY <1>1 DEF params
  <2> QED BY <2>1
<1>3. \A k \in 1 .. n : /\ Typed(params[k], Arg(n + 1 - k)) \in Values \cup {Bad}
                         /\ Kind(Typed(params[k], Arg(n + 1 - k))) # "out"
  <2> SUFFICES ASSUME NEW k \in 1 .. n
               PROVE  /\ Typed(params[k], Arg(n + 1 - k)) \in Values \cup {Bad}
                      /\ Kind(Typed(params[k], Arg(n + 1 - k))) # "out"
    OBVIOUS
  <2>1. n + 1 - k \in Nat \ {0}
    BY <1>2
  <2>2. Arg(n + 1 - k) \in Values \cup {Bad}
    BY <2>1, Popping DEF Executes
  <2> QED BY <2>2, TypedValues, TypedNotOut
<1>4. Given = [k \in 1 .. n |-> Typed(params[k], Arg(n + 1 - k))]
  BY <1>2 DEF Given
<1>5. Receiver \in Values \cup {Bad}
  <2>1. n + 1 \in Nat \ {0} /\ Receiver = Arg(n + 1)
    BY <1>2 DEF Receiver
  <2> QED BY <2>1, Popping DEF Executes
<1> HIDE DEF params, n, Values
<1>6. /\ Given \in Seq(Values \cup {Bad}) /\ Len(Given) = n /\ DOMAIN Given = 1 .. n
      /\ \A k \in 1 .. n : Given[k] \in Values \cup {Bad} /\ Kind(Given[k]) # "out"
  BY <1>2, <1>3, <1>4
<1>7. <<Receiver>> \o Given \in Seq(Values \cup {Bad})
  BY <1>5, <1>6
<1> QED BY <1>2, <1>5, <1>6, <1>7 DEF params, n

\* A line is printed.
LEMMA PrintlnKeeps ==
    ASSUME Shape, EvalPrintln PROVE Shape'
<1>1. Executes
  BY AtExecutes DEF EvalPrintln
<1>2. \/ Refuse("value")
      \/ Go(2, <<>>) /\ Steady /\ UNCHANGED <<statics, heap, initialized, initializing, http_server>>
  BY DEF EvalPrintln
<1> QED BY <1>1, <1>2, Refused, Passed DEF Executes

\* A server is asked for.
LEMMA RespondKeeps ==
    ASSUME Shape, EvalRespond PROVE Shape'
<1>1. Executes
  BY AtExecutes DEF EvalRespond
<1>2. \/ Refuse("value")
      \/ Go(2, <<>>) /\ Steady /\ UNCHANGED <<statics, heap, initialized, initializing, printlns>>
  BY DEF EvalRespond
<1> QED BY <1>1, <1>2, Refused, Passed DEF Executes

\* The heap is a sequence.
LEMMA HeapIsSeq ==
    ASSUME Shape PROVE heap \in Seq(ToSet(heap))
<1> HIDE DEF Things
<1>1. heap \in Seq(Things)
  BY DEF Shape, HeapShaped
<1>2. \A a \in 1 .. Len(heap) : heap[a] \in ToSet(heap)
  BY <1>1 DEF ToSet
<1> QED BY <1>1, <1>2

\* The methods of String, Object and arrays; clone makes an array.
LEMMA CoreVirtualKeeps ==
    ASSUME Shape, EvalCoreVirtual PROVE Shape'
<1> DEFINE k == Len(Params) + 1
<1>1. Executes /\ J.op = "invokevirtual"
  BY AtExecutes DEF EvalCoreVirtual
<1>2. Receiver \in Values \cup {Bad} /\ k \in Nat
  BY <1>1, GivenValues DEF Calls
<1>3. CASE Refuse("value")
  BY <1>1, <1>3, Refused DEF Executes
<1>4. CASE Kind(Receiver) = "string" /\ Gives(k, StringVirtual(J.name, Receiver[2], Given))
  <2>1. Receiver[2] \in Seq(CodePoints)
    BY <1>2, <1>4, Referred
  <2>2. StringVirtual(J.name, Receiver[2], Given) \in Values \cup {Bad}
    BY <2>1, StringVirtualValue
  <2> HIDE DEF k
  <2> QED BY <1>1, <1>2, <1>4, <2>2, Given1
<1>5. CASE Kind(Receiver) = "array" /\ Allocate(k, ArrayRef(NextRef), heap[Receiver[2]])
  <2>1. Receiver[2] \in DOMAIN heap /\ heap[Receiver[2]].class = ArrayClass
    BY <1>2, <1>5, Referred
  <2>2. Shaped(heap[Receiver[2]])
    BY <2>1 DEF Shape, HeapShaped
  <2> HIDE DEF k
  <2> QED BY <1>1, <1>2, <1>5, <2>1, <2>2, Allocated
<1>6. CASE Gives(k, ObjectVirtual(J.name, Receiver, Given))
  <2>1. ObjectVirtual(J.name, Receiver, Given) \in Values \cup {Bad} \/ Receiver = Bad
    BY <1>2, HeapIsSeq, ObjectVirtualValue
  <2>2. ObjectVirtual(J.name, Bad, Given) \in {Bad, Bool(RefEquals(Bad, Given[1]))}
    BY DEF ObjectVirtual, Bad, Kind
  <2>3. RefEquals(Bad, Given[1]) \in BOOLEAN
    BY DEF RefEquals
  <2>4. Bool(RefEquals(Bad, Given[1])) \in Values
    BY <2>3, BoolValue
  <2>5. ObjectVirtual(J.name, Receiver, Given) \in Values \cup {Bad}
    BY <2>1, <2>2, <2>4
  <2> HIDE DEF k
  <2> QED BY <1>1, <1>2, <1>6, <2>5, Given1
<1> QED BY <1>3, <1>4, <1>5, <1>6 DEF EvalCoreVirtual

\* Virtual and interface calls.
LEMMA InvokeVirtualKeeps ==
    ASSUME Shape, EvalInvokeVirtual PROVE Shape'
<1>1. Executes /\ J.op \in {"invokevirtual", "invokeinterface"}
  BY AtExecutes DEF EvalInvokeVirtual
<1>2. Len(Params) + 1 \in Nat /\ <<Receiver>> \o Given \in Seq(Values \cup {Bad})
  BY <1>1, GivenValues DEF Calls
<1>3. \/ Refuse("value")
      \/ EvalMethod(heap[Receiver[2]].class, J.name, <<Receiver>> \o Given, Len(Params) + 1)
  BY DEF EvalInvokeVirtual
<1> QED BY <1>1, <1>2, <1>3, Refused, Called DEF Executes

\* Constructors and private methods.
LEMMA InvokespecialKeeps ==
    ASSUME Shape, EvalInvokespecial PROVE Shape'
<1>1. Executes /\ J.op = "invokespecial"
  BY AtExecutes DEF EvalInvokespecial
<1>2. Len(Params) + 1 \in Nat /\ <<Receiver>> \o Given \in Seq(Values \cup {Bad})
  BY <1>1, GivenValues DEF Calls
<1>3. \/ Refuse("value")
      \/ Go(1, <<>>) /\ Steady /\ UNCHANGED memory
      \/ EvalMethod(J.class, J.name, <<Receiver>> \o Given, Len(Params) + 1)
  BY DEF EvalInvokespecial
<1> QED BY <1>1, <1>2, <1>3, Refused, Called, Passed DEF Executes, memory

\* Static calls.
LEMMA InvokestaticKeeps ==
    ASSUME Shape, EvalInvokestatic PROVE Shape'
<1>1. Executes /\ J.op = "invokestatic"
  BY AtExecutes DEF EvalInvokestatic
<1>2. Len(Params) \in Nat /\ Given \in Seq(Values \cup {Bad})
  BY <1>1, GivenValues DEF Calls
<1>3. EvalMethod(J.class, J.name, Given, Len(Params))
  BY DEF EvalInvokestatic
<1> QED BY <1>1, <1>2, <1>3, Called

\* String concatenation.
LEMMA InvokedynamicKeeps ==
    ASSUME Shape, EvalInvokedynamic PROVE Shape'
<1> DEFINE lacking == \/ \E v \in ToSet(Given) : Kind(v) \in {"bad", "object", "array"}
                      \/ ArgsBefore(J.parts, Len(J.parts)) # Len(Params)
           v == IF lacking THEN Bad ELSE String(Joined(Given, J.parts))
<1>1. Executes /\ J.op = "concat"
  BY AtExecutes DEF EvalInvokedynamic
<1>2. Gives(Len(Params), v)
  BY DEF EvalInvokedynamic
<1>3. /\ J.parts \in Seq(ToSet(J.parts))
      /\ \A p \in ToSet(J.parts) : p[1] # "arg" => p[2] \in Seq(CodePoints)
  BY <1>1, Instruction DEF IsInstruction, Executes
<1>4. /\ Len(Params) \in Nat /\ Len(Given) = Len(Params)
      /\ DOMAIN Given = 1 .. Len(Params)
      /\ \A k \in 1 .. Len(Params) : Given[k] \in Values \cup {Bad} /\ Kind(Given[k]) # "out"
  BY <1>1, GivenValues DEF Calls
<1>5. ~lacking => Joined(Given, J.parts) \in Seq(CodePoints)
  <2> SUFFICES ASSUME ~lacking PROVE Joined(Given, J.parts) \in Seq(CodePoints)
    OBVIOUS
  <2>1. ArgsBefore(J.parts, Len(J.parts)) = Len(Given)
    BY <1>4
  <2>2. \A i \in 1 .. Len(Given) :
          Given[i] \in Values /\ Kind(Given[i]) \in {"int", "bool", "char", "string", "null"}
    <3> SUFFICES ASSUME NEW i \in 1 .. Len(Given)
                 PROVE  Given[i] \in Values /\ Kind(Given[i]) \in {"int", "bool", "char", "string", "null"}
      OBVIOUS
    <3>1. Given[i] \in ToSet(Given)
      BY <1>4 DEF ToSet
    <3>2. Kind(Given[i]) \notin {"bad", "object", "array"}
      BY <3>1
    <3>3. Given[i] \in Values
      BY <1>4, <3>2 DEF Bad, Kind
    <3> QED BY <1>4, <3>2, <3>3, ValueOfKind
  <2> QED BY <1>3, <1>4, <2>1, <2>2, JoinedIsText
<1>6. v \in Values \cup {Bad}
  <2> HIDE DEF lacking
  <2> QED BY <1>5, MadeValues
<1> HIDE DEF v
<1> QED BY <1>1, <1>2, <1>4, <1>6, Given1

\* A sequence without its last.
LEMMA FrontOf ==
    ASSUME NEW S, NEW s \in Seq(S), s # <<>>
    PROVE  /\ Front(s) \in Seq(S) /\ Len(Front(s)) = Len(s) - 1
           /\ Len(s) \in Nat \ {0} /\ DOMAIN s = 1 .. Len(s) /\ DOMAIN Front(s) = 1 .. Len(s) - 1
           /\ \A k \in 1 .. Len(s) - 1 : Front(s)[k] = s[k]
<1>1. Len(s) \in Nat \ {0} /\ DOMAIN s = 1 .. Len(s)
  OBVIOUS
<1>2. Front(s) = SubSeq(s, 1, Len(s) - 1)
  BY DEF Front
<1>3. SubSeq(s, 1, Len(s) - 1) = [k \in 1 .. Len(s) - 1 |-> s[k]]
  BY <1>1
<1> QED BY <1>1, <1>2, <1>3

\* What is left when the top frame is gone.
LEMMA Unwound ==
    ASSUME Shape, frames # <<>>, Grows
    PROVE  LET rest == Front(frames) IN
           /\ rest \in Seq(Frames) /\ Len(rest) = Len(frames) - 1 /\ DOMAIN rest = 1 .. Len(frames) - 1
           /\ Len(frames) \in Nat \ {0} /\ Len(frames) <= MaxDepth /\ DOMAIN frames = 1 .. Len(frames)
           /\ \A k \in DOMAIN rest : rest[k] = frames[k] /\ Running(rest[k]) /\ rest[k].steps < MaxSteps
<1>1. /\ frames \in Seq(Frames) /\ Len(frames) <= MaxDepth
      /\ \A k \in DOMAIN frames : Running(frames[k])
      /\ \A k \in DOMAIN frames : k # Len(frames) => frames[k].steps < MaxSteps
  BY DEF Shape, FramesShaped
<1> HIDE DEF Frames, Running
<1> DEFINE n == Len(frames)
           rest == Front(frames)
<1>2. /\ rest \in Seq(Frames) /\ Len(rest) = n - 1
      /\ n \in Nat \ {0} /\ DOMAIN frames = 1 .. n /\ DOMAIN rest = 1 .. n - 1
      /\ \A k \in 1 .. n - 1 : rest[k] = frames[k]
  BY <1>1, FrontOf
<1> HIDE DEF n, rest
<1>3. \A k \in 1 .. n - 1 : k \in 1 .. n /\ k # n
  BY <1>2
<1> QED BY <1>1, <1>2, <1>3 DEF n, rest

\* A return: the caller goes on, or the initializer's class is initialized.
LEMMA ReturnKeeps ==
    ASSUME Shape, EvalReturn PROVE Shape'
<1> DEFINE n == Len(frames)
           rest == Front(frames)
           caller == Last(rest)
           returns == MethodOf(Top.class, Top.method).returns
           value == Typed(returns, IF returns \in IntLike THEN IntOf(Arg(1)) ELSE Arg(1))
           result == IF J.op = "return" THEN <<>> ELSE <<value>>
           above == Counted([caller EXCEPT !.pc = @ + 1, !.stack = @ \o result])
<1>1. Executes
  BY AtExecutes DEF EvalReturn
<1>2. CASE Refuse("value")
  BY <1>1, <1>2, Refused DEF Executes
<1>3. CASE ~Refuse("value")
  <2>1. /\ Bad \notin ToSet(result)
        /\ Steady /\ UNCHANGED <<statics, heap, printlns, http_server>>
        /\ IF Top.method = "<clinit>"
           THEN /\ frames' = rest
                /\ initialized' = initialized \cup {Top.class}
                /\ initializing' = initializing \ {Top.class}
           ELSE /\ frames' = IF rest = <<>> THEN rest ELSE Append(Front(rest), above)
                /\ UNCHANGED <<initialized, initializing>>
    BY <1>3 DEF EvalReturn, Finished
  <2>2. Grows /\ HeapShaped' /\ StaticsShaped'
    BY <2>1, SameMemory DEF Steady
  <2>3. /\ rest \in Seq(Frames) /\ Len(rest) = n - 1 /\ DOMAIN rest = 1 .. n - 1
        /\ n \in Nat \ {0} /\ n <= MaxDepth /\ DOMAIN frames = 1 .. n
        /\ \A k \in DOMAIN rest : rest[k] = frames[k] /\ Running(rest[k]) /\ rest[k].steps < MaxSteps
    BY <1>1, <2>2, Unwound DEF Executes
  <2>4. result \in Seq(Values)
    <3>1. value \in Values \cup {Bad}
      <4>1. Arg(1) \in Values \cup {Bad}
        BY <1>1, Popping DEF Executes
      <4>2. IntOf(Arg(1)) \in Values \cup {Bad}
        BY <4>1, IntOfValues DEF Values
      <4> QED BY <4>1, <4>2, TypedValues
    <3> HIDE DEF value
    <3>2. J.op # "return" => value \in ToSet(result)
      BY DEF ToSet
    <3>3. J.op # "return" => value \in Values
      BY <2>1, <3>1, <3>2
    <3> HIDE DEF Values
    <3> QED BY <3>3
  <2>5. Top = frames[n] /\ Top.class \in DOMAIN Classes
    BY <1>1, TopFrame, TopFields DEF Executes
  <2> HIDE DEF result
  <2>6. /\ (IsProgram(program))' /\ OutcomeShaped' /\ BinaryIsTheRun' /\ Classes' = Classes
    BY <1>1, <2>1 DEF Shape, OutcomeShaped, Steady, Classes, IsProgram, IsClass, BinaryIsTheRun, Executes
  <2>7. Frames \subseteq Frames' /\ (\A g : Running(g) => g \in Frames' /\ g.method \in DOMAIN Classes'[g.class].methods)
    BY <2>2, GrownFrames DEF Running
  <2> HIDE DEF rest, n
  <2>8. ASSUME NEW s \in Seq(Frames), Len(s) = n - 1, DOMAIN s = 1 .. n - 1, frames' = s,
               \A k \in DOMAIN s : Running(s[k]) /\ (k # Len(s) => s[k].steps < MaxSteps)
        PROVE  FramesShaped'
    <3> HIDE DEF Frames, Running
    <3>1. s \in Seq(Frames')
      BY <2>7
    <3>2. Len(s) <= MaxDepth
      BY <2>3, <2>8, LimitsAssumption
    <3> QED BY <2>7, <2>8, <3>1, <3>2 DEF FramesShaped, Running
  <2>9. CASE Top.method = "<clinit>"
    <3>1. FramesShaped'
      BY <2>1, <2>3, <2>8, <2>9
    <3>2. ClassesShaped'
      BY <2>1, <2>5, <2>6, <2>9 DEF Shape, ClassesShaped
    <3>3. InitializersRun'
      <4> SUFFICES ASSUME NEW c \in initializing, c # Top.class
                   PROVE  \E k \in DOMAIN rest : rest[k].class = c /\ rest[k].method = "<clinit>"
        BY <2>1, <2>9 DEF InitializersRun
      <4>1. PICK k \in DOMAIN frames : frames[k].class = c /\ frames[k].method = "<clinit>"
        BY DEF Shape, InitializersRun
      <4>2. k # n
        BY <2>5, <4>1
      <4>3. k \in 1 .. n - 1
        BY <2>3, <4>2
      <4> QED BY <2>3, <4>1, <4>3
    <3> QED BY <2>2, <2>6, <3>1, <3>2, <3>3 DEF Shape
  <2>10. CASE Top.method # "<clinit>"
    <3>1. ClassesShaped'
      BY <2>1, <2>6, <2>10 DEF Shape, ClassesShaped
    <3>2. ASSUME DOMAIN frames' = 1 .. n - 1,
                 \A k \in 1 .. n - 1 : frames'[k].class = frames[k].class /\ frames'[k].method = frames[k].method
          PROVE  InitializersRun'
      <4> SUFFICES ASSUME NEW c \in initializing
                   PROVE  \E k \in DOMAIN frames' : frames'[k].class = c /\ frames'[k].method = "<clinit>"
        BY <2>1, <2>10 DEF InitializersRun
      <4>1. PICK k \in DOMAIN frames : frames[k].class = c /\ frames[k].method = "<clinit>"
        BY DEF Shape, InitializersRun
      <4>2. k # n
        BY <2>5, <2>10, <4>1
      <4>3. k \in 1 .. n - 1
        BY <2>3, <4>2
      <4> QED BY <3>2, <4>1, <4>3
    <3>3. CASE rest = <<>>
      <4>1. frames' = rest
        BY <2>1, <2>10, <3>3
      <4>2. FramesShaped'
        BY <2>3, <2>8, <4>1
      <4>3. InitializersRun'
        BY <2>3, <3>2, <4>1
      <4> QED BY <2>2, <2>6, <3>1, <4>2, <4>3 DEF Shape
    <3>4. CASE rest # <<>>
      <4> DEFINE m == n - 1
      <4>1. m \in Nat \ {0} /\ m \in DOMAIN rest /\ caller = rest[m]
        BY <2>3, <3>4 DEF Last
      <4>2. caller \in Frames /\ Running(caller) /\ caller.steps < MaxSteps
        BY <2>3, <4>1 DEF Running
      <4>3. /\ above \in Frames /\ above.class = caller.class /\ above.method = caller.method
        <5> HIDE DEF caller
        <5> DEFINE stack == caller.stack \o result
                   g == [caller EXCEPT !.pc = @ + 1, !.stack = stack]
        <5>1. stack \in Seq(Values)
          <6>1. caller.stack \in Seq(Values)
            <7> HIDE DEF Values, Maps, MethodNames, Classes
            <7> QED BY <4>2 DEF Frames
          <6> QED BY <2>4, <6>1
        <5> HIDE DEF stack
        <5>2. g \in Frames /\ g.class = caller.class /\ g.method = caller.method /\ g.steps = caller.steps
          <6> HIDE DEF Values, Maps, MethodNames, Classes
          <6> DEFINE M == MethodNames
                     D == DOMAIN Classes
                     S == Seq(Values)
                     L == Maps(Nat)
          <6>1. caller \in [class : D, method : M, pc : Nat, steps : 0 .. MaxSteps, stack : S, locals : L]
            BY <4>2 DEF Frames
          <6>2. stack \in S /\ MaxSteps \in Nat
            BY <5>1, LimitsAssumption
          <6> HIDE DEF D, M, S, L
          <6> DEFINE pc == caller.pc + 1
          <6>3. pc \in Nat
            BY <6>1
          <6>4. g = [caller EXCEPT !.pc = pc, !.stack = stack]
            OBVIOUS
          <6> HIDE DEF g, pc
          <6>5. /\ g \in [class : D, method : M, pc : Nat, steps : 0 .. MaxSteps, stack : S, locals : L]
                /\ g.class = caller.class /\ g.method = caller.method /\ g.steps = caller.steps
            BY <6>1, <6>2, <6>3, <6>4
          <6> QED BY <6>5 DEF Frames, D, M, S, L
        <5>3. above = Counted(g)
          BY DEF stack
        <5> HIDE DEF g, above
        <5> HIDE DEF Values, Maps, MethodNames, Classes
        <5> QED BY <4>2, <5>2, <5>3, CountedAgain, LimitsAssumption DEF Frames, Counted
      <4>4. Running(above)
        BY <4>2, <4>3 DEF Running
      <4> HIDE DEF above, caller, Frames, Running
      <4>5. frames' = Append(Front(rest), above)
        BY <2>1, <2>10, <3>4
      <4>6. /\ Front(rest) \in Seq(Frames) /\ Len(Front(rest)) = m - 1 /\ DOMAIN Front(rest) = 1 .. m - 1
            /\ \A k \in 1 .. m - 1 : Front(rest)[k] = rest[k]
        BY <2>3, <3>4, FrontOf
      <4> DEFINE s == Append(Front(rest), above)
      <4>7. /\ s \in Seq(Frames) /\ Len(s) = m /\ DOMAIN s = 1 .. m /\ s[m] = above
            /\ \A k \in 1 .. m - 1 : s[k] = rest[k]
        BY <4>1, <4>3, <4>6
      <4> HIDE DEF s
      <4>8. \A k \in 1 .. m : k = m \/ k \in 1 .. m - 1
        BY <4>1
      <4>9. \A k \in DOMAIN s : Running(s[k]) /\ (k # Len(s) => s[k].steps < MaxSteps)
        BY <2>3, <4>4, <4>7, <4>8
      <4>10. FramesShaped'
        BY <2>8, <4>5, <4>7, <4>9 DEF s
      <4>11. \A k \in 1 .. m : s[k].class = frames[k].class /\ s[k].method = frames[k].method
        BY <2>3, <4>1, <4>3, <4>7, <4>8
      <4>12. InitializersRun'
        BY <3>2, <4>5, <4>7, <4>11 DEF s
      <4> QED BY <2>2, <2>6, <3>1, <4>10, <4>12 DEF Shape
    <3> QED BY <3>3, <3>4
  <2> QED BY <2>9, <2>10
<1> QED BY <1>2, <1>3

-----------------------------------------------------------------------------
(* The build as a whole. *)

\* A class that is to be initialized is one of the program's.
LEMMA NeededIsOwn ==
    ASSUME Shape, Pending PROVE Needed \in DOMAIN Classes
<1>1. Main \in DOMAIN Classes
  BY DEF Shape, IsProgram, Main, Classes
<1> QED BY <1>1 DEF Pending, Needed, Own

\* An initializer is called, or there is none to call.
LEMMA EnsureClassKeeps ==
    ASSUME Shape, EnsureClassInitialized PROVE Shape'
<1>1. /\ Needed \in DOMAIN Classes /\ Needed \notin initialized \cup initializing
      /\ verdict = "running" /\ (frames # <<>> => Top.steps < MaxSteps)
      /\ UNCHANGED <<program, begun, statics, heap, printlns, http_server, binary>>
  BY NeededIsOwn DEF EnsureClassInitialized, Pending
<1>2. Grows /\ HeapShaped' /\ StaticsShaped'
  BY <1>1, SameMemory
<1>3. (IsProgram(program))' /\ Classes' = Classes
  BY <1>1 DEF Shape, Classes, IsProgram, IsClass
<1>4. CASE ~Has(Needed, "<clinit>")
  <2>1. initialized' = initialized \cup {Needed} /\ UNCHANGED <<frames, initializing, verdict, reason>>
    BY <1>4 DEF EnsureClassInitialized
  <2>2. FramesShaped'
    <3>1. Frames \subseteq Frames' /\ \A f : Running(f) => Running(f)'
      BY <1>2, GrownFrames
    <3> HIDE DEF Frames
    <3>2. frames' \in Seq(Frames')
      BY <2>1, <3>1 DEF Shape, FramesShaped
    <3> QED BY <1>3, <2>1, <3>1, <3>2 DEF Shape, FramesShaped, Running
  <2>3. ClassesShaped'
    BY <1>1, <1>3, <2>1 DEF Shape, ClassesShaped
  <2>4. InitializersRun' /\ OutcomeShaped' /\ BinaryIsTheRun'
    BY <1>1, <2>1 DEF Shape, InitializersRun, OutcomeShaped, BinaryIsTheRun
  <2> QED BY <1>2, <1>3, <2>2, <2>3, <2>4 DEF Shape
<1>5. CASE Has(Needed, "<clinit>") /\ Len(frames) >= MaxDepth
  <2>1. verdict' = "refused" /\ reason' = "limit" /\ UNCHANGED <<frames, initialized, initializing>>
    BY <1>5 DEF EnsureClassInitialized
  <2>2. Refuse("limit")
    BY <1>1, <2>1 DEF Refuse, memory
  <2> QED BY <1>1, <2>2, Refused
<1>6. CASE Has(Needed, "<clinit>") /\ ~(Len(frames) >= MaxDepth)
  <2> DEFINE n == Len(frames)
             f == Entry(Needed, "<clinit>", <<>>)
  <2>1. /\ initializing' = initializing \cup {Needed} /\ frames' = Append(frames, f)
        /\ UNCHANGED <<initialized, verdict, reason>>
    BY <1>6 DEF EnsureClassInitialized
  <2>2. <<>> \in Seq(Values)
    OBVIOUS
  <2>3. Running(f) /\ f.class = Needed /\ f.method = "<clinit>"
    BY <1>1, <1>6, <2>2, Entered DEF Has
  <2>4. /\ frames \in Seq(Frames) /\ n \in Nat /\ n < MaxDepth
        /\ \A k \in DOMAIN frames : Running(frames[k]) /\ (k # n => frames[k].steps < MaxSteps)
    BY <1>6, LimitsAssumption DEF Shape, FramesShaped
  <2>5. \A k \in DOMAIN frames : frames[k].steps < MaxSteps
    <3> SUFFICES ASSUME NEW k \in DOMAIN frames PROVE frames[k].steps < MaxSteps
      OBVIOUS
    <3>1. frames # <<>>
      OBVIOUS
    <3>2. Top = frames[n] /\ Top.steps < MaxSteps
      BY <1>1, <3>1, TopFrame
    <3> QED BY <2>4, <3>2
  <2> HIDE DEF f, Frames, Running
  <2>6. FramesShaped' /\ SameMethods /\ frames'[n + 1] = f /\ n + 1 \in DOMAIN frames'
    BY <1>2, <2>1, <2>3, <2>4, <2>5, Pushed
  <2>7. ClassesShaped'
    BY <1>1, <1>3, <2>1 DEF Shape, ClassesShaped
  <2>8. InitializersRun'
    <3> SUFFICES ASSUME NEW c \in initializing \cup {Needed}
                 PROVE  \E k \in DOMAIN frames' : frames'[k].class = c /\ frames'[k].method = "<clinit>"
      BY <2>1 DEF InitializersRun
    <3>1. CASE c = Needed
      BY <2>3, <2>6, <3>1
    <3>2. CASE c \in initializing
      <4>1. PICK k \in DOMAIN frames : frames[k].class = c /\ frames[k].method = "<clinit>"
        BY <3>2 DEF Shape, InitializersRun
      <4> QED BY <2>6, <4>1 DEF SameMethods
    <3> QED BY <3>1, <3>2
  <2>9. OutcomeShaped' /\ BinaryIsTheRun'
    BY <1>1, <2>1 DEF Shape, OutcomeShaped, BinaryIsTheRun
  <2> QED BY <1>2, <1>3, <2>6, <2>7, <2>8, <2>9 DEF Shape
<1> QED BY <1>4, <1>5, <1>6

\* main is called.
LEMMA CompileMainKeeps ==
    ASSUME Shape, CompileMain PROVE Shape'
<1>1. verdict = "running" /\ frames = <<>>
  BY DEF CompileMain
<1>2. CASE MaxDepth = 0
  BY <1>1, <1>2, Refused DEF CompileMain
<1>3. CASE MaxDepth # 0
  <2> DEFINE f == Entry(Main, "main", <<Null>>)
  <2>1. frames' = <<f>> /\ UNCHANGED <<program, memory, verdict, reason, binary>>
    BY <1>3 DEF CompileMain
  <2>2. <<Null>> \in Seq(Values)
    <3>1. Null \in Values
      BY MadeValues
    <3> HIDE DEF Values
    <3> QED BY <3>1
  <2>3. Running(f)
    BY <2>2, Entered DEF Shape, IsProgram, Main, Classes
  <2>4. Grows /\ HeapShaped' /\ StaticsShaped'
    BY <2>1, SameMemory DEF memory
  <2>5. /\ <<>> \in Seq(Frames) /\ Len(<<>>) = Len(frames) /\ Len(frames) < MaxDepth
        /\ DOMAIN <<>> = {}
    BY <1>1, <1>3, LimitsAssumption
  <2>6. frames' = Append(<<>>, f)
    BY <2>1
  <2> HIDE DEF f, Frames, Running
  <2>7. FramesShaped' /\ SameMethods
    BY <2>3, <2>4, <2>5, <2>6, Pushed
  <2>8. (IsProgram(program))' /\ Classes' = Classes
    BY <2>1 DEF Shape, Classes, IsProgram, IsClass
  <2>9. ClassesShaped' /\ OutcomeShaped' /\ BinaryIsTheRun'
    BY <1>1, <2>1, <2>8 DEF Shape, ClassesShaped, OutcomeShaped, BinaryIsTheRun, memory
  <2>10. InitializersRun'
    BY <1>1, <2>1 DEF Shape, InitializersRun, memory
  <2> QED BY <2>4, <2>7, <2>8, <2>9, <2>10 DEF Shape
<1> QED BY <1>2, <1>3

\* A binary is made, when no frame is left and so no initializer runs.
LEMMA EmitKeeps ==
    ASSUME Shape, EmitC PROVE Shape'
<1>1. /\ verdict = "running" /\ begun /\ frames = <<>>
      /\ verdict' = "compiled" /\ binary' = Emitted
      /\ UNCHANGED <<program, begun, frames, memory, reason>>
  BY DEF EmitC
<1>2. Grows /\ HeapShaped' /\ StaticsShaped'
  BY <1>1, SameMemory DEF memory
<1>3. (IsProgram(program))' /\ Classes' = Classes
  BY <1>1 DEF Shape, Classes, IsProgram, IsClass
<1>4. FramesShaped'
  <2>1. frames' \in Seq(Frames') /\ Len(frames') <= MaxDepth /\ DOMAIN frames' = {}
    BY <1>1, LimitsAssumption
  <2> HIDE DEF Frames
  <2> QED BY <2>1 DEF FramesShaped
<1>5. ClassesShaped' /\ OutcomeShaped'
  BY <1>1, <1>3 DEF Shape, ClassesShaped, OutcomeShaped, memory
<1>6. initializing = {} /\ InitializersRun'
  BY <1>1 DEF Shape, InitializersRun, memory
<1>7. BinaryIsTheRun'
  <2>1. binary'.serves = http_server /\ (http_server = <<>> => binary'.prints = printlns)
    BY <1>1 DEF Emitted
  <2> QED BY <1>1, <1>6, <2>1 DEF BinaryIsTheRun, memory
<1> QED BY <1>2, <1>3, <1>4, <1>5, <1>6, <1>7 DEF Shape

\* Nothing happens.
LEMMA UnchangedKeeps ==
    ASSUME Shape, UNCHANGED vars PROVE Shape'
<1>1. UNCHANGED <<program, begun, frames, memory, verdict, reason, binary>>
  BY DEF vars
<1>2. Grows /\ HeapShaped' /\ StaticsShaped'
  BY <1>1, SameMemory DEF memory
<1>3. (IsProgram(program))' /\ Classes' = Classes
  BY <1>1 DEF Shape, Classes, IsProgram, IsClass
<1>4. FramesShaped'
  <2>1. Frames \subseteq Frames' /\ \A f : Running(f) => Running(f)'
    BY <1>2, GrownFrames
  <2> HIDE DEF Frames
  <2>2. frames' \in Seq(Frames')
    BY <1>1, <2>1 DEF Shape, FramesShaped
  <2> QED BY <1>1, <1>3, <2>1, <2>2 DEF Shape, FramesShaped, Running
<1>5. ClassesShaped' /\ OutcomeShaped' /\ InitializersRun' /\ BinaryIsTheRun'
  BY <1>1, <1>3 DEF Shape, ClassesShaped, OutcomeShaped, InitializersRun, BinaryIsTheRun, memory
<1> QED BY <1>2, <1>3, <1>4, <1>5 DEF Shape

\* A static field's ConstantValue is one of its type.
LEMMA ConstantHolds ==
    ASSUME IsProgram(program), NEW x \in StaticFields, Field(x).const # <<>>
    PROVE  ConstantValue(Field(x)) \in Values /\ Holds(Field(x).type, ConstantValue(Field(x)))
<1> DEFINE field == Field(x)
           v == field.const[1]
           type == field.type
<1>1. IsConstant(type, v)
  <2>1. PICK c \in DOMAIN Classes : x \in {c} \X FieldsOf(c, TRUE)
    BY DEF StaticFields
  <2>2. x[1] = c /\ x[2] \in DOMAIN Classes[c].fields /\ Classes[c].fields[x[2]].static
    BY <2>1 DEF FieldsOf
  <2>3. IsClass(Classes, Classes[c])
    BY <2>1 DEF IsProgram, Classes
  <2>4. field = Classes[c].fields[x[2]]
    BY <2>2 DEF Field
  <2> HIDE DEF field
  <2> QED BY <2>2, <2>3, <2>4 DEF IsClass, field
<1> HIDE DEF field
<1>2. CASE type = StringType
  <2>1. v \in Seq(CodePoints)
    BY <1>1, <1>2, TypesDiffer DEF IsConstant
  <2>2. ConstantValue(field) = String(v)
    BY <1>2, TypesDiffer DEF ConstantValue
  <2>3. String(v) \in Values
    BY <2>1, MadeValues
  <2>4. Fits(type, String(v))
    BY <1>2, TypesDiffer DEF Fits, String, Kind, IntTypes
  <2> QED BY <1>2, <2>2, <2>3, <2>4, TypesDiffer, HoldsCases DEF field
<1>3. CASE type = BooleanType
  <2>1. ConstantValue(field) = Bool(v[1] # 0)
    BY <1>3, TypesDiffer DEF ConstantValue
  <2>2. (v[1] # 0) \in BOOLEAN
    OBVIOUS
  <2>3. Bool(v[1] # 0) \in Values
    BY <2>2, BoolValue
  <2>4. Kind(Bool(v[1] # 0)) = "bool"
    BY DEF Bool, Kind
  <2> QED BY <1>3, <2>1, <2>3, <2>4, HoldsCases DEF field
<1>4. CASE type = CharType
  <2>1. v[1] \in (0 .. 2 ^ ShortBits - 1) \ Surrogates
    BY <1>1, <1>4, TypesDiffer DEF IsConstant
  <2>2. ConstantValue(field) = CharFrom(v[1])
    BY <1>4, TypesDiffer DEF ConstantValue
  <2>3. CharFrom(v[1]) \in {"char"} \X CodePoints
    BY <2>1, CharsFrom DEF CharFrom, Char, Bad
  <2> QED BY <1>4, <2>2, <2>3, HoldsCases, Points DEF Values, Kind, field
<1>5. CASE type \notin {StringType, BooleanType, CharType}
  <2>1. type \in IntTypes /\ v[1] \in Int
    BY <1>1, <1>5, TypesDiffer DEF IsConstant
  <2>2. ConstantValue(field) = Number(Narrow(type, v[1]))
    BY <1>5 DEF ConstantValue
  <2> QED BY <2>1, <2>2, NarrowedHolds DEF field
<1> QED BY <1>2, <1>3, <1>4, <1>5

\* A ConstantValue is of its field's type.
LEMMA InitialStatics ==
    ASSUME Init
    PROVE  /\ IsProgram(program) /\ statics \in Maps(StaticFields)
           /\ \A x \in DOMAIN statics : Holds(Field(x).type, statics[x])
<1>1. IsProgram(program)
  BY ProgramsAssumption DEF Init
<1> DEFINE D == {y \in StaticFields : Field(y).const # <<>>}
<1>2. statics = [x \in D |-> ConstantValue(Field(x))]
  BY DEF Init
<1>3. \A x \in D : ConstantValue(Field(x)) \in Values /\ Holds(Field(x).type, ConstantValue(Field(x)))
  BY <1>1, ConstantHolds
<1>4. D \in SUBSET StaticFields
  OBVIOUS
<1> HIDE DEF D, Values
<1>5. statics \in [D -> Values] /\ \A x \in D : Holds(Field(x).type, statics[x])
  BY <1>2, <1>3
<1>6. statics \in Maps(StaticFields)
  BY <1>4, <1>5 DEF Maps
<1> QED BY <1>1, <1>5, <1>6

\* Everything is in shape before main is called.
LEMMA InitialShape ==
    ASSUME Init PROVE Shape
<1>1. /\ frames = <<>> /\ heap = <<>> /\ initialized = {} /\ initializing = {}
      /\ verdict = "running" /\ reason = ""
  BY DEF Init
<1>2. FramesShaped
  <2>0. <<>> \in Seq(Frames) /\ Len(<<>>) = 0 /\ DOMAIN <<>> = {}
    OBVIOUS
  <2>1. frames \in Seq(Frames) /\ Len(frames) <= MaxDepth /\ DOMAIN frames = {}
    <3> HIDE DEF Frames
    <3>1. frames \in Seq(Frames) /\ Len(frames) = 0 /\ DOMAIN frames = {}
      BY <1>1, <2>0
    <3>2. 0 <= MaxDepth
      BY LimitsAssumption
    <3> QED BY <3>1, <3>2
  <2> HIDE DEF Frames
  <2> QED BY <2>1 DEF FramesShaped
<1>3. HeapShaped
  <2>0. <<>> \in Seq(Things) /\ DOMAIN <<>> = {}
    OBVIOUS
  <2>1. heap \in Seq(Things) /\ DOMAIN heap = {}
    BY <1>1, <2>0
  <2> HIDE DEF Things
  <2> QED BY <2>1 DEF HeapShaped
<1>4. ClassesShaped /\ InitializersRun /\ OutcomeShaped /\ BinaryIsTheRun
  BY <1>1 DEF ClassesShaped, InitializersRun, OutcomeShaped, BinaryIsTheRun
<1> QED BY <1>2, <1>3, <1>4, InitialStatics DEF Shape, StaticsShaped

\* Every step keeps everything in shape.
LEMMA NextShape ==
    ASSUME Shape, [Next]_vars PROVE Shape'
<1>1. CASE EnsureClassInitialized
  BY <1>1, EnsureClassKeeps
<1>2. CASE CompileMain
  BY <1>2, CompileMainKeeps
<1>3. CASE ExceedSteps
  BY <1>3, Refused DEF ExceedSteps
<1>4. CASE UnknownOpcode
  BY <1>4, Refused, AtExecutes DEF UnknownOpcode, Executes
<1>5. CASE EmitC
  BY <1>5, EmitKeeps
<1>6. CASE Rest \/ UNCHANGED vars
  BY <1>6, UnchangedKeeps DEF Rest
<1>7. CASE EvalLocals \/ EvalArithmetic \/ EvalBranch \/ EvalReturn
  BY <1>7, LocalsKeep, ArithmeticKeeps, BranchKeeps, ReturnKeeps
<1>8. CASE EvalGetstatic \/ EvalPutstatic \/ EvalNew \/ EvalGetfield \/ EvalPutfield
  BY <1>8, GetstaticKeeps, PutstaticKeeps, NewKeeps, GetfieldKeeps, PutfieldKeeps
<1>9. CASE EvalNewarray \/ EvalArrayLoad \/ EvalArrayStore \/ EvalArraylength \/ EvalCheckcast
  BY <1>9, NewarrayKeeps, ArrayLoadKeeps, ArrayStoreKeeps, ArraylengthKeeps, CheckcastKeeps
<1>10. CASE EvalPrintln \/ EvalCoreVirtual \/ EvalInvokeVirtual \/ EvalInvokespecial
  BY <1>10, PrintlnKeeps, CoreVirtualKeeps, InvokeVirtualKeeps, InvokespecialKeeps
<1>11. CASE EvalInvokestatic \/ EvalRespond \/ EvalInvokedynamic
  BY <1>11, InvokestaticKeeps, RespondKeeps, InvokedynamicKeeps
<1> QED BY <1>1, <1>2, <1>3, <1>4, <1>5, <1>6, <1>7, <1>8, <1>9, <1>10, <1>11 DEF Next

\* Frames, heap, statics and classes are what the evaluator's code takes them for, whatever the
\* program: the invariant that the theorems below rest on.
THEOREM EvaluatorShape == Spec => []Shape
<1>1. Init => Shape
  BY InitialShape
<1>2. Shape /\ [Next]_vars => Shape'
  BY NextShape
<1> QED BY <1>1, <1>2, PTL DEF Spec

-----------------------------------------------------------------------------
(* What memory holds is of its declared type. *)

FitsIn(h, type, v) ==
    CASE type \in {IntType, ByteType, ShortType} -> Kind(v) = "int"
      [] type = BooleanType -> Kind(v) = "bool" \/ v \in {Number(0), Number(1)}
      [] type = CharType -> Kind(v) = "char" \/ (Kind(v) = "int" /\ v[2] \in CodePoints)
      [] type = Object(ObjectClass) -> Kind(v) \in References
      [] type \in StringFields -> Kind(v) \in {"string", "null"}
      [] IsArray(type) -> \/ Kind(v) = "null"
                          \/ Kind(v) = "array" /\ h[v[2]].type = Element(type)
      [] OTHER -> \/ Kind(v) = "null"
                  \/ Kind(v) = "object" /\ type = Object(h[v[2]].class)
HoldsIn(h, type, v) ==
    CASE type = BooleanType -> Kind(v) = "bool"
      [] type = CharType -> Kind(v) = "char" /\ v[2] \notin Surrogates
      [] type \in {IntType, ByteType, ShortType} -> Kind(v) = "int" /\ v[2] = Narrow(type, v[2])
      [] OTHER -> FitsIn(h, type, v)

\* Fits and Holds of a heap that is given, and what MemoryTyped says of memory.
StaticType(classes, x) == classes[x[1]].fields[x[2]].type
TypeOfCell(classes, thing, c) ==
    IF thing.class \in DOMAIN classes THEN classes[thing.class].fields[c].type ELSE thing.type
HeldIn(classes, s, h) ==
    /\ \A x \in DOMAIN s : HoldsIn(h, StaticType(classes, x), s[x])
    /\ \A a \in DOMAIN h : \A c \in DOMAIN h[a].cells :
         HoldsIn(h, TypeOfCell(classes, h[a], c), h[a].cells[c])
Held == HeldIn(Classes, statics, heap)

\* Holds is that of the heap there is.
LEMMA HoldsIsIn == \A type, v : Holds(type, v) <=> HoldsIn(heap, type, v)
<1>1. \A type, v : Fits(type, v) <=> FitsIn(heap, type, v)
  BY DEF Fits, FitsIn
<1> QED BY <1>1 DEF Holds, HoldsIn

\* When memory grows, a value still is of its declared type.
LEMMA GrownHolds ==
    ASSUME Grows, NEW type, NEW v \in Values, HoldsIn(heap, type, v)
    PROVE  HoldsIn(heap', type, v)
<1>1. FitsIn(heap, type, v) => FitsIn(heap', type, v)
  <2>1. Kind(v) = "array" => heap'[v[2]].type = heap[v[2]].type
    BY ValueOfKind DEF Arrays, Grows
  <2>2. Kind(v) = "object" => heap'[v[2]].class = heap[v[2]].class
    BY ValueOfKind DEF Objects, Grows
  <2> QED BY <2>1, <2>2 DEF FitsIn
<1>2. CASE type \in IntLike
  <2>1. type \in IntTypes \/ type = BooleanType \/ type = CharType
    BY <1>2, TypesDiffer
  <2> QED BY <2>1, TypesDiffer DEF HoldsIn, IntTypes
<1>3. CASE type \notin IntLike
  <2>1. type \notin {BooleanType, CharType, IntType, ByteType, ShortType}
    BY <1>3, TypesDiffer DEF IntTypes
  <2> QED BY <1>1, <2>1 DEF HoldsIn
<1> QED BY <1>2, <1>3

\* Nothing of memory is written.
LEMMA HeldStays ==
    ASSUME Held, UNCHANGED <<program, statics, heap>> PROVE Held'
BY DEF Held, Classes

\* The statics, when only the heap grows.
LEMMA StaticsHeld ==
    ASSUME Shape, Held, Grows, statics' = statics
    PROVE  \A x \in DOMAIN statics' : HoldsIn(heap', StaticType(Classes', x), statics'[x])
<1> SUFFICES ASSUME NEW x \in DOMAIN statics PROVE HoldsIn(heap', StaticType(Classes, x), statics[x])
  BY DEF Grows, Classes
<1>1. statics[x] \in Values /\ HoldsIn(heap, StaticType(Classes, x), statics[x])
  BY StaticValues DEF Held, HeldIn
<1> DEFINE v == statics[x]
           type == StaticType(Classes, x)
<1>2. v \in Values /\ HoldsIn(heap, type, v)
  BY <1>1
<1> HIDE DEF v, type
<1>3. HoldsIn(heap', type, v)
  BY <1>2, GrownHolds
<1> QED BY <1>3 DEF v, type

\* A cell that stays as it is.
LEMMA CellHeld ==
    ASSUME Shape, Held, Grows, NEW a \in DOMAIN heap, NEW c \in DOMAIN heap[a].cells
    PROVE  HoldsIn(heap', TypeOfCell(Classes', heap[a], c), heap[a].cells[c])
<1> DEFINE v == heap[a].cells[c]
           type == TypeOfCell(Classes, heap[a], c)
<1>1. v \in Values /\ HoldsIn(heap, type, v) /\ Classes' = Classes
  BY CellValues DEF Held, HeldIn, Grows, Classes
<1> HIDE DEF v, type
<1>2. HoldsIn(heap', type, v)
  BY <1>1, GrownHolds
<1> QED BY <1>1, <1>2 DEF v, type

\* What is allocated holds values of its types.
LEMMA HeldAllocated ==
    ASSUME Shape, Held, Grows, NEW made, heap' = Append(heap, made), statics' = statics,
           \A c \in DOMAIN made.cells :
             made.cells[c] \in Values /\ HoldsIn(heap, TypeOfCell(Classes, made, c), made.cells[c])
    PROVE  Held'
<1> DEFINE n == Len(heap)
<1>1. n \in Nat /\ DOMAIN heap = 1 .. n
  BY DEF Shape, HeapShaped
<1>2. DOMAIN heap' = 1 .. n + 1 /\ heap'[n + 1] = made /\ \A a \in 1 .. n : heap'[a] = heap[a]
  <2>1. heap \in Seq(ToSet(heap))
    BY HeapIsSeq
  <2> QED BY <1>1, <2>1
<1>3. ASSUME NEW a \in DOMAIN heap', NEW c \in DOMAIN heap'[a].cells
      PROVE  HoldsIn(heap', TypeOfCell(Classes', heap'[a], c), heap'[a].cells[c])
  <2>1. CASE a = n + 1
    <3> DEFINE v == made.cells[c]
               type == TypeOfCell(Classes, made, c)
    <3>1. v \in Values /\ HoldsIn(heap, type, v) /\ Classes' = Classes
      BY <1>2, <1>3, <2>1 DEF Grows, Classes
    <3> HIDE DEF v, type
    <3>2. HoldsIn(heap', type, v)
      BY <3>1, GrownHolds
    <3>3. heap'[a] = made
      BY <1>2, <2>1
    <3>4. HoldsIn(heap', TypeOfCell(Classes', made, c), made.cells[c])
      BY <3>1, <3>2 DEF v, type
    <3> QED BY <3>3, <3>4
  <2>2. CASE a # n + 1
    <3>1. a \in 1 .. n
      BY <1>1, <1>2, <2>2
    <3>2. heap'[a] = heap[a] /\ a \in DOMAIN heap /\ c \in DOMAIN heap[a].cells
      BY <1>1, <1>2, <1>3, <3>1
    <3> QED BY <3>2, CellHeld
  <2> QED BY <2>1, <2>2
<1> HIDE DEF n
<1> QED BY <1>3, StaticsHeld DEF Held, HeldIn

\* A cell is written with a value of its type.
LEMMA HeldWritten ==
    ASSUME Shape, Held, Executes, NEW k \in Nat, NEW id \in DOMAIN heap, NEW cell, NEW value \in Values,
           \/ cell \in DOMAIN heap[id].cells
           \/ Own(heap[id].class) /\ cell \in FieldsOf(heap[id].class, FALSE),
           Write(id, cell, value, k), HoldsIn(heap, TypeOfCell(Classes, heap[id], cell), value)
    PROVE  Held'
<1>1. /\ Grows /\ DOMAIN heap' = DOMAIN heap
      /\ heap'[id].cells = Put(heap[id].cells, cell, value)
      /\ \A a \in DOMAIN heap : a # id => heap'[a] = heap[a]
  BY Written
<1>2. statics' = statics /\ Classes' = Classes
  BY DEF Write, Steady, Classes
<1>3. ASSUME NEW a \in DOMAIN heap', NEW c \in DOMAIN heap'[a].cells
      PROVE  HoldsIn(heap', TypeOfCell(Classes', heap'[a], c), heap'[a].cells[c])
  <2>1. CASE a # id
    <3>1. heap'[a] = heap[a] /\ a \in DOMAIN heap /\ c \in DOMAIN heap[a].cells
      BY <1>1, <1>3, <2>1
    <3>2. HoldsIn(heap', TypeOfCell(Classes', heap[a], c), heap[a].cells[c])
      BY <1>1, <3>1, CellHeld
    <3> QED BY <3>1, <3>2
  <2>2. CASE a = id
    <3>1. heap'[id].class = heap[id].class /\ heap'[id].type = heap[id].type
      BY <1>1 DEF Grows
    <3>2. \A d : TypeOfCell(Classes', heap'[id], d) = TypeOfCell(Classes', heap[id], d)
      BY <3>1 DEF TypeOfCell
    <3>3. c = cell \/ (c # cell /\ c \in DOMAIN heap[id].cells)
      BY <1>1, <1>3, <2>2 DEF Put
    <3>4. CASE c = cell
      <4>1. heap'[id].cells[c] = value
        BY <1>1, <3>4 DEF Put
      <4> DEFINE type == TypeOfCell(Classes, heap[id], cell)
      <4>2. HoldsIn(heap, type, value)
        OBVIOUS
      <4> HIDE DEF type
      <4>3. HoldsIn(heap', type, value)
        BY <1>1, <4>2, GrownHolds
      <4> QED BY <1>2, <2>2, <3>2, <3>4, <4>1, <4>3 DEF type
    <3>5. CASE c # cell /\ c \in DOMAIN heap[id].cells
      <4>1. heap'[id].cells[c] = heap[id].cells[c]
        BY <1>1, <3>5 DEF Put
      <4>2. HoldsIn(heap', TypeOfCell(Classes', heap[id], c), heap[id].cells[c])
        BY <1>1, <3>5, CellHeld
      <4> QED BY <2>2, <3>2, <4>1, <4>2
    <3> QED BY <3>3, <3>4, <3>5
  <2> QED BY <2>1, <2>2
<1> QED BY <1>1, <1>2, <1>3, StaticsHeld DEF Held, HeldIn

\* putstatic writes a value of the field's type.
LEMMA PutstaticHolds ==
    ASSUME Shape, Held, EvalPutstatic PROVE Held'
<1> DEFINE value == ForField(J.type, Arg(1))
           y == <<J.class, J.name>>
<1>1. Executes /\ J.op = "putstatic"
  BY AtExecutes DEF EvalPutstatic
<1>2. CASE Refuse("value")
  BY <1>2, HeldStays DEF Refuse, memory
<1>3. CASE ~Refuse("value")
  <2>1. /\ StaticIsOwn /\ value # Bad /\ Fits(J.type, value)
        /\ statics' = Put(statics, y, value)
        /\ UNCHANGED <<program, heap>>
    BY <1>3 DEF EvalPutstatic, Steady
  <2>2. value \in Values /\ Holds(J.type, value)
    BY <1>1, <2>1, FieldValue
  <2>3. J.type = StaticType(Classes, y)
    BY <1>1, <2>1, Instruction DEF IsInstruction, Executes, StaticIsOwn, Own, FieldsOf, StaticType
  <2> HIDE DEF value, y
  <2>4. HoldsIn(heap, StaticType(Classes, y), value)
    BY <2>2, <2>3, HoldsIsIn
  <2>5. \A x \in DOMAIN statics' : HoldsIn(heap, StaticType(Classes, x), statics'[x])
    BY <2>1, <2>4 DEF Held, HeldIn, Put
  <2> QED BY <2>1, <2>5 DEF Held, HeldIn, Classes
<1> QED BY <1>2, <1>3

\* A new object has nothing to hold.
LEMMA NewHolds ==
    ASSUME Shape, Held, EvalNew PROVE Held'
<1> DEFINE made == [class |-> J.class, type |-> VoidType, cells |-> NoCells]
<1>1. CASE ~Own(J.class)
  BY <1>1, HeldStays DEF EvalNew, Refuse, memory
<1>2. CASE Own(J.class)
  <2>1. heap' = Append(heap, made) /\ UNCHANGED <<program, statics>>
    BY <1>2 DEF EvalNew, Allocate, Steady
  <2>2. DOMAIN made.cells = {}
    BY DEF NoCells
  <2>3. Grows
    <3>1. heap \in Seq(ToSet(heap))
      BY HeapIsSeq
    <3> HIDE DEF made
    <3> QED BY <2>1, <3>1 DEF Grows
  <2> HIDE DEF made
  <2> QED BY <2>1, <2>2, <2>3, HeldAllocated
<1> QED BY <1>1, <1>2

\* An allocation leaves what there was.
LEMMA AppendGrows ==
    ASSUME Shape, NEW made, heap' = Append(heap, made), program' = program PROVE Grows
<1>1. heap \in Seq(ToSet(heap))
  BY HeapIsSeq
<1> QED BY <1>1 DEF Grows

\* A new array holds defaults of its component's type.
LEMMA NewarrayHolds ==
    ASSUME Shape, Held, EvalNewarray PROVE Held'
<1> DEFINE cells == [k \in 0 .. IntOf(Arg(1))[2] - 1 |-> DefaultValue(J.type)]
           made == [class |-> ArrayClass, type |-> J.type, cells |-> cells]
<1>1. CASE Refuse("value")
  BY <1>1, HeldStays DEF Refuse, memory
<1>2. CASE ~Refuse("value")
  <2>1. heap' = Append(heap, made) /\ UNCHANGED <<program, statics>>
    BY <1>2 DEF EvalNewarray, Allocate, Steady
  <2>2. ArrayClass \notin DOMAIN Classes
    BY DEF Shape, IsProgram, Classes
  <2>3. \A c \in DOMAIN made.cells :
          made.cells[c] \in Values /\ HoldsIn(heap, TypeOfCell(Classes, made, c), made.cells[c])
    <3>1. DefaultValue(J.type) \in Values /\ HoldsIn(heap, J.type, DefaultValue(J.type))
      BY DefaultHolds, HoldsIsIn
    <3>2. made.cells = cells /\ \A c : TypeOfCell(Classes, made, c) = J.type
      BY <2>2 DEF TypeOfCell
    <3>3. \A c \in DOMAIN cells : cells[c] = DefaultValue(J.type)
      OBVIOUS
    <3> HIDE DEF cells, made
    <3> QED BY <3>1, <3>2, <3>3
  <2> HIDE DEF made
  <2>4. Grows
    BY <2>1, AppendGrows
  <2> QED BY <2>1, <2>3, <2>4, HeldAllocated
<1> QED BY <1>1, <1>2

\* putfield writes a value of the field's type.
LEMMA PutfieldHolds ==
    ASSUME Shape, Held, EvalPutfield PROVE Held'
<1> DEFINE value == ForField(J.type, Arg(1))
           object == Arg(2)
<1>1. Executes /\ J.op = "putfield"
  BY AtExecutes DEF EvalPutfield
<1>2. CASE Refuse("value")
  BY <1>2, HeldStays DEF Refuse, memory
<1>3. CASE ~Refuse("value")
  <2>1. value # Bad /\ Fits(J.type, value) /\ FieldIsOwn(object) /\ Write(object[2], J.name, value, 2)
    BY <1>3 DEF EvalPutfield
  <2>2. value \in Values /\ Holds(J.type, value)
    BY <1>1, <2>1, FieldValue
  <2>3. object \in Values \cup {Bad}
    BY <1>1, Popping DEF Executes
  <2> HIDE DEF value, object
  <2>4. /\ object[2] \in DOMAIN heap /\ Own(heap[object[2]].class) /\ heap[object[2]].class = J.class
        /\ J.name \in FieldsOf(heap[object[2]].class, FALSE)
    BY <2>1, <2>3, Referred DEF FieldIsOwn
  <2>5. J.type = TypeOfCell(Classes, heap[object[2]], J.name)
    BY <1>1, <2>4, Instruction DEF IsInstruction, Executes, Own, FieldsOf, TypeOfCell
  <2>6. HoldsIn(heap, TypeOfCell(Classes, heap[object[2]], J.name), value)
    BY <2>2, <2>5, HoldsIsIn
  <2> QED BY <1>1, <2>1, <2>2, <2>4, <2>6, HeldWritten
<1> QED BY <1>2, <1>3

\* A store writes a value of the component's type, given that aastore is on references.
LEMMA ArrayStoreHolds ==
    ASSUME Shape, Held, StoresVerified, EvalArrayStore PROVE Held'
<1>1. Executes
  BY AtExecutes DEF EvalArrayStore
<1>2. CASE Refuse("value")
  BY <1>2, HeldStays DEF Refuse, memory
<1>3. CASE ~Refuse("value")
  <2> DEFINE id == Arg(3)[2]
             index == IntOf(Arg(2))[2]
             type == heap[id].type
             value == IF J.op = "aastore" THEN Arg(1) ELSE FromInt(type, IntOf(Arg(1))[2])
  <2>1. /\ Kind(Arg(3)) = "array" /\ id \in DOMAIN heap /\ heap[id].class = ArrayClass
        /\ index \in DOMAIN heap[id].cells
        /\ value \in Values /\ Fits(type, value)
        /\ J.op # "aastore" => Holds(type, value)
        /\ Write(id, index, value, 3)
    BY <1>3, StoredElement
  <2>2. J.op = "aastore" => type \notin IntLike
    BY <1>1, <2>1 DEF StoresVerified, Executes
  <2>3. TypeOfCell(Classes, heap[id], index) = type
    BY <2>1 DEF TypeOfCell, Shape, IsProgram, Classes
  <2> HIDE DEF id, index, value, type
  <2>4. Holds(type, value)
    BY <2>1, <2>2, HoldsCases
  <2>5. HoldsIn(heap, TypeOfCell(Classes, heap[id], index), value)
    BY <2>3, <2>4, HoldsIsIn
  <2> QED BY <1>1, <2>1, <2>5, HeldWritten
<1> QED BY <1>2, <1>3

\* A clone holds what the array held.
LEMMA CoreVirtualHolds ==
    ASSUME Shape, Held, EvalCoreVirtual PROVE Held'
<1>1. Executes /\ J.op = "invokevirtual"
  BY AtExecutes DEF EvalCoreVirtual
<1>2. Receiver \in Values \cup {Bad}
  BY <1>1, GivenValues DEF Calls
<1>3. \/ UNCHANGED <<program, statics, heap>>
      \/ /\ Kind(Receiver) = "array" /\ heap' = Append(heap, heap[Receiver[2]])
         /\ UNCHANGED <<program, statics>>
  BY DEF EvalCoreVirtual, Gives, Refuse, Allocate, Steady, memory
<1>4. CASE UNCHANGED <<program, statics, heap>>
  BY <1>4, HeldStays
<1>5. CASE /\ Kind(Receiver) = "array" /\ heap' = Append(heap, heap[Receiver[2]])
           /\ UNCHANGED <<program, statics>>
  <2> DEFINE id == Receiver[2]
             made == heap[id]
  <2>1. id \in DOMAIN heap
    BY <1>2, <1>5, Referred
  <2> HIDE DEF id
  <2>2. \A c \in DOMAIN made.cells :
          made.cells[c] \in Values /\ HoldsIn(heap, TypeOfCell(Classes, made, c), made.cells[c])
    BY <2>1, CellValues DEF Held, HeldIn
  <2>3. heap' = Append(heap, made) /\ program' = program /\ statics' = statics
    BY <1>5 DEF id
  <2> HIDE DEF made
  <2>4. Grows
    BY <2>3, AppendGrows
  <2> QED BY <2>2, <2>3, <2>4, HeldAllocated
<1> QED BY <1>3, <1>4, <1>5

\* Every step leaves memory typed.
LEMMA NextHeld ==
    ASSUME Shape, Held, StoresVerified, [Next]_vars PROVE Held'
<1>1. CASE EvalPutstatic
  BY <1>1, PutstaticHolds
<1>2. CASE EvalNew
  BY <1>2, NewHolds
<1>3. CASE EvalNewarray
  BY <1>3, NewarrayHolds
<1>4. CASE EvalPutfield
  BY <1>4, PutfieldHolds
<1>5. CASE EvalArrayStore
  BY <1>5, ArrayStoreHolds
<1>6. CASE EvalCoreVirtual
  BY <1>6, CoreVirtualHolds
<1>7. CASE EnsureClassInitialized \/ CompileMain \/ ExceedSteps \/ UnknownOpcode \/ EmitC \/ Rest \/ UNCHANGED vars
  <2>1. UNCHANGED <<program, statics, heap>>
    BY <1>7 DEF EnsureClassInitialized, CompileMain, ExceedSteps, UnknownOpcode, EmitC, Rest, Refuse, memory, vars
  <2> QED BY <2>1, HeldStays
<1>8. CASE EvalLocals \/ EvalArithmetic \/ EvalBranch \/ EvalReturn \/ EvalGetstatic \/ EvalGetfield
  <2>1. UNCHANGED <<program, statics, heap>>
    BY <1>8 DEF EvalLocals, EvalArithmetic, EvalBranch, EvalReturn, EvalGetstatic, EvalGetfield,
                StoreLocal, Gives, Refuse, Steady, memory
  <2> QED BY <2>1, HeldStays
<1>9. CASE EvalArrayLoad \/ EvalArraylength \/ EvalCheckcast \/ EvalPrintln \/ EvalRespond \/ EvalInvokedynamic
  <2>1. UNCHANGED <<program, statics, heap>>
    BY <1>9 DEF EvalArrayLoad, EvalArraylength, EvalCheckcast, EvalPrintln, EvalRespond, EvalInvokedynamic,
                Gives, Refuse, Steady, memory
  <2> QED BY <2>1, HeldStays
<1>10. CASE EvalInvokeVirtual \/ EvalInvokespecial \/ EvalInvokestatic
  <2>1. UNCHANGED <<program, statics, heap>>
    BY <1>10 DEF EvalInvokeVirtual, EvalInvokespecial, EvalInvokestatic, EvalMethod, Refuse, Steady, memory
  <2> QED BY <2>1, HeldStays
<1> QED BY <1>1, <1>2, <1>3, <1>4, <1>5, <1>6, <1>7, <1>8, <1>9, <1>10 DEF Next

\* Memory is typed before main is called.
LEMMA InitialHeld ==
    ASSUME Init PROVE Held
<1>1. \A x \in DOMAIN statics : HoldsIn(heap, StaticType(Classes, x), statics[x])
  BY InitialStatics, HoldsIsIn DEF Field, StaticType
<1>2. DOMAIN heap = {}
  <2>1. heap = <<>>
    BY DEF Init
  <2>2. DOMAIN <<>> = {}
    OBVIOUS
  <2> QED BY <2>1, <2>2
<1> QED BY <1>1, <1>2 DEF Held, HeldIn

-----------------------------------------------------------------------------
(* What follows of every run. *)

\* The type invariant follows from the shape.
LEMMA ShapeTypes ==
    ASSUME Shape, StoresVerified PROVE TypeOK
<1>1. /\ verdict \in {"running", "compiled", "refused"}
      /\ reason \in IF verdict = "refused" THEN {"limit", "value", "opcode"} ELSE {""}
  BY DEF Shape, OutcomeShaped
<1>2. /\ initialized \cup initializing \subseteq DOMAIN Classes
      /\ initialized \cap initializing = {}
  BY DEF Shape, ClassesShaped
<1>3. Len(frames) <= MaxDepth
  BY DEF Shape, FramesShaped
<1>4. ASSUME NEW k \in DOMAIN frames
      PROVE  frames[k].steps <= MaxSteps /\ Bad \notin ToSet(frames[k].stack)
  <2>1. frames[k].steps \in 0 .. MaxSteps /\ frames[k].stack \in Seq(Values)
    BY <1>4 DEF Shape, FramesShaped, Running, Frames
  <2> DEFINE stack == frames[k].stack
  <2>2. stack \in Seq(Values)
    BY <2>1
  <2> HIDE DEF stack
  <2>3. \A i \in DOMAIN stack : stack[i] \in Values
    BY <2>2
  <2>4. Bad \notin ToSet(stack)
    BY <2>3, BadIsNoValue DEF ToSet
  <2> QED BY <2>1, <2>4, LimitsAssumption DEF stack
<1> QED BY <1>1, <1>2, <1>3, <1>4 DEF TypeOK

\* MemoryTyped follows from the two.
LEMMA HeldIsTyped ==
    ASSUME Shape, Held, StoresVerified PROVE MemoryTyped
<1>1. \A x \in DOMAIN statics : Holds(Field(x).type, statics[x])
  BY HoldsIsIn DEF Held, HeldIn, StaticType, Field
<1>2. ASSUME NEW a \in DOMAIN heap, NEW c \in DOMAIN heap[a].cells
      PROVE  Holds(IF Own(heap[a].class) THEN Classes[heap[a].class].fields[c].type ELSE heap[a].type,
                   heap[a].cells[c])
  <2>1. HoldsIn(heap, TypeOfCell(Classes, heap[a], c), heap[a].cells[c])
    BY <1>2 DEF Held, HeldIn
  <2>2. TypeOfCell(Classes, heap[a], c)
          = IF Own(heap[a].class) THEN Classes[heap[a].class].fields[c].type ELSE heap[a].type
    BY DEF TypeOfCell, Own
  <2> QED BY <2>1, <2>2, HoldsIsIn
<1> QED BY <1>1, <1>2, ShapeTypes DEF MemoryTyped

\* A binary is made only of a finished run: main has returned, no initializer is left half way,
\* and what is emitted is what was printed or served.
THEOREM BinaryIsOfTheRun == Spec => []BinaryIsTheRun
<1>1. Shape => BinaryIsTheRun
  BY DEF Shape
<1> QED BY <1>1, EvaluatorShape, PTL

\* No value that failed to convert is ever on a stack, no limit is passed, and a class is
\* never both initialized and being initialized.
THEOREM EvaluatorTypes == Spec /\ []StoresVerified => []TypeOK
<1>1. Shape /\ StoresVerified => TypeOK
  BY ShapeTypes
<1> QED BY <1>1, EvaluatorShape, PTL

\* Whatever the program and however it runs, each static, each field and each element that was
\* written holds a value of the kind its declared type calls for, and a narrow one within its
\* width: the conversions at putfield, putstatic, a store and a ConstantValue miss no case.
THEOREM MemoryStaysTyped == Spec /\ []StoresVerified => []MemoryTyped
<1>1. Init => Shape /\ Held
  BY InitialShape, InitialHeld
<1>2. Shape /\ Held /\ StoresVerified /\ [Next]_vars => (Shape /\ Held)'
  <2>1. Shape /\ Held /\ StoresVerified /\ [Next]_vars => Shape'
    BY NextShape
  <2>2. Shape /\ Held /\ StoresVerified /\ [Next]_vars => Held'
    BY NextHeld
  <2> QED BY <2>1, <2>2
<1>3. Shape /\ Held /\ StoresVerified => MemoryTyped
  BY HeldIsTyped
<1> QED BY <1>1, <1>2, <1>3, PTL DEF Spec
=============================================================================
