----------------------------- MODULE JavaProgram -----------------------------
(***************************************************************************)
(* A program as the class files of a JAR give it, and the characters of    *)
(* its strings.                                                            *)
(*                                                                         *)
(* A class has its superclass ("" for Object), its interfaces, its fields  *)
(* and the methods that have code, by names that stand for name and        *)
(* descriptor; a static field may have a ConstantValue.  A superclass is a *)
(* class of the program, and no interface extends another.  A character is *)
(* a code point; Java counts strings in units, two of which make one       *)
(* supplementary code point.                                               *)
(***************************************************************************)
EXTENDS JavaInts

CONSTANTS
    Programs,           \* the programs to build, as a sequence of families of them
    HighUnit, LowUnit   \* the two surrogate units

\* No character is a surrogate, those of ASCII among them.
ASSUME UnitsAssumption ==
    /\ HighUnit \in 1 .. 2 ^ ShortBits - 1 /\ LowUnit \in 1 .. 2 ^ ShortBits - 1 /\ HighUnit # LowUnit
    /\ HighUnit \notin 45 .. 122 /\ LowUnit \notin 45 .. 122
Surrogates == {HighUnit, LowUnit}
CodePoints == Nat \ Surrogates

VARIABLE program

Classes == program.classes
Main == program.main
Own(class) == class \in DOMAIN Classes

\* ClassFile::method.
Has(class, name) == name \in DOMAIN Classes[class].methods
MethodOf(class, name) == Classes[class].methods[name]
FieldsOf(class, static) ==
    {f \in DOMAIN Classes[class].fields : Classes[class].fields[f].static = static}

\* A class and its superclasses, the nearest first.
Lineage(class) ==
    LET up[c \in DOMAIN Classes \cup {""}] ==
          IF c = "" THEN <<>> ELSE <<c>> \o up[Classes[c].super]
    IN up[class]

\* What is initialized before a class, and the class, the last one first: its superclasses,
\* and of each the interfaces that have a method of their own to inherit.
WithDefaults(class) ==
    {i \in Classes[class].interfaces :
       Own(i) /\ \E m \in DOMAIN Classes[i].methods : ~Classes[i].methods[m].static}
InitializedWith(class) ==
    LET up == Lineage(class)
    IN FlattenSeq([k \in DOMAIN up |-> <<up[k]>> \o SetToSeq(WithDefaults(up[k]))])

ObjectClass == "java/lang/Object"
CharSequence == "java/lang/CharSequence"
StringClass == "java/lang/String"
ArrayClass == "["
Printer == "java/io/PrintStream"
Http == "fvm/runtime/Http"
System == "java/lang/System"

\* The two members of the library that stand for the world outside: System.out, and the
\* server, which is no call of the class that a program has for it.
IsSystemOut(j) == j.class = System /\ j.name = "out" /\ j.type = Object(Printer)
IsRespond(j) == j.op = "invokestatic" /\ j.class = Http /\ j.name = "respond"

-----------------------------------------------------------------------------
(* The programs that are built: javac makes them, and a JVM's verifier accepts them. *)

\* The int, or the String, of a ConstantValue.  No char is a surrogate: a program that has
\* such a constant is refused before anything runs.
IsConstant(type, v) ==
    CASE type = StringType -> v \in Seq(CodePoints)
      [] type = CharType -> v[1] \in (0 .. 2 ^ ShortBits - 1) \ Surrogates
      [] OTHER -> type \in IntLike /\ v[1] \in Int

\* A part of a recipe is an argument or a text.  A field is named with its descriptor.
IsInstruction(classes, j) ==
    /\ j.op = "const" => /\ j.type = IntType => j.n \in Int
                         /\ j.type \notin {IntType, NullType} => j.text \in Seq(CodePoints)
    /\ j.op \in {"store", "iinc"} => j.n \in Nat
    /\ j.op = "iinc" => j.by \in Int
    /\ j.op \in {"goto"} \cup Conditional => j.to[1] \in Nat
    /\ j.op \in {"concat", "invokevirtual", "invokeinterface", "invokespecial", "invokestatic"} =>
         j.sig.params \in Seq(ToSet(j.sig.params))
    /\ j.op = "concat" =>
         /\ j.parts \in Seq(ToSet(j.parts))
         /\ \A p \in ToSet(j.parts) : p[1] # "arg" => p[2] \in Seq(CodePoints)
    /\ j.op \in {"getstatic", "putstatic", "getfield", "putfield"} =>
         ((j.class \in DOMAIN classes /\ j.name \in DOMAIN classes[j.class].fields) =>
             j.type = classes[j.class].fields[j.name].type)

IsClass(classes, class) ==
    /\ \A m \in DOMAIN class.methods : \A i \in DOMAIN class.methods[m].code :
         IsInstruction(classes, class.methods[m].code[i])
    /\ \A f \in DOMAIN class.fields :
         LET field == class.fields[f] IN
         field.static /\ field.const # <<>> => IsConstant(field.type, field.const[1])

IsProgram(p) ==
    /\ ArrayClass \notin DOMAIN p.classes
    /\ \A c \in DOMAIN p.classes :
         /\ p.classes[c].super \in DOMAIN p.classes \cup {""}
         /\ \A i \in p.classes[c].interfaces \cap DOMAIN p.classes : p.classes[i].interfaces = {}
    /\ p.main \in DOMAIN p.classes /\ "main" \in DOMAIN p.classes[p.main].methods
    /\ \A c \in DOMAIN p.classes : IsClass(p.classes, p.classes[c])

ASSUME ProgramsAssumption ==
    \A family \in DOMAIN Programs : \A x \in DOMAIN Programs[family] : IsProgram(Programs[family][x])

-----------------------------------------------------------------------------
\* char::len_utf16, char::encode_utf16, and what a decimal or a word is written with.
Supplementary == 2 ^ ShortBits
CharWidth(c) == IF c = Supplementary THEN 2 ELSE 1
Units(text) ==
    FlattenSeq([k \in DOMAIN text |->
                  IF text[k] = Supplementary THEN <<HighUnit, LowUnit>> ELSE <<text[k]>>])

\* An int has at most ten digits.
Tens == <<1, 10, 100, 1000, 10000, 100000, 1000000, 10000000, 100000000, 1000000000>>
Decimal(n) ==
    LET length == Cardinality({d \in 2 .. 10 : Tens[d] <= Abs(n)}) + 1
    IN (IF n < 0 THEN <<45>> ELSE <<>>)
         \o [k \in 1 .. length |-> 48 + ((Abs(n) \div Tens[length + 1 - k]) % 10)]
TrueWord == <<116, 114, 117, 101>>
FalseWord == <<102, 97, 108, 115, 101>>
NullWord == <<110, 117, 108, 108>>

\* A reference in words: the name of its class, left out, and its hash code.
Identified(hash) == <<64>> \o Decimal(hash)
==============================================================================
