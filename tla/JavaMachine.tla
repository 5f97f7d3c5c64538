------------------------------ MODULE JavaMachine ------------------------------
(***************************************************************************)
(* What a program does in the Java virtual machine, as its specification   *)
(* says, for the bytecode and the classes the build-time evaluator knows.  *)
(*                                                                         *)
(* A class is initialized, its superclass first, before the instruction    *)
(* that needs it, which is then executed.  An instruction that throws has  *)
(* no step: no program of this subset catches an exception.  Nor has one   *)
(* that needs a class or a method of the library not described here.  Two  *)
(* strings of the same content may be one object or two, and a hash code   *)
(* that is an identity may be any int.  Http.respond, which only this      *)
(* backend has, fails on a second server, a null body or a wrong port.     *)
(***************************************************************************)
EXTENDS JavaProgram

VARIABLES
    begun,      \* main has been called
    frames,     \* class, method, pc, locals and stack of each method running
    statics,    \* <<class, field>> -> value
    heap,       \* the objects and arrays, each its class, component type and cells
    init,       \* class -> "no", "running" or "done"
    out,        \* the lines printed
    server      \* the body that is served, or none
javaVars == <<program, begun, frames, statics, heap, init, out, server>>

IntValue(n) == <<"int", n>>
Truth(b) == IntValue(IF b THEN 1 ELSE 0)
Str(units) == <<"string", units>>
Ref(a) == <<"ref", a>>
Null == <<"null", 0>>
Out == <<"out", 0>>
Default(type) == IF type \in IntLike THEN IntValue(0) ELSE Null
Narrowed(type, v) == IF type \in IntLike THEN IntValue(Narrow(type, v[2])) ELSE v

Entry(class, name, args) ==
    [class |-> class, method |-> name, pc |-> 1, stack |-> <<>>,
     locals |-> [s \in 0 .. Len(args) - 1 |-> args[s + 1]]]
Top == Last(frames)
J == MethodOf(Top.class, Top.method).code[Top.pc]
Arg(k) == Top.stack[Len(Top.stack) + 1 - k]
Args(k) == SubSeq(Top.stack, Len(Top.stack) + 1 - k, Len(Top.stack))
WithTop(frame) == [frames EXCEPT ![Len(frames)] = frame]
Popped(k) == SubSeq(Top.stack, 1, Len(Top.stack) - k)

-----------------------------------------------------------------------------
(* Members that are inherited, and class initialization. *)

Supertypes(class) == UNION {{c} \cup Classes[c].interfaces : c \in ToSet(Lineage(class))}

\* The class or interface that declares a member of a class, "" when none does.
Nearest(class, Declares(_)) ==
    LET lineage == SelectSeq(Lineage(class), Declares)
        interfaces == {i \in Supertypes(class) : Own(i) /\ Declares(i)}
    IN IF lineage # <<>> THEN lineage[1]
       ELSE IF interfaces # {} THEN CHOOSE i \in interfaces : TRUE
       ELSE ""
HolderOf(class, field, static) == Nearest(class, LAMBDA c : field \in FieldsOf(c, static))
MethodHolder(class, name) == Nearest(class, LAMBDA c : Has(c, name))

\* The class whose static member, or whose instance, an instruction is about.
Subject ==
    CASE ~Own(J.class) \/ IsRespond(J) -> ""
      [] J.op = "new" -> J.class
      [] J.op \in {"getstatic", "putstatic"} -> HolderOf(J.class, J.name, TRUE)
      [] J.op = "invokestatic" -> MethodHolder(J.class, J.name)
      [] OTHER -> ""

\* The class that is needed next: by an instruction, or, at the start, main's.
Needed == IF frames = <<>> THEN IF begun THEN "" ELSE Main ELSE Subject
Uninitialized ==
    IF Needed = "" THEN <<>>
    ELSE IF init[Needed] # "no" THEN <<>>
    ELSE SelectSeq(InitializedWith(Needed), LAMBDA c : init[c] = "no")

Initialize ==
    /\ Uninitialized # <<>>
    /\ LET running == SelectSeq(Uninitialized, LAMBDA c : Has(c, "<clinit>"))
       IN /\ init' = [c \in DOMAIN init |->
                        IF c \in ToSet(running) THEN "running"
                        ELSE IF c \in ToSet(Uninitialized) THEN "done" ELSE init[c]]
          /\ frames' = frames \o [k \in DOMAIN running |-> Entry(running[k], "<clinit>", <<>>)]
    /\ UNCHANGED <<program, begun, statics, heap, out, server>>

\* No program looks at main's arguments.
Begin ==
    /\ frames = <<>> /\ ~begun /\ Uninitialized = <<>>
    /\ begun' = TRUE
    /\ frames' = <<Entry(Main, "main", <<Null>>)>>
    /\ UNCHANGED <<program, statics, heap, init, out, server>>

-----------------------------------------------------------------------------
(* What is asked of a reference, and what makes an instruction throw. *)

ClassOf(v) == heap[v[2]].class
TypeOf(v) ==
    CASE v[1] = "string" -> StringType
      [] v = Out -> Object(Printer)
      [] ClassOf(v) = ArrayClass -> Array(heap[v[2]].type)
      [] OTHER -> Object(ClassOf(v))

\* Whether a reference of one type may be used as one of another; then an array of the one
\* may be used as an array of the other.
StringTypes == {StringType, Object(CharSequence), Object("java/lang/Comparable")}
IsSubclass(sub, type) ==
    \/ sub = type
    \/ IsReference(sub) /\ type = Object(ObjectClass)
    \/ sub = StringType /\ type \in StringTypes
    \/ /\ ~IsArray(sub) /\ ~IsArray(type) /\ IsReference(sub) /\ IsReference(type)
       /\ Own(sub[2]) /\ type[2] \in Supertypes(sub[2])
InstanceOf(v, type) ==
    \/ IsSubclass(TypeOf(v), type)
    \/ IsArray(TypeOf(v)) /\ IsArray(type) /\ IsSubclass(Element(TypeOf(v)), Element(type))

Calls == {"invokevirtual", "invokeinterface", "invokespecial"}
Receiver == Arg(Len(J.sig.params) + 1)
Params == Args(Len(J.sig.params))

\* Methods of String, Object and arrays: what they return, nothing when they throw.
StringMethods == {"length", "isEmpty", "charAt", "equals", "hashCode", "toString", "startsWith",
                  "endsWith", "contains", "substring"}
ObjectMethods == {"equals", "hashCode", "toString"}
Hash(units) == FoldLeft(LAMBDA h, u : Wrap(h * 31 + u), 0, units)
Occurs(part, units) ==
    \E k \in 0 .. Len(units) - Len(part) : SubSeq(units, k + 1, k + Len(part)) = part

StringAnswers(name, u, args) ==
    LET n == Len(u)
        other == IF args # <<>> /\ args[1][1] = "string" THEN args[1][2] ELSE <<>>
    IN IF name \in {"startsWith", "endsWith", "contains"} /\ args[1] = Null THEN {} ELSE
       CASE name = "length" -> {IntValue(n)}
         [] name = "isEmpty" -> {Truth(n = 0)}
         [] name = "charAt" -> {IntValue(u[k + 1]) : k \in {args[1][2]} \cap 0 .. n - 1}
         [] name = "equals" -> {Truth(args[1] = Str(u))}
         [] name = "hashCode" -> {IntValue(Hash(u))}
         [] name = "toString" -> {Str(u)}
         [] name = "startsWith" -> {Truth(IsPrefix(other, u))}
         [] name = "endsWith" -> {Truth(IsSuffix(other, u))}
         [] name = "contains" -> {Truth(Occurs(other, u))}
         [] name = "substring" ->
              LET from == args[1][2]  to == IF Len(args) = 2 THEN args[2][2] ELSE n
              IN IF 0 <= from /\ from <= to /\ to <= n THEN {Str(SubSeq(u, from + 1, to))} ELSE {}

ObjectAnswers(name, v, args) ==
    CASE name = "equals" -> {Truth(args[1] = v)}
      [] name = "hashCode" -> {IntValue(h) : h \in IntRange}
      [] name = "toString" -> {Str(Identified(h)) : h \in IntRange}

\* The class whose method a call reaches: "" for a method that is not a program's own.
Target ==
    LET start == IF J.op = "invokespecial" THEN J.class
                 ELSE IF Receiver[1] = "ref" THEN ClassOf(Receiver) ELSE ""
    IN IF Own(start) THEN MethodHolder(start, J.name) ELSE ""

\* A method of the library that is described here, or the constructor of Object.
Intrinsic ==
    /\ J.op \in Calls /\ J.class # Printer /\ Receiver # Null /\ Target = ""
    /\ CASE J.name = "<init>" -> J.class = ObjectClass
         [] Receiver[1] = "string" -> J.name \in StringMethods
         [] J.name = "clone" -> Receiver[1] = "ref" /\ ClassOf(Receiver) = ArrayClass
         [] OTHER -> J.name \in ObjectMethods
Answers ==
    IF J.name \in {"<init>", "clone"} THEN {}
    ELSE IF Receiver[1] = "string" THEN StringAnswers(J.name, Receiver[2], Params)
    ELSE ObjectAnswers(J.name, Receiver, Params)

ElementLoads == {"xaload", "aaload"}
ElementStores == {"xastore", "aastore"}
Throws ==
    /\ frames # <<>> /\ Uninitialized = <<>>
    /\ CASE J.op \in {"idiv", "irem"} -> Arg(1) = IntValue(0)
         [] J.op = "newarray" -> Arg(1)[2] < 0
         [] J.op \in {"arraylength", "getfield"} -> Arg(1) = Null
         [] J.op = "putfield" -> Arg(2) = Null
         [] J.op \in ElementLoads -> Arg(2) = Null \/ Arg(1)[2] \notin DOMAIN heap[Arg(2)[2]].cells
         [] J.op \in ElementStores ->
              \/ Arg(3) = Null
              \/ Arg(2)[2] \notin DOMAIN heap[Arg(3)[2]].cells
              \/ J.op = "aastore" /\ Arg(1) # Null /\ ~InstanceOf(Arg(1), heap[Arg(3)[2]].type)
         [] J.op = "checkcast" -> Arg(1) # Null /\ ~InstanceOf(Arg(1), J.type)
         [] J.op \in Calls ->
              \/ Receiver = Null
              \/ Intrinsic /\ J.name \notin {"<init>", "clone"} /\ Answers = {}
         [] IsRespond(J) ->
              Arg(1) = Null \/ Arg(2)[2] \notin 1 .. 2 ^ ShortBits - 1 \/ server # <<>>
         [] J.op = "athrow" -> TRUE
         [] OTHER -> FALSE

-----------------------------------------------------------------------------
(* Instructions. *)

At(ops) == frames # <<>> /\ J.op \in ops /\ Uninitialized = <<>> /\ ~Throws

\* k values are popped, others pushed, and the next instruction follows.
Go(k, pushed) ==
    frames' = WithTop([Top EXCEPT !.pc = @ + 1, !.stack = Popped(k) \o pushed])

Locals ==
    /\ At({"nop", "const", "load", "store", "iinc", "pop", "dup"})
    /\ LET frame == [Top EXCEPT !.pc = @ + 1] IN
       frames' = WithTop(
         CASE J.op = "nop" -> frame
           [] J.op = "const" ->
                [frame EXCEPT !.stack = Append(@, IF J.type = IntType THEN IntValue(J.n)
                                                  ELSE IF J.type = NullType THEN Null
                                                  ELSE Str(Units(J.text)))]
           [] J.op = "load" -> [frame EXCEPT !.stack = Append(@, Top.locals[J.n])]
           [] J.op = "store" -> [frame EXCEPT !.stack = Popped(1),
                                              !.locals = (J.n :> Arg(1)) @@ @]
           [] J.op = "iinc" -> [frame EXCEPT !.locals[J.n] = IntValue(Wrap(@[2] + J.by))]
           [] J.op = "pop" -> [frame EXCEPT !.stack = Popped(1)]
           [] J.op = "dup" -> [frame EXCEPT !.stack = Append(@, Arg(1))])
    /\ UNCHANGED <<program, begun, statics, heap, init, out, server>>

Compute ==
    /\ \/ /\ At({"iadd", "isub", "imul", "idiv", "irem"})
          /\ Go(2, <<IntValue(Computed(J.op, Arg(2)[2], Arg(1)[2]))>>)
       \/ /\ At(DOMAIN Unary)
          /\ Go(1, <<IntValue(Converted(J.op, Arg(1)[2]))>>)
    /\ UNCHANGED <<program, begun, statics, heap, init, out, server>>

Branch ==
    /\ At({"goto"} \cup Conditional)
    /\ LET test == IF J.op = "goto" THEN <<"always", "">> ELSE BranchOperands[J.op]
           holds == CASE test[1] = "always" -> {TRUE}
                      [] test[1] = "zero" -> {Related(test[2], Arg(1)[2], 0)}
                      [] test[1] = "pair" /\ test[2] \in Relations ->
                           {Related(test[2], Arg(2)[2], Arg(1)[2])}
                      [] test[1] = "null" -> {(Arg(1) = Null) = (test[2] = "is_null")}
                      [] OTHER -> IF Arg(1) # Arg(2) THEN {test[2] = "ref_ne"}
                                  ELSE IF Arg(1)[1] = "string" THEN BOOLEAN ELSE {test[2] = "ref_eq"}
           k == CASE test[1] = "always" -> 0 [] test[1] = "pair" -> 2 [] OTHER -> 1
       IN \E taken \in holds :
            frames' = WithTop([Top EXCEPT !.pc = IF taken THEN J.to[1] ELSE @ + 1,
                                          !.stack = Popped(k)])
    /\ UNCHANGED <<program, begun, statics, heap, init, out, server>>

\* The fields of an object, each named with the class that declares it.
InstanceFields(class) == UNION {{c} \X FieldsOf(c, FALSE) : c \in ToSet(Lineage(class))}

Member ==
    /\ \/ /\ At({"getstatic"}) /\ IsSystemOut(J)
          /\ Go(0, <<Out>>)
          /\ UNCHANGED <<statics, heap>>
       \/ /\ At({"getstatic"}) /\ Subject # ""
          /\ Go(0, <<statics[<<Subject, J.name>>]>>)
          /\ UNCHANGED <<statics, heap>>
       \/ /\ At({"putstatic"}) /\ Subject # ""
          /\ Go(1, <<>>)
          /\ statics' = [statics EXCEPT ![<<Subject, J.name>>] = Narrowed(J.type, Arg(1))]
          /\ UNCHANGED heap
       \/ /\ At({"getfield"})
          /\ Go(1, <<heap[Arg(1)[2]].cells[<<HolderOf(J.class, J.name, FALSE), J.name>>]>>)
          /\ UNCHANGED <<statics, heap>>
       \/ /\ At({"putfield"})
          /\ Go(2, <<>>)
          /\ heap' = [heap EXCEPT ![Arg(2)[2]].cells[<<HolderOf(J.class, J.name, FALSE), J.name>>] =
                                    Narrowed(J.type, Arg(1))]
          /\ UNCHANGED statics
       \/ /\ At({"new"}) /\ Own(J.class)
          /\ Go(0, <<Ref(Len(heap) + 1)>>)
          /\ heap' = Append(heap,
               [class |-> J.class, type |-> VoidType,
                cells |-> [x \in InstanceFields(J.class) |-> Default(Classes[x[1]].fields[x[2]].type)]])
          /\ UNCHANGED statics
    /\ UNCHANGED <<program, begun, init, out, server>>

Elements ==
    /\ \/ /\ At({"newarray"})
          /\ Go(1, <<Ref(Len(heap) + 1)>>)
          /\ heap' = Append(heap, [class |-> ArrayClass, type |-> J.type,
                                   cells |-> [k \in 0 .. Arg(1)[2] - 1 |-> Default(J.type)]])
       \/ /\ At({"arraylength"})
          /\ Go(1, <<IntValue(Cardinality(DOMAIN heap[Arg(1)[2]].cells))>>)
          /\ UNCHANGED heap
       \/ /\ At(ElementLoads)
          /\ Go(2, <<heap[Arg(2)[2]].cells[Arg(1)[2]]>>)
          /\ UNCHANGED heap
       \/ /\ At(ElementStores)
          /\ Go(3, <<>>)
          /\ heap' = [heap EXCEPT ![Arg(3)[2]].cells[Arg(2)[2]] =
                                    Narrowed(heap[Arg(3)[2]].type, Arg(1))]
       \/ /\ At({"checkcast"})
          /\ Go(0, <<>>)
          /\ UNCHANGED heap
    /\ UNCHANGED <<program, begun, statics, init, out, server>>

\* String.valueOf of a value of this type.
Shown(type, v) ==
    CASE type = BooleanType -> IF v[2] = 1 THEN TrueWord ELSE FalseWord
      [] type = CharType -> <<v[2]>>
      [] type \in IntLike \ {BooleanType, CharType} -> Decimal(v[2])
      [] OTHER -> IF v = Null THEN NullWord ELSE v[2]

Println ==
    /\ At({"invokevirtual"}) /\ J.class = Printer /\ J.name = "println"
    /\ \E type \in {StringType, IntType, BooleanType, CharType} :
         J.sig.params = <<type>> /\ out' = Append(out, Shown(type, Arg(1)))
    /\ Go(2, <<>>)
    /\ UNCHANGED <<program, begun, statics, heap, init, server>>

\* The recipe, with the arguments in their places; none of them is one whose toString is called.
Concat ==
    /\ At({"concat"})
    /\ LET k == Len(J.sig.params)
           shown(i) == Shown(J.sig.params[i], Args(k)[i])
           part(s, p) == IF p[1] = "arg" THEN [text |-> s.text \o shown(s.arg), arg |-> s.arg + 1]
                         ELSE [s EXCEPT !.text = @ \o Units(p[2])]
       IN /\ \A i \in 1 .. k : Args(k)[i][1] \in {"int", "string", "null"}
          /\ Go(k, <<Str(FoldLeft(part, [text |-> <<>>, arg |-> 1], J.parts).text)>>)
    /\ UNCHANGED <<program, begun, statics, heap, init, out, server>>

Respond ==
    /\ At({"invokestatic"}) /\ IsRespond(J)
    /\ server' = <<Arg(2)[2], Arg(1)[2]>>
    /\ Go(2, <<>>)
    /\ UNCHANGED <<program, begun, statics, heap, init, out>>

\* The caller stays at its call until the method returns.
Call ==
    /\ \/ At({"invokestatic"}) /\ Subject # ""
       \/ At(Calls) /\ J.class # Printer /\ Target # ""
    /\ LET k == Len(J.sig.params) + IF J.op = "invokestatic" THEN 0 ELSE 1
           class == IF J.op = "invokestatic" THEN Subject ELSE Target
       IN frames' = Append(WithTop([Top EXCEPT !.stack = Popped(k)]), Entry(class, J.name, Args(k)))
    /\ UNCHANGED <<program, begun, statics, heap, init, out, server>>

Library ==
    /\ At(Calls) /\ Intrinsic
    /\ LET k == Len(J.sig.params) + 1 IN
       IF J.name = "<init>" THEN Go(k, <<>>) /\ UNCHANGED heap
       ELSE IF J.name = "clone"
            THEN Go(k, <<Ref(Len(heap) + 1)>>) /\ heap' = Append(heap, heap[Receiver[2]])
            ELSE (\E v \in Answers : Go(k, <<v>>)) /\ UNCHANGED heap
    /\ UNCHANGED <<program, begun, statics, init, out, server>>

Return ==
    /\ At(Returns)
    /\ LET rest == Front(frames)
           caller == Last(rest)
           result == IF J.op = "return" THEN <<>> ELSE <<Arg(1)>>
       IN frames' = IF rest = <<>> \/ Top.method = "<clinit>" THEN rest
                    ELSE Append(Front(rest), [caller EXCEPT !.pc = @ + 1, !.stack = @ \o result])
    /\ init' = IF Top.method = "<clinit>" THEN [init EXCEPT ![Top.class] = "done"] ELSE init
    /\ UNCHANGED <<program, begun, statics, heap, out, server>>

-----------------------------------------------------------------------------
Constant(field) ==
    IF field.const = <<>> THEN Default(field.type)
    ELSE IF field.type = StringType THEN Str(Units(field.const[1]))
    ELSE IntValue(field.const[1][1])

\* It runs whatever program it is given.
JavaInit ==
    /\ begun = FALSE /\ frames = <<>> /\ heap = <<>> /\ out = <<>> /\ server = <<>>
    /\ init = [c \in DOMAIN Classes |-> "no"]
    /\ statics = [x \in UNION {{c} \X FieldsOf(c, TRUE) : c \in DOMAIN Classes} |->
                    Constant(Classes[x[1]].fields[x[2]])]

JavaNext ==
    \/ Initialize \/ Begin \/ Locals \/ Compute \/ Branch \/ Member \/ Elements
    \/ Println \/ Concat \/ Respond \/ Call \/ Library \/ Return

JavaSpec == JavaInit /\ [][JavaNext]_javaVars
==============================================================================
