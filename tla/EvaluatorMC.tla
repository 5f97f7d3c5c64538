----------------------------- MODULE EvaluatorMC -----------------------------
(* Programs to build, on integers of four bits and characters of three. *)
EXTENDS Evaluator

O(op) == [op |-> op, n |-> 0, by |-> 0, class |-> "", name |-> "", type |-> VoidType,
          text |-> <<>>, to |-> <<>>, parts |-> <<>>,
          sig |-> [params |-> <<>>, returns |-> VoidType]]
Push(n) == [O("const") EXCEPT !.n = n, !.type = IntType]
PushText(text) == [O("const") EXCEPT !.text = text, !.type = StringType]
PushNull == [O("const") EXCEPT !.type = NullType]
Ld(n) == [O("load") EXCEPT !.n = n]
St(n) == [O("store") EXCEPT !.n = n]
Inc(n, by) == [O("iinc") EXCEPT !.n = n, !.by = by]
To(op, target) == [O(op) EXCEPT !.to = <<target>>]
Of(op, type) == [O(op) EXCEPT !.type = type]
Fld(op, class, name, type) == [O(op) EXCEPT !.class = class, !.name = name, !.type = type]
Invoke(op, class, name, params, returns) ==
    [O(op) EXCEPT !.class = class, !.name = name, !.sig = [params |-> params, returns |-> returns]]
Create(class) == [Of("new", Object(class)) EXCEPT !.class = class]
Super == Invoke("invokespecial", ObjectClass, "<init>", <<>>, VoidType)
Made(class) == <<Create(class), O("dup"), Invoke("invokespecial", class, "<init>", <<>>, VoidType)>>
Text == Object(CharSequence)
Anything == Object(ObjectClass)
Sys == Fld("getstatic", "java/lang/System", "out", Object(Printer))
Line(type) == Invoke("invokevirtual", Printer, "println", <<type>>, VoidType)
Join(params, parts) == [Invoke("concat", "", "", params, StringType) EXCEPT !.parts = parts]
A == <<"arg">>
T(text) == <<"text", text>>
XRet == O("xreturn")
Ret == O("return")

Meth(static, params, returns, code) ==
    [static |-> static, params |-> params, returns |-> returns, code |-> code]
Start(code) == Meth(TRUE, <<Array(StringType)>>, VoidType, code \o <<Ret>>)
Clinit(code) == Meth(TRUE, <<>>, VoidType, code \o <<Ret>>)
Constructor == Meth(FALSE, <<>>, VoidType, <<Ld(0), Super, Ret>>)
Nothing == [f \in {} |-> 0]
Class(methods) == [super |-> "", interfaces |-> {}, fields |-> Nothing, methods |-> methods]
Holder(fields) == [Class("<init>" :> Constructor) EXCEPT !.fields = fields]
F(static, type) == [static |-> static, type |-> type, const |-> <<>>]
Constant(type, v) == [static |-> TRUE, type |-> type, const |-> <<v>>]

Single(methods, fields) ==
    [main |-> "M", classes |-> [M |-> [Class(methods) EXCEPT !.fields = fields]]]
Only(code) == Single([main |-> Start(code)], Nothing)
With(code, class) == [main |-> "M", classes |-> [M |-> Class([main |-> Start(code)]), C |-> class]]
Shows(value, type) == Only(<<Sys>> \o value \o <<Line(type)>>)
C == Object("C")
I == IntType
Bits4 == -8 .. 7

-----------------------------------------------------------------------------
(* A family of programs is a function of what varies in it, or a sequence. *)

\* Arithmetic and tests on every input.
Binaries == [x \in {"iadd", "isub", "imul", "idiv", "irem"} \X Bits4 \X Bits4 |->
               Shows(<<Push(x[2]), Push(x[3]), O(x[1])>>, I)]
Unaries == [x \in (DOMAIN Unary) \X Bits4 |-> Shows(<<Push(x[2]), O(x[1])>>, I)]

Test(values, op) ==
    LET n == Len(values) IN
    Only(values \o <<To(op, n + 5), Sys, Push(0), Line(I), Sys, Push(1), Line(I)>>)
Edge4 == {-8, -1, 0, 7}
OnInts(how) == {op \in Conditional : BranchOperands[op][1] = how /\ BranchOperands[op][2] \in Relations}
OneTests == [x \in OnInts("zero") \X Bits4 |-> Test(<<Push(x[2])>>, x[1])]
TwoTests == [x \in OnInts("pair") \X Edge4 \X Edge4 |-> Test(<<Push(x[2]), Push(x[3])>>, x[1])]

\* References that are compared: an array, an array of that length, a string, and null.
Pointers == <<<<Push(1), Of("newarray", I)>>, <<PushText(<<1>>)>>, <<PushText(<<2, 8>>)>>, <<PushNull>>>>
OneIdentities == [x \in {"ifnull", "ifnonnull"} \X (DOMAIN Pointers) |-> Test(Pointers[x[2]], x[1])]
TwoIdentities == [x \in {"if_acmpeq", "if_acmpne"} \X (DOMAIN Pointers) \X (DOMAIN Pointers) |->
                    Test(Pointers[x[2]] \o Pointers[x[3]], x[1])]
Itself == <<Test(<<Push(1), Of("newarray", I), O("dup")>>, "if_acmpeq"),
     Test(<<Push(1), Of("newarray", I), O("dup"), Invoke("invokevirtual", ObjectClass, "equals",
            <<Object(ObjectClass)>>, BooleanType)>>, "ifeq")>>

-----------------------------------------------------------------------------
\* A value goes through a field, a static, an element, a parameter and a result of a type.
Cast(type, n) ==
    <<Push(n)>> \o CASE type = ByteType -> <<O("i2b")>> [] type = ShortType -> <<O("i2s")>>
                      [] type = CharType -> <<O("i2c")>> [] OTHER -> <<>>
ValuesOf(type) == IF type = BooleanType THEN {0, 1} ELSE Bits4
LineOf(type) == IF type \in {BooleanType, CharType} THEN Line(type) ELSE Line(I)
ArrayOp(op, type) == Of(op, IF type = BooleanType THEN ByteType ELSE type)
ThroughField(type, v) ==
    With(Made("C") \o <<O("dup"), St(1)>> \o v \o
           <<Fld("putfield", "C", "f", type), Sys, Ld(1), Fld("getfield", "C", "f", type), LineOf(type)>>,
         Holder([f |-> F(FALSE, type)]))
ThroughStatic(type, v) ==
    Single("main" :> Start(v \o <<Fld("putstatic", "M", "s", type), Sys,
                                  Fld("getstatic", "M", "s", type), LineOf(type)>>),
           [s |-> F(TRUE, type)])
ThroughElement(type, v) ==
    Only(<<Push(2), Of("newarray", type), St(1), Ld(1), Push(1)>> \o v \o
         <<ArrayOp("xastore", type), Sys, Ld(1), Push(1), ArrayOp("xaload", type), LineOf(type)>>)
ThroughCall(type, v) ==
    Single(("main" :> Start(<<Sys>> \o v \o <<Invoke("invokestatic", "M", "id", <<type>>, type), LineOf(type)>>))
             @@ ("id" :> Meth(TRUE, <<type>>, type, <<Ld(0), XRet>>)), Nothing)
InText(type, v) == Only(<<Sys>> \o v \o <<Join(<<type>>, <<T(<<1>>), A>>), Line(StringType)>>)
NeverWritten(type) ==
    With(<<Sys>> \o Made("C") \o <<Fld("getfield", "C", "f", type), LineOf(type),
           Sys, Push(1), Of("newarray", type), Push(0), ArrayOp("xaload", type), LineOf(type)>>,
         Holder([f |-> F(FALSE, type)]))
Passages ==
    LET By(type, how, v) ==
          CASE how = "field" -> ThroughField(type, v) [] how = "static" -> ThroughStatic(type, v)
            [] how = "element" -> ThroughElement(type, v) [] how = "call" -> ThroughCall(type, v)
            [] how = "text" -> InText(type, v)
    IN [x \in {"field", "static", "element", "call", "text"} \X {y \in IntLike \X Bits4 : y[2] \in ValuesOf(y[1])} |->
          By(x[2][1], x[1], Cast(x[2][1], x[2][2]))]
\* and, of a field and an element, the first one; a byte takes what does not fit
Unset == [type \in IntLike |-> NeverWritten(type)]
Misfits == <<ThroughStatic(ByteType, <<Push(6)>>), ThroughElement(ByteType, <<Push(6)>>)>>

-----------------------------------------------------------------------------
Samples == {<<>>, <<1>>, <<1, 8>>, <<8, 2>>, <<1, 2, 1>>}
Call(text, name, args, params, returns) ==
    <<PushText(text)>> \o args \o <<Invoke("invokevirtual", StringClass, name, params, returns)>>
Measures == [x \in Samples \X {"length", "hashCode"} |-> Shows(Call(x[1], x[2], <<>>, <<>>, I), I)]
Empties == [s \in Samples |-> Shows(Call(s, "isEmpty", <<>>, <<>>, BooleanType), BooleanType)]
Chars == [x \in Samples \X (-1 .. 3) |->
            Shows(Call(x[1], "charAt", <<Push(x[2])>>, <<I>>, CharType), CharType)]
Tails == [x \in Samples \X (-1 .. 4) |->
            Shows(Call(x[1], "substring", <<Push(x[2])>>, <<I>>, StringType), StringType)]
Pieces == [x \in Samples \X (0 .. 3) \X (0 .. 4) |->
             Shows(Call(x[1], "substring", <<Push(x[2]), Push(x[3])>>, <<I, I>>, StringType), StringType)]
Relates == [x \in Samples \X Samples \X {"equals", "startsWith", "endsWith", "contains"} |->
              Shows(Call(x[1], x[3], <<PushText(x[2])>>,
                          <<CASE x[3] = "equals" -> Anything [] x[3] = "contains" -> Text [] OTHER -> StringType>>,
                          BooleanType), BooleanType)]
Texts == <<Shows(Call(<<1>>, "contains", <<PushNull>>, <<Text>>, BooleanType), BooleanType),
     Shows(Call(<<1>>, "toString", <<>>, <<>>, StringType), StringType),
     Shows(<<PushText(<<1, 2>>), Invoke("invokevirtual", ObjectClass, "hashCode", <<>>, I)>>, I),
     Shows(<<PushText(<<3>>), Push(5), Push(1), PushNull,
             Join(<<StringType, I, BooleanType, StringType>>, <<A, T(<<4>>), A, A, T(<<8>>), A>>)>>, StringType),
     Shows(<<PushNull>>, StringType),
     Shows(<<Push(1), Of("newarray", I), Join(<<Object(ObjectClass)>>, <<A>>)>>, StringType)>>

-----------------------------------------------------------------------------
Say(n) == <<Sys, Push(n), Line(I)>>
Get(class) == Fld("getstatic", class, "x", I)
Set(class) == Fld("putstatic", class, "x", I)
WithX(methods) == [Class(methods) EXCEPT !.fields = [x |-> F(TRUE, I)]]
Three(m, a, b) == [main |-> "M", classes |-> [M |-> m, A |-> a, B |-> b]]
MainOf(code, clinit) == Class(("main" :> Start(code)) @@ ("<clinit>" :> Clinit(clinit)))
CallB == Invoke("invokestatic", "B", "f", <<>>, VoidType)

Initializers == <<\* A's initializer reads B.x, whose initializer prints and reads A.x before it is set.
     Three(MainOf(<<Sys, Get("A"), Line(I), Sys, Get("B"), Line(I)>>, Say(1)),
           WithX("<clinit>" :> Clinit(Say(2) \o <<Get("B"), Push(1), O("iadd"), Set("A")>>)),
           WithX("<clinit>" :> Clinit(Say(3) \o <<Get("A"), Push(3), O("iadd"), Set("B")>>))),
     \* new and a static call initialize as well; a class is initialized once.
     Three(MainOf(Made("A") \o <<O("pop"), CallB, CallB>> \o Made("A") \o <<O("pop")>>, <<>>),
           Class(("<init>" :> Constructor) @@ ("<clinit>" :> Clinit(Say(2)))),
           Class(("f" :> Meth(TRUE, <<>>, VoidType, Say(4) \o <<Ret>>)) @@ ("<clinit>" :> Clinit(Say(3))))),
     \* constants of another class, read from there
     [main |-> "M", classes |->
        [M |-> Class("main" :> Start(<<Sys, Get("K"), Line(I), Sys, Fld("getstatic", "K", "c", CharType), Line(CharType),
                                       Sys, Fld("getstatic", "K", "b", BooleanType), Line(BooleanType),
                                       Sys, Fld("getstatic", "K", "s", StringType), Line(StringType)>>)),
         K |-> [Class(Nothing) EXCEPT
                  !.fields = [x |-> Constant(I, <<5>>), c |-> Constant(CharType, <<3>>),
                              b |-> Constant(BooleanType, <<1>>), s |-> Constant(StringType, <<1, 8>>)]]]]>>

\* interface S { int f(int); } implemented by A and B, which have fields of their own.
Implements(code) ==
    [Class(("<init>" :> Constructor) @@ ("f" :> Meth(FALSE, <<I>>, I, code \o <<XRet>>)))
       EXCEPT !.interfaces = {"S"}, !.fields = [v |-> F(FALSE, I), s |-> F(FALSE, Object("S"))]]
Shapes(code) ==
    [main |-> "M", classes |->
       [M |-> Class(("main" :> Start(code))
                    @@ ("call" :> Meth(TRUE, <<Object("S"), I>>, I,
                                       <<Ld(0), Ld(1), Invoke("invokeinterface", "S", "f", <<I>>, I), XRet>>))),
        S |-> Class(Nothing),
        A |-> Implements(<<Ld(0), Ld(1), Fld("putfield", "A", "v", I), Ld(0), Fld("getfield", "A", "v", I)>>),
        B |-> Implements(<<Ld(1), Push(1), O("isub")>>)]]
CallS == Invoke("invokestatic", "M", "call", <<Object("S"), I>>, I)
InCells(class, code) ==
    <<Push(1), Of("newarray", Object(class)), St(1), Ld(1), Push(0)>> \o Made("A")
      \o <<Of("aastore", Object(class))>> \o code
Dispatch == <<Shapes(<<Sys>> \o Made("A") \o <<Push(4), CallS, Line(I), Sys>> \o Made("B") \o <<Push(4), CallS, Line(I)>>),
     Shapes(<<Sys>> \o Made("B") \o <<Push(-8), Invoke("invokevirtual", "B", "f", <<I>>, I), Line(I)>>),
     Shapes(<<Sys, PushNull, Push(0), CallS, Line(I)>>),
     \* an object kept as an S, cast to S, and in an array of S
     Shapes(Made("A") \o Made("B") \o <<Fld("putfield", "A", "s", Object("S"))>>),
     Shapes(Made("A") \o <<Of("checkcast", Object("S")), O("pop")>>),
     Shapes(InCells("S", <<>>)),
     Shapes(InCells("A", <<Sys, Ld(1), Push(0), Of("aaload", Object("A")), Push(2), CallS, Line(I)>>)),
     Shapes(Made("A") \o <<Of("checkcast", Object("A")), Of("checkcast", Object(ObjectClass)), O("pop")>> \o Say(1)),
     Shapes(Made("A") \o <<Of("checkcast", Object("B")), O("pop")>>),
     Shapes(Made("B") \o <<Invoke("invokevirtual", ObjectClass, "hashCode", <<>>, I), O("pop"), Sys>> \o Made("B")
              \o <<Invoke("invokevirtual", ObjectClass, "toString", <<>>, StringType), Line(StringType)>>)>>

-----------------------------------------------------------------------------
\* while (n != 0) n += by;  calls, loops and initializers, some without end.
Loop(n, by) == Only(<<Push(n), St(1), Ld(1), To("ifeq", 7), Inc(1, by), To("goto", 3)>> \o Say(0))
CallOfB(name) == Invoke("invokestatic", "B", name, <<>>, VoidType)
Static(code) == Meth(TRUE, <<>>, VoidType, code \o <<Ret>>)
CallF == Invoke("invokestatic", "M", "f", <<I>>, I)
Recursive(code) ==
    Single(("main" :> Start(<<Sys, Push(2), CallF, Line(I)>>)) @@ ("f" :> Meth(TRUE, <<I>>, I, code)), Nothing)
Limits == <<Loop(3, -1), Loop(1, 0), Loop(7, -1),
     Recursive(<<Ld(0), To("ifne", 5), Push(1), XRet, Ld(0), Ld(0), Push(1), O("isub"), CallF, O("imul"), XRet>>),
     Recursive(<<Ld(0), CallF, XRet>>),
     Recursive(<<To("goto", 1), Push(0), XRet>>),
     Three(MainOf(<<Sys, Get("A"), Line(I)>>, Say(1)),
           WithX("<clinit>" :> Clinit(<<CallB>>)),
           Class(("f" :> Meth(TRUE, <<>>, VoidType, <<Get("A"), O("pop"), Ret>>))
                 @@ ("<clinit>" :> Clinit(<<CallB, Get("A"), O("pop")>>)))),
     \* calls too deep, at the end of which a class that has an initializer is touched
     Three(MainOf(<<CallB>>, <<>>), WithX("<clinit>" :> Clinit(Say(1))),
           Class(("f" :> Static(<<CallOfB("g")>>)) @@ ("g" :> Static(<<CallOfB("h")>>))
                 @@ ("h" :> Static(<<CallOfB("i")>>)) @@ ("i" :> Static(<<Get("A"), O("pop")>>))))>>

Ints2 == <<Push(2), Of("newarray", I), St(1)>>
OneField == [f |-> F(FALSE, I)]
Outside == [x \in {"xaload", "xastore"} \X {-8, -1, 2, 7} |->
              Only(Ints2 \o <<Ld(1), Push(x[2])>>
                   \o IF x[1] = "xaload" THEN <<Of("xaload", I), O("pop")>> ELSE <<Push(1), Of("xastore", I)>>)]
Faults == <<Only(<<Push(-1), Of("newarray", I), O("pop")>>), Only(<<PushNull, O("arraylength"), O("pop")>>),
          Only(<<PushNull, Push(0), Of("xaload", I), O("pop")>>), Only(<<O("athrow")>>),
          Only(<<PushNull, Push(0), PushNull, Of("aastore", C)>>),
          Only(<<PushNull, Invoke("invokevirtual", ObjectClass, "hashCode", <<>>, I), O("pop")>>),
          Only(<<PushNull, Invoke("invokevirtual", StringClass, "length", <<>>, I), O("pop")>>),
          With(<<PushNull, Fld("getfield", "C", "f", I), O("pop")>>, Holder(OneField)),
          With(<<PushNull, Push(1), Fld("putfield", "C", "f", I)>>, Holder(OneField)),
          \* an array, its clone, its length and its name; an array of strings; a wrong cast
          Only(Ints2 \o <<Ld(1), Push(0), Push(5), Of("xastore", I), Ld(1),
                 Invoke("invokevirtual", ArrayClass, "clone", <<>>, Object(ObjectClass)), Of("checkcast", Array(I)),
                 St(2), Ld(1), Push(0), Push(6), Of("xastore", I), Sys, Ld(2), Push(0), Of("xaload", I), Line(I),
                 Sys, Ld(1), Invoke("invokevirtual", ObjectClass, "toString", <<>>, StringType), Line(StringType)>>),
          Only(Ints2 \o <<Sys, Ld(1), O("arraylength"), Line(I)>>),
          Only(<<Push(1), Of("newarray", StringType), St(1), Ld(1), Push(0), PushText(<<8, 1>>), Of("aastore", StringType),
                 Sys, Ld(1), Push(0), Of("aaload", StringType), Line(StringType)>>),
          Only(Ints2 \o <<Ld(1), Of("checkcast", Array(ByteType)), O("pop")>>)>>

Web(port, rest) ==
    <<Push(port), PushText(<<1, 8>>), Invoke("invokestatic", Http, "respond", <<I, StringType>>, VoidType)>> \o rest
Servers == <<Only(Web(4, <<>>)), Only(Say(2) \o Web(4, Say(1))), Only(Web(0, <<>>)), Only(Web(1, Web(2, <<>>))), Only(Web(-8, Say(1)))>>

-----------------------------------------------------------------------------
(* What Java has and the evaluator does not, or does in its own way. *)

Sub(class, super) == [class EXCEPT !.super = super]
Drop(value) == Only(value \o <<O("pop")>>)
Family(main, classes) == [main |-> "M", classes |-> ("M" :> Class("main" :> Start(main))) @@ classes]
Returning(n) == Meth(TRUE, <<>>, I, <<Push(n), XRet>>)

\* an array of arrays, and a field of that type; what is made of the library's classes
Libraries == <<
     Drop(<<Push(1), Of("newarray", Array(I))>>), Drop(<<Push(1), Of("newarray", Array(StringType))>>),
     Drop(<<Push(1), Of("newarray", Anything)>>), Drop(<<PushNull, Of("checkcast", Array(Array(I)))>>),
     Single("main" :> Start(<<Fld("getstatic", "M", "s", Array(Array(I))), O("pop")>>), [s |-> F(TRUE, Array(Array(I)))]),
     With(Made("C") \o <<PushNull, Fld("putfield", "C", "f", Array(Array(I)))>>, Holder([f |-> F(FALSE, Array(Array(I)))])),
     Drop(<<Create(ObjectClass), O("dup"), Super>>),
     Drop(<<Fld("getstatic", System, "err", Object(Printer))>>),
     Drop(<<Push(1), Invoke("invokestatic", "java/lang/Integer", "signum", <<I>>, I)>>),
     Only(<<Sys, Push(1), Invoke("invokevirtual", Printer, "print", <<I>>, VoidType)>>),
     Only(<<Sys, Invoke("invokevirtual", Printer, "println", <<>>, VoidType)>>),
     Only(<<Sys, Push(1), Of("newarray", CharType), Line(Array(CharType))>>),
     Drop(<<Sys, Invoke("invokevirtual", ObjectClass, "hashCode", <<>>, I)>>),
     Drop(Call(<<1>>, "indexOf", <<Push(1)>>, <<I>>, I)),
     Drop(<<PushText(<<1>>), Invoke("invokeinterface", CharSequence, "length", <<>>, I)>>),
     Drop(<<Push(1), Of("newarray", I), Invoke("invokevirtual", ObjectClass, "getClass", <<>>, Anything)>>),
     \* System.out kept, passed on, and compared
     Only(<<Sys, St(1), Ld(1), To("ifnull", 6), Ld(1), Push(3), Line(I)>>),
     Single("main" :> Start(<<Sys, Fld("putstatic", "M", "s", Object(Printer))>>), [s |-> F(TRUE, Object(Printer))]),
     Test(<<Sys, Sys>>, "if_acmpeq"), Test(<<Sys, PushNull>>, "if_acmpne"), Drop(<<O("nop"), Push(1)>>),
     \* the program has a class for the server, whose code is not run
     Family(Web(4, <<>>), Http :> Class(("respond" :> Static(Say(7))) @@ ("<clinit>" :> Clinit(Say(6)))))>>

\* A reference kept, or cast, by the name of another type than its own.
Kept(value, type) ==
    <<With(Made("C") \o value \o <<Fld("putfield", "C", "f", type)>>, Holder([f |-> F(FALSE, type)])),
      Single("main" :> Start(value \o <<Fld("putstatic", "M", "s", type)>>), [s |-> F(TRUE, type)]),
      Only(value \o <<Of("checkcast", type), O("pop")>>)>>
Words == <<Push(1), Of("newarray", StringType)>>
Keeps == Kept(<<PushText(<<1>>)>>, StringType) \o Kept(<<PushText(<<1>>)>>, Text) \o Kept(<<PushText(<<1>>)>>, Anything)
         \o Kept(<<PushText(<<1>>)>>, Object("java/lang/Comparable")) \o Kept(<<PushNull>>, Text)
         \o Kept(Words, Array(StringType)) \o Kept(Words, Array(Anything)) \o Kept(Words, Anything)
         \o <<Single("main" :> Start(<<PushText(<<1, 8>>), Fld("putstatic", "M", "s", Text), Sys, PushText(<<2, 1, 8>>),
                                       Fld("getstatic", "M", "s", Text),
                                       Invoke("invokevirtual", StringClass, "contains", <<Text>>, BooleanType), Line(BooleanType)>>),
                      [s |-> F(TRUE, Text)])>>

\* class Base { static int x; static int f() { return 3; } }   class Sub extends Base { }
Heirs(code, clinit, subclinit) ==
    LET base == WithX(("f" :> Returning(3)) @@ ("<init>" :> Constructor) @@ clinit)
        heir == Sub(Class(("g" :> Returning(4)) @@ subclinit @@
                          ("<init>" :> Meth(FALSE, <<>>, VoidType,
                             <<Ld(0), Invoke("invokespecial", "Base", "<init>", <<>>, VoidType), Ret>>))), "Base")
    IN Family(code, ("Base" :> base) @@ ("Sub" :> heir))
Says(n) == "<clinit>" :> Clinit(Say(n))
OfSub(name) == <<Sys, Invoke("invokestatic", "Sub", name, <<>>, I), Line(I)>>
Reads == <<Sys, Get("Sub"), Line(I)>>
Writes(class) == <<Push(1), Set(class)>>
HeirUses == <<Reads, Writes("Sub"), OfSub("f"), OfSub("g"), Made("Sub") \o <<O("pop")>>,
              <<Sys, Get("Base"), Line(I)>> \o OfSub("g"), OfSub("g") \o <<Sys, Get("Base"), Line(I)>>>>
Inheritance == [x \in (DOMAIN HeirUses) \X {Nothing, Says(2)} \X {Nothing, Says(1)} |->
                  Heirs(HeirUses[x[1]], x[2], x[3])]

\* A static of another class is written before that class is initialized; methods of Object
\* are overridden, or a default of an interface is inherited.
Hidden(name, returns, value) ==
    Holder(Nothing).methods @@ (name :> Meth(FALSE, IF name = "equals" THEN <<Anything>> ELSE <<>>, returns, value \o <<XRet>>))
Overrides(class, name, args, returns, value) ==
    With(Made("C") \o args \o <<Invoke("invokevirtual", class, name, IF args = <<>> THEN <<>> ELSE <<Anything>>, returns), O("pop")>>,
         Class(Hidden(name, returns, value)))
Ways == <<
     Family(Writes("A") \o <<Sys, Get("A"), Line(I)>>, "A" :> WithX("<clinit>" :> Clinit(Say(2) \o <<Push(3), Set("A")>>))),
     Family(Writes("A") \o <<Sys, Get("A"), Line(I)>>, "A" :> WithX(Says(2))),
     Family(Writes("A") \o <<Sys, Get("A"), Line(I)>>, "A" :> WithX(Nothing)),
     Overrides(ObjectClass, "hashCode", <<>>, I, <<Push(5)>>), Overrides("C", "hashCode", <<>>, I, <<Push(5)>>),
     Overrides(ObjectClass, "toString", <<>>, StringType, <<PushText(<<1>>)>>),
     Overrides(ObjectClass, "equals", <<PushNull>>, BooleanType, <<Push(1)>>),
     Family(Made("A") \o <<Invoke("invokeinterface", "S", "d", <<>>, I), O("pop")>>,
            ("S" :> WithX(("d" :> Meth(FALSE, <<>>, I, <<Push(1), XRet>>)) @@ Says(2)))
            @@ ("A" :> [Class("<init>" :> Constructor) EXCEPT !.interfaces = {"S"}])),
     Family(<<Sys, Get("A"), Line(I)>>, ("S" :> WithX(Says(2))) @@ ("A" :> [Class(Nothing) EXCEPT !.interfaces = {"S"}])),
     Family(Made("A") \o <<Invoke("invokevirtual", "A", "hashCode", <<>>, I), O("pop")>>, "A" :> Holder(Nothing))>>

Built == <<Binaries, Unaries, OneTests, TwoTests, OneIdentities, TwoIdentities, Itself, Passages, Unset,
           Misfits, Measures, Empties, Chars, Tails, Pieces, Relates, Texts, Initializers, Dispatch,
           Limits, Outside, Faults, Servers, Libraries, Keeps, Inheritance, Ways>>

\* class Base { static { System.out.println(2); } }
\* class M extends Base { public static void main(String[] args) { System.out.println(1); } }
Inherits ==
    <<<<[main |-> "M", classes |->
        [M |-> [Class("main" :> Start(Say(1))) EXCEPT !.super = "Base"],
         Base |-> Class("<clinit>" :> Clinit(Say(2)))]]>>>>
==============================================================================
