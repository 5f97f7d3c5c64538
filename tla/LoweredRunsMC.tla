---------------------------- MODULE LoweredRunsMC ----------------------------
(* Methods to lower and to run, on integers of four bits. *)
EXTENDS LoweredRuns

O(op) ==
    [op |-> op, n |-> 0, by |-> 0, ref |-> "", type |-> IntType, to |-> <<>>, keys |-> <<>>,
     sig |-> [params |-> <<>>, returns |-> VoidType], parts |-> <<>>]
Push(n) == [O("const") EXCEPT !.n = n]
PushText(n) == [O("const") EXCEPT !.n = n, !.type = StringType]
PushNull == [O("const") EXCEPT !.type = NullType]
Ld(n) == [O("load") EXCEPT !.n = n]
St(n) == [O("store") EXCEPT !.n = n]
Inc(n, by) == [O("iinc") EXCEPT !.n = n, !.by = by]
To(op, target) == [O(op) EXCEPT !.to = <<target>>]
Cases(keys, to) == [O("switch") EXCEPT !.keys = keys, !.to = to]
Of(op, type) == [O(op) EXCEPT !.type = type]
Field(op, ref, type) == [Of(op, type) EXCEPT !.ref = ref]
Invoke(op, ref, params, returns) ==
    [O(op) EXCEPT !.ref = ref, !.sig = [params |-> params, returns |-> returns]]
Out == Field("getstatic", SystemOut, Object("java/io/PrintStream"))
PrintOut(ref, params) == Invoke("print", ref, params, VoidType)
Join(params, parts) == [Invoke("concat", "", params, StringType) EXCEPT !.parts = parts]
XRet == O("xreturn")
Ret == O("return")

Static(params, returns, body) ==
    [static |-> TRUE, handlers |-> FALSE, params |-> params, returns |-> returns, code |-> body]
Instance(params, returns, body) == [Static(params, returns, body) EXCEPT !.static = FALSE]
Each(set, Method(_)) == FoldSet(LAMBDA x, s : Append(s, Method(x)), <<>>, set)

I1 == <<IntType>>
I2 == <<IntType, IntType>>
C == Object("C")

-----------------------------------------------------------------------------
\* Arithmetic on every input, and every shape of the stack, which a call observes.
Computations ==
    Each(DOMAIN Binary, LAMBDA op : Static(I2, IntType, <<Ld(0), Ld(1), O(op), XRet>>))
    \o Each(DOMAIN Unary, LAMBDA op : Static(I1, IntType, <<Ld(0), O(op), XRet>>))
    \o Each(DOMAIN Rearrange, LAMBDA op :
         Static(<<>>, VoidType,
                <<Push(1), Push(2), Push(3), Push(4), O(op),
                  Invoke("invokestatic", "f",
                         [k \in 1 .. 4 - Rearrange[op][1] + Len(Rearrange[op][2]) |-> IntType],
                         VoidType), Ret>>))

\* A test, with a value on the stack where its branches meet.
Choice(op) ==
    IF BranchOperands[op][1] = "pair"
    THEN Static(I2, IntType, <<Ld(0), Ld(1), To(op, 6), Push(0), To("goto", 7), Push(1), XRet>>)
    ELSE Static(I1, IntType, <<Ld(0), To(op, 5), Push(0), To("goto", 6), Push(1), XRet>>)

Branches ==
    Each({op \in Conditional : BranchOperands[op][2] \in Relations}, Choice)
    \o <<\* s = 0; while (n > 0) { s += n; n--; } return s;
         Static(I1, IntType,
                <<Push(0), St(1), Ld(0), To("ifle", 11), Ld(1), Ld(0), O("iadd"), St(1),
                  Inc(0, -1), To("goto", 3), Ld(1), XRet>>),
         \* while (n > 0) { swap a and b; n--; } return a;
         Static(<<IntType, BooleanType, BooleanType>>, BooleanType,
                <<Push(0), St(3), Ld(0), To("ifle", 11), Ld(1), Ld(2), St(1), St(2),
                  Inc(0, -1), To("goto", 3), Ld(1), XRet>>),
         \* do { swap a and b; n--; } while (n > 0); return a;
         Static(<<IntType, BooleanType, BooleanType>>, BooleanType,
                <<Push(0), St(3), Ld(1), Ld(2), St(1), St(2), Inc(0, -1), Ld(0), To("ifgt", 3),
                  Ld(1), XRet>>),
         \* goto test; body: n--; test: if (n > 0) goto body; return n;
         Static(I1, IntType,
                <<To("goto", 3), Inc(0, -1), Ld(0), To("ifgt", 2), Ld(0), XRet>>),
         \* A loop that is entered at two blocks.
         Static(I1, IntType,
                <<Ld(0), To("ifeq", 6), Inc(0, -1), Ld(0), To("ifle", 9), Inc(0, -2), Ld(0),
                  To("ifgt", 3), Ld(0), XRet>>),
         \* A loop that never ends, and has a local of its own.
         Static(I1, VoidType, <<Push(0), St(1), Inc(0, 1), Ld(0), St(2), To("goto", 3)>>),
         \* switch (x) { case 0: case 2: return 1; case -1: return x; default: return 7; }
         Static(I1, IntType,
                <<Ld(0), Cases(<<0, 2, -1>>, <<7, 3, 3, 5>>), Push(1), XRet, Ld(0), XRet,
                  Push(7), XRet>>),
         \* return n != 0 ? b : true;
         Static(<<BooleanType, IntType>>, BooleanType,
                <<Ld(1), To("ifeq", 5), Ld(0), To("goto", 6), Push(1), XRet>>),
         \* if (n != 0) { int m = n; } return n;
         Static(I1, IntType, <<Ld(0), To("ifeq", 5), Ld(0), St(1), Ld(0), XRet>>),
         \* return g(a, b > 0 ? a : 2) / b;
         Static(I2, IntType,
                <<Ld(0), Ld(1), To("ifle", 6), Ld(0), To("goto", 7), Push(2),
                  Invoke("invokestatic", "g", I2, IntType), Ld(1), O("idiv"), XRet>>),
         \* for (i = 0; i < n; i++) for (j = i; j < n; j++) System.out.print(j);
         Static(I1, VoidType,
                <<Push(0), St(1), Ld(1), Ld(0), To("if_icmpge", 18), Ld(1), St(2), Ld(2), Ld(0),
                  To("if_icmpge", 16), Out, Ld(2), PrintOut("print", I1), Inc(2, 1),
                  To("goto", 8), Inc(1, 1), To("goto", 3), Ret>>)>>

-----------------------------------------------------------------------------
StoreOf(type) == Of(IF type = IntType THEN "iastore" ELSE "sastore", type)
LoadOf(type) == Of(IF type = IntType THEN "iaload" ELSE "saload", type)

Memory ==
    \* a[i] = v; return a[i];
    Each(IntLike, LAMBDA type :
      Static(<<Array(type), IntType, IF type = BooleanType THEN type ELSE IntType>>, IntType,
             <<Ld(0), Ld(1), Ld(2), StoreOf(type), Ld(0), Ld(1), LoadOf(type), XRet>>))
    \o <<\* int[] a = new int[n]; a[0] = n; return a.length + a[0];
         Static(I1, IntType,
                <<Ld(0), O("newarray"), St(1), Ld(1), Push(0), Ld(0), O("iastore"),
                  Ld(1), O("arraylength"), Ld(1), Push(0), O("iaload"), O("iadd"), XRet>>),
         Static(<<Array(C), C>>, C,
                <<Ld(0), Push(0), Ld(1), Of("aastore", C), Ld(0), Push(0), Of("aaload", C), XRet>>),
         Static(<<Array(IntType)>>, IntType, <<Ld(0), O("arraylength"), XRet>>),
         \* o.f = v; return o.f;
         Static(<<C, IntType>>, IntType,
                <<Ld(0), Ld(1), Field("putfield", "f", IntType), Ld(0),
                  Field("getfield", "f", IntType), XRet>>),
         Static(<<C>>, C, <<Ld(0), Field("getfield", "next", C), XRet>>),
         \* S.x = S.x + n;
         Static(I1, VoidType,
                <<Field("getstatic", "x", IntType), Ld(0), O("iadd"),
                  Field("putstatic", "x", IntType), Ret>>),
         \* C(int n) { super(); this.f = n; }, and return new C(n).f;
         Instance(I1, VoidType,
                  <<Ld(0), Invoke("invokespecial", ObjectInit, <<>>, VoidType), Ld(0), Ld(1),
                    Field("putfield", "f", IntType), Ret>>),
         Static(I1, IntType,
                <<Of("new", C), O("dup"), Ld(0), Invoke("invokespecial", "C.<init>", I1, VoidType),
                  Field("getfield", "f", IntType), XRet>>),
         \* this.m(n); with m private.
         Instance(I1, VoidType,
                  <<Ld(0), Ld(1), Invoke("invokespecial", "C.m", I1, VoidType), Ret>>)>>

Texts ==
    <<Static(I1, VoidType,
             <<Out, PrintOut("println", <<>>), Out, Ld(0), PrintOut("print", I1), Out, Ld(0),
               PrintOut("println", I1), Out, PushText(1), PrintOut("print", <<StringType>>), Out,
               PushText(2), PrintOut("println", <<StringType>>), Ret>>),
      \* System.out.println("a" + n + s + 1 + n);
      Static(<<IntType, StringType>>, VoidType,
             <<Out, Ld(0), Ld(1), Ld(0),
               Join(<<IntType, StringType, IntType>>, <<"text", "arg", "arg", "number", "arg">>),
               PrintOut("println", <<StringType>>), Ret>>),
      \* return g(n, h()) - n;
      Static(I1, IntType,
             <<Ld(0), Invoke("invokestatic", "h", <<>>, IntType),
               Invoke("invokestatic", "g", I2, IntType), Ld(0), O("isub"), XRet>>)>>

-----------------------------------------------------------------------------
\* A local that one of two branches defines, in the branch that is lowered first.
LocalOfOneBranch ==
    Static(I1, IntType,
           <<Ld(0), To("ifeq", 6), Ld(0), St(1), To("goto", 7), Inc(0, 1), Ld(0), XRet>>)

\* Methods that are refused, each for a reason of its own.
Refusals ==
    <<[Static(<<>>, VoidType, <<Ret>>) EXCEPT !.handlers = TRUE],
      Static(<<WideType>>, VoidType, <<Ret>>),
      Static(<<Array(Array(IntType))>>, VoidType, <<Ret>>),
      Static(<<>>, VoidType, <<O("monitorenter"), Ret>>),
      \* A loop back to the first instruction.
      Static(I1, VoidType, <<Inc(0, 1), To("goto", 1)>>),
      \* References compared: lowered, but not compiled.
      Static(<<C, C>>, IntType,
             <<Ld(0), Ld(1), To("if_acmpeq", 6), Push(0), XRet, Push(1), XRet>>),
      Static(<<C>>, IntType, <<Ld(0), To("ifnull", 5), Push(0), XRet, Push(1), XRet>>),
      \* A sub-word value where the verifier expects an int.
      Static(<<CharType>>, IntType, <<Ld(0), XRet>>),
      \* return n != 0 ? true : b;  with the branches the other way, it passes.
      Static(<<BooleanType, IntType>>, BooleanType,
             <<Ld(1), To("ifeq", 5), Push(1), To("goto", 6), Ld(0), XRet>>),
      Static(<<C>>, IntType, <<Ld(0), Of("instanceof", C), XRet>>),
      Static(<<C>>, C, <<Ld(0), Of("checkcast", C), XRet>>),
      \* if (n != 0) { int m = n; } else { n++; } return n;
      LocalOfOneBranch,
      \* Code after a return, whose branch the plan follows.
      Static(I1, VoidType, <<Ret, Ld(0), To("ifeq", 5), Ret, Ret>>),
      Static(I1, VoidType, <<To("goto", 4), Ret, Ret, Ret>>),
      Static(<<>>, VoidType, <<Out, PushNull, PrintOut("println", <<CharType>>), Ret>>),
      Static(<<C>>, VoidType, <<Ld(0), Invoke("invokevirtual", "m", <<>>, VoidType), Ret>>),
      Static(<<CharType>>, StringType, <<Ld(0), Join(<<CharType>>, <<"arg">>), XRet>>),
      Static(<<C>>, VoidType,
             <<Ld(0), Field("getfield", "a", Array(IntType)), O("pop"), Ret>>),
      Static(I1, VoidType, <<Ld(0), Of("newarray", WideType), O("pop"), Ret>>),
      Static(<<C>>, IntType, <<Ld(0), Invoke("invokespecial", "C.m", <<>>, IntType), XRet>>)>>

Compiled == Computations \o Branches \o Memory \o Texts \o Refusals

\* A concatenation of a text and an object that is not a String, or null.
Operands ==
    <<Static(<<C>>, StringType, <<Ld(0), Join(<<C>>, <<"text", "arg">>), XRet>>)>>

FourBits == -8 .. 7
==============================================================================
