----------------------------- MODULE LoweredRuns -----------------------------
(***************************************************************************)
(* A lowered method is run twice on the same arguments: its bytecode as    *)
(* the JVM specification says, then its SSA function as the machine code   *)
(* that codegen/cranelift/lower.rs makes of it.  Each run leaves a trace   *)
(* of what can be observed, blocks entered included; the calls the method  *)
(* makes are answered alike in both.                                       *)
(*                                                                         *)
(* A value is a tagged tuple.  The widths of the integers are constants.   *)
(***************************************************************************)
EXTENDS Lowering, JavaInts, Bitwise

CONSTANTS
    Ints,       \* integer arguments, and results of calls
    MaxBlocks   \* blocks a run may enter before it is cut

ASSUME RunsAssumption == Ints \subseteq IntRange /\ MaxBlocks \in Nat

VARIABLES
    jvm,    \* the bytecode's run: pc (0 when over), locals, stack, heap, statics, trace,
            \* the frame at each block entered, and whether it was cut
    native  \* the machine code's: block (0 when over) and instruction, values, heap,
            \* statics, trace, and the parameters of each block entered
runVars == <<jvm, native>>

IntValue(n) == <<"int", n>>
NullRef == <<"null", 0>>
Ref(a) == <<"ref", a>>
Text(pieces) == <<"string", pieces>>
Default(type) == IF type \in IntLike THEN IntValue(0) ELSE NullRef
Truth(b) == IntValue(IF b THEN 1 ELSE 0)

Fetch(f, x, type) == IF x \in DOMAIN f THEN f[x] ELSE Default(type)
Fresh(length) == [length |-> length, cells |-> [c \in {} |-> NullRef]]
Allocated(heap, length) == Append(heap, Fresh(length))
Stored(heap, a, cell, v) == [heap EXCEPT ![a].cells = Put(@, cell, v)]

-----------------------------------------------------------------------------
(* Arithmetic: the JVM's, and the machine code's. *)

Bits(Op(_, _), a, b) == Wrap(Op(Unsigned(a, IntBits), Unsigned(b, IntBits)))

\* Shifts by a distance below the width.
ShiftLeft(a, d) == Wrap(a * 2 ^ d)
ShiftRight(a, d) == a \div 2 ^ d
ShiftRightUnsigned(a, d) == Wrap(Unsigned(a, IntBits) \div 2 ^ d)

JvmBinary(op, a, b) ==
    CASE op \in {"iadd", "isub", "imul", "idiv", "irem"} -> Computed(op, a, b)
      [] op = "ishl" -> ShiftLeft(a, b % IntBits)
      [] op = "ishr" -> ShiftRight(a, b % IntBits)
      [] op = "iushr" -> ShiftRightUnsigned(a, b % IntBits)
      [] op = "iand" -> Bits(LAMBDA x, y : x & y, a, b)
      [] op = "ior" -> Bits(LAMBDA x, y : x | y, a, b)
      [] op = "ixor" -> Bits(LAMBDA x, y : x ^^ y, a, b)

\* Mutant: the shift distance is not masked.
ShiftAmountRaw(d) == Unsigned(d, IntBits)

\* shift_amount: the low bits of the distance.
ShiftAmount(d) == Unsigned(d, IntBits) % IntBits

\* sdiv traps where the quotient overflows; none is asked for one here.
SafeDivisor(b) == IF b = -1 THEN 1 ELSE b

\* Mutant: the quotient by the divisor swapped in is not negated.
CheckedSdivPlain(a, b) == Quotient(a, SafeDivisor(b))

\* checked_sdiv and checked_srem.
CheckedSdiv(a, b) == IF b = -1 THEN Wrap(-a) ELSE Quotient(a, SafeDivisor(b))
CheckedSrem(a, b) == a - SafeDivisor(b) * Quotient(a, SafeDivisor(b))

NativeBinary(op, a, b) ==
    CASE op = "add" -> Wrap(a + b)
      [] op = "sub" -> Wrap(a - b)
      [] op = "mul" -> Wrap(a * b)
      [] op = "div" -> CheckedSdiv(a, b)
      [] op = "rem" -> CheckedSrem(a, b)
      [] op = "shl" -> ShiftLeft(a, ShiftAmount(b))
      [] op = "shr" -> ShiftRight(a, ShiftAmount(b))
      [] op = "ushr" -> ShiftRightUnsigned(a, ShiftAmount(b))
      [] op = "and" -> Bits(LAMBDA x, y : x & y, a, b)
      [] op = "or" -> Bits(LAMBDA x, y : x | y, a, b)
      [] op = "xor" -> Bits(LAMBDA x, y : x ^^ y, a, b)

NativeUnary(op, a) ==
    CASE op = "neg" -> Wrap(-a)
      [] op = "int_to_byte" -> Signed(a, ByteBits)
      [] op = "int_to_short" -> Signed(a, ShortBits)
      [] op = "int_to_char" -> Unsigned(a, ShortBits)

\* Mutant of ElementStorage: every sub-word element is sign-extended.
ElementStorageSigned(type) ==
    CASE type \in {ByteType, BooleanType} -> <<ByteBits, TRUE>>
      [] type \in {ShortType, CharType} -> <<ShortBits, TRUE>>
      [] OTHER -> <<IntBits, TRUE>>

\* array_element_storage: the width of an element, and whether it is sign-extended.
ElementStorage(type) ==
    CASE type = ByteType -> <<ByteBits, TRUE>>
      [] type = BooleanType -> <<ByteBits, FALSE>>
      [] type = ShortType -> <<ShortBits, TRUE>>
      [] type = CharType -> <<ShortBits, FALSE>>
      [] OTHER -> <<IntBits, TRUE>>

\* What is read back of an int stored in an element: in the JVM, and in the machine code,
\* where a sub-word element is truncated, then widened.
Narrowed(type, v) == IF type \in IntLike THEN IntValue(Narrow(type, v[2])) ELSE v
ReadBack(type, v) ==
    LET storage == ElementStorage(type) IN
    IF type \notin IntLike THEN v
    ELSE IntValue(IF storage[2] THEN Signed(v[2], storage[1]) ELSE Unsigned(v[2], storage[1]))

-----------------------------------------------------------------------------
(* The bytecode's run. *)

J == code[jvm.pc]
Arg(k) == jvm.stack[Len(jvm.stack) + 1 - k]
Below(k) == SubSeq(jvm.stack, 1, Len(jvm.stack) - k)

\* Control reaches p; if it starts a block, the frame is kept.
JvmTo(state, p) ==
    IF p \notin Leaders(code) THEN [state EXCEPT !.pc = p]
    ELSE [state EXCEPT !.pc = IF Len(state.frames) = MaxBlocks THEN 0 ELSE p,
                       !.cut = Len(state.frames) = MaxBlocks,
                       !.trace = Append(@, <<"enter", p>>),
                       !.frames = Append(@, [locals |-> state.locals, stack |-> state.stack])]

\* The instruction pops k values, pushes others, and control goes on.
JvmGo(state, k, pushed) == JvmTo([state EXCEPT !.stack = Below(k) \o pushed], jvm.pc + 1)
JvmEnds(event) == [jvm EXCEPT !.trace = Append(@, event), !.pc = 0]

JvmAt(ops) == phase = "jvm" /\ jvm.pc # 0 /\ J.op \in ops
JvmStep(state) == jvm' = state /\ UNCHANGED <<vars, native>>

JvmPlain ==
    /\ JvmAt({"const", "load", "store", "iinc"} \cup DOMAIN Rearrange)
    /\ JvmStep(
         CASE J.op = "const" ->
                JvmGo(jvm, 0, <<IF J.type = IntType THEN IntValue(J.n)
                                ELSE IF J.type = NullType THEN NullRef
                                ELSE Text(<<<<"text", J.n>>>>)>>)
           [] J.op = "load" -> JvmGo(jvm, 0, <<jvm.locals[J.n]>>)
           [] J.op = "store" -> JvmGo([jvm EXCEPT !.locals = Put(@, J.n, Arg(1))], 1, <<>>)
           [] J.op = "iinc" ->
                JvmGo([jvm EXCEPT !.locals[J.n] = IntValue(Wrap(@[2] + J.by))], 0, <<>>)
           [] OTHER -> LET back == Rearrange[J.op][2]
                       IN JvmGo(jvm, Pops(J), [k \in DOMAIN back |-> Arg(back[k])]))

JvmArithmetic ==
    /\ JvmAt(DOMAIN Binary \cup DOMAIN Unary)
    /\ JvmStep(IF J.op \in DOMAIN Unary THEN JvmGo(jvm, 1, <<IntValue(Converted(J.op, Arg(1)[2]))>>)
               ELSE IF J.op \in {"idiv", "irem"} /\ Arg(1)[2] = 0 THEN JvmEnds(<<"trap", "divide">>)
               ELSE JvmGo(jvm, 2, <<IntValue(JvmBinary(J.op, Arg(2)[2], Arg(1)[2]))>>))

\* The static type of the array is that of its frame, which the frame's types in the
\* lowering follow; here it is the instruction's own.
JvmArray ==
    /\ JvmAt({"newarray", "arraylength", "iaload", "aaload", "saload", "iastore", "aastore", "sastore"})
    /\ LET load == J.op \in {"iaload", "aaload", "saload"}
           array == IF J.op = "arraylength" THEN Arg(1) ELSE IF load THEN Arg(2) ELSE Arg(3)
           index == IF load THEN Arg(1) ELSE Arg(2)
       IN JvmStep(
            CASE J.op = "newarray" ->
                   IF Arg(1)[2] < 0 THEN JvmEnds(<<"trap", "negative", Arg(1)[2]>>)
                   ELSE JvmGo([jvm EXCEPT !.heap = Allocated(@, Arg(1)[2])], 1,
                              <<Ref(Len(jvm.heap) + 1)>>)
              [] J.op # "newarray" /\ array = NullRef -> JvmEnds(<<"trap", "null">>)
              [] J.op = "arraylength" /\ array # NullRef ->
                   JvmGo(jvm, 1, <<IntValue(jvm.heap[array[2]].length)>>)
              [] OTHER ->
                   LET object == jvm.heap[array[2]] IN
                   IF index[2] \notin 0 .. object.length - 1
                   THEN JvmEnds(<<"trap", "bounds", index[2], object.length>>)
                   ELSE IF load THEN JvmGo(jvm, 2, <<Fetch(object.cells, index[2], J.type)>>)
                   ELSE JvmGo([jvm EXCEPT !.heap = Stored(@, array[2], index[2],
                                                          Narrowed(J.type, Arg(1)))], 3, <<>>))

JvmMember ==
    /\ JvmAt({"getstatic", "putstatic", "getfield", "putfield", "new"})
    /\ LET object == IF J.op = "putfield" THEN Arg(2) ELSE Arg(1) IN
       JvmStep(
         CASE J.op = "new" ->
                JvmGo([jvm EXCEPT !.heap = Allocated(@, 0)], 0, <<Ref(Len(jvm.heap) + 1)>>)
           [] J.op = "getstatic" -> JvmGo(jvm, 0, <<Fetch(jvm.statics, J.ref, J.type)>>)
           [] J.op = "putstatic" ->
                JvmGo([jvm EXCEPT !.statics = Put(@, J.ref, Arg(1))], 1, <<>>)
           [] J.op \in {"getfield", "putfield"} /\ object = NullRef -> JvmEnds(<<"trap", "null">>)
           [] J.op = "getfield" /\ object # NullRef ->
                JvmGo(jvm, 1, <<Fetch(jvm.heap[object[2]].cells, J.ref, J.type)>>)
           [] J.op = "putfield" /\ object # NullRef ->
                JvmGo([jvm EXCEPT !.heap = Stored(@, object[2], J.ref, Arg(1))], 2, <<>>))

\* A callee may return any value of its type; invokespecial has a receiver.
JvmCall ==
    /\ JvmAt({"invokestatic", "invokespecial"})
    /\ IF J.op = "invokespecial" /\ Arg(Pops(J)) = NullRef THEN JvmStep(JvmEnds(<<"trap", "null">>))
       ELSE IF J.ref = ObjectInit THEN JvmStep(JvmGo(jvm, 1, <<>>))
       ELSE LET args == SubSeq(jvm.stack, Len(jvm.stack) + 1 - Pops(J), Len(jvm.stack)) IN
            \E n \in Ints :
              LET results == IF J.sig.returns = VoidType THEN <<>> ELSE <<IntValue(n)>>
                  state == [jvm EXCEPT !.trace = Append(@, <<"call", J.ref, args, results>>)]
              IN JvmStep(JvmGo(state, Pops(J), results))

\* String.valueOf: null prints as a word of its own.
Shown(v) == IF v[1] = "string" THEN v[2] ELSE <<v>>

JvmPrint ==
    /\ JvmAt({"print"})
    /\ LET shown == IF J.sig.params = <<>> THEN <<>> ELSE Shown(Arg(1)) IN
         JvmStep(JvmGo([jvm EXCEPT !.trace = Append(@, <<J.ref, shown>>)], Pops(J), <<>>))

\* The recipe, with the arguments in their places.
JvmConcat ==
    /\ JvmAt({"concat"})
    /\ LET args == SubSeq(jvm.stack, Len(jvm.stack) + 1 - Pops(J), Len(jvm.stack))
           part(s, p) == IF p = "arg" THEN [s EXCEPT !.text = @ \o Shown(args[s.arg]), !.arg = @ + 1]
                         ELSE [s EXCEPT !.text = Append(@, <<IF p = "text" THEN "text" ELSE "int", 1>>)]
           built == FoldLeft(part, [text |-> <<>>, arg |-> 1], J.parts)
       IN JvmStep(JvmGo(jvm, Pops(J), <<Text(built.text)>>))

JvmBranch ==
    /\ JvmAt({"goto", "switch"} \cup Conditional)
    /\ LET test == IF J.op \in Conditional THEN BranchOperands[J.op] ELSE <<"", "">>
           holds == CASE test[1] = "zero" -> Related(test[2], Arg(1)[2], 0)
                      [] test[1] = "pair" -> Related(test[2], Arg(2)[2], Arg(1)[2])
                      [] OTHER -> TRUE
           cases == {k \in DOMAIN J.keys : J.keys[k] = Arg(1)[2]}
           target == CASE J.op = "switch" ->
                            IF cases = {} THEN J.to[1] ELSE J.to[1 + CHOOSE k \in cases : TRUE]
                       [] OTHER -> IF holds THEN J.to[1] ELSE jvm.pc + 1
       IN JvmStep(JvmTo([jvm EXCEPT !.stack = Below(Pops(J))], target))

JvmReturn ==
    /\ JvmAt(Returns)
    /\ JvmStep(JvmEnds(IF J.op = "return" THEN <<"return">> ELSE <<"return", Arg(1)>>))

-----------------------------------------------------------------------------
(* The machine code's run. *)

N == blocks[native.block].instrs[native.at]
V(k) == native.values[N.uses[k]]

NativeAt(ops) == phase = "native" /\ native.block # 0 /\ N.op \in ops
NativeStep(state) == native' = state /\ UNCHANGED <<vars, jvm>>
NativeGo(state) == [state EXCEPT !.at = @ + 1]
NativeDefines(v) == NativeGo([native EXCEPT !.values = Put(@, N.def, v)])
NativeTells(event) == [native EXCEPT !.trace = Append(@, event)]
NativeEnds(event) == [NativeTells(event) EXCEPT !.block = 0]

\* Constants; a parameter is already in its place.
NativeConstant ==
    /\ NativeAt({"param", "constant"})
    /\ NativeStep(IF N.op = "param" THEN NativeGo(native)
                  ELSE NativeDefines(IF N.type = IntType THEN IntValue(N.n)
                                     ELSE IF N.type = NullType THEN NullRef
                                     ELSE Text(<<<<"text", N.n>>>>)))

\* Arithmetic, and comparisons as 0 or 1.
NativeCompute ==
    /\ NativeAt(ArithmeticOps \cup UnaryOps \cup IntCompare)
    /\ NativeStep(NativeDefines(
         CASE N.op \in ArithmeticOps -> IntValue(NativeBinary(N.op, V(1)[2], V(2)[2]))
           [] N.op \in UnaryOps -> IntValue(NativeUnary(N.op, V(1)[2]))
           [] N.op \in IntCompare -> Truth(Related(N.op, V(1)[2], V(2)[2]))))

\* Mutant of OutOfBounds: the comparison is signed.
OutOfBoundsSigned(index, length) == index >= length

\* The unsigned comparison of a bounds check.
OutOfBounds(index, length) == Unsigned(index, IntBits) >= Unsigned(length, IntBits)

\* trap_if: the trap that a check, or a new array's length, takes.
Trap ==
    CASE N.op = "zero_check" /\ V(1) = IntValue(0) -> <<"trap", "divide">>
      [] N.op = "null_check" /\ V(1) = NullRef -> <<"trap", "null">>
      [] N.op = "bounds_check" /\ OutOfBounds(V(1)[2], V(2)[2]) ->
           <<"trap", "bounds", V(1)[2], V(2)[2]>>
      [] N.op = "new_array" /\ V(1)[2] < 0 -> <<"trap", "negative", V(1)[2]>>
      [] OTHER -> <<>>

NativeCheck ==
    /\ NativeAt({"zero_check", "null_check", "bounds_check"})
    /\ NativeStep(IF Trap = <<>> THEN NativeGo(native) ELSE NativeEnds(Trap))

NativeArray ==
    /\ NativeAt({"new_array", "array_length", "array_load", "array_store"})
    /\ NativeStep(
         CASE N.op = "new_array" /\ Trap # <<>> -> NativeEnds(Trap)
           [] N.op = "new_array" /\ Trap = <<>> ->
                [NativeDefines(Ref(Len(native.heap) + 1)) EXCEPT !.heap = Allocated(@, V(1)[2])]
           [] N.op = "array_length" -> NativeDefines(IntValue(native.heap[V(1)[2]].length))
           [] N.op = "array_load" ->
                NativeDefines(ReadBack(N.type, Fetch(native.heap[V(1)[2]].cells, V(2)[2], N.type)))
           [] N.op = "array_store" ->
                NativeGo([native EXCEPT !.heap = Stored(@, V(1)[2], V(2)[2], V(3))]))

NativeMember ==
    /\ NativeAt({"get_static", "put_static", "get_field", "put_field", "new_object"})
    /\ NativeStep(
         CASE N.op = "new_object" ->
                [NativeDefines(Ref(Len(native.heap) + 1)) EXCEPT !.heap = Allocated(@, 0)]
           [] N.op = "get_static" -> NativeDefines(Fetch(native.statics, N.ref, N.type))
           [] N.op = "put_static" -> NativeGo([native EXCEPT !.statics = Put(@, N.ref, V(1))])
           [] N.op = "get_field" ->
                NativeDefines(Fetch(native.heap[V(1)[2]].cells, N.ref, N.type))
           [] N.op = "put_field" ->
                NativeGo([native EXCEPT !.heap = Stored(@, V(1)[2], N.ref, V(2))]))

\* The call is answered as the bytecode's call was.  A call it did not make ends the run.
NativeCall ==
    /\ NativeAt({"call"})
    /\ LET k == Len(native.trace) + 1
           answered == k \in DOMAIN jvm.trace /\ jvm.trace[k][1] = "call"
           results == IF answered THEN jvm.trace[k][4] ELSE <<>>
           event == <<"call", N.ref, [j \in DOMAIN N.uses |-> V(j)], results>>
       IN NativeStep(IF (N.def # None) # (results # <<>>) THEN NativeEnds(event)
                     ELSE LET state == [NativeTells(event) EXCEPT !.at = @ + 1]
                          IN IF N.def = None THEN state
                             ELSE [state EXCEPT !.values = Put(@, N.def, results[1])])

\* fvm_rt_write_string and the builder's append read what they are given as a string;
\* at a null address there is nothing to read.
Read(v) == IF v[1] = "string" THEN v[2] ELSE IF N.type = IntType THEN <<v>> ELSE <<<<"raw", v>>>>
Unreadable(v) == v = NullRef

NativeText ==
    /\ NativeAt({"print", "println", "builder", "append", "finish"})
    /\ NativeStep(
         CASE N.op \in {"print", "println"} ->
                IF N.uses = <<>> THEN NativeGo(NativeTells(<<N.op, <<>>>>))
                ELSE IF Unreadable(V(1)) THEN NativeEnds(<<"crash">>)
                ELSE NativeGo(NativeTells(<<N.op, Read(V(1))>>))
           [] N.op = "builder" -> NativeDefines(Text(<<>>))
           [] N.op = "append" ->
                IF Unreadable(V(2)) THEN NativeEnds(<<"crash">>)
                ELSE NativeGo([native EXCEPT !.values[N.uses[1]] = Text(@[2] \o Read(V(2)))])
           [] N.op = "finish" -> NativeDefines(V(1)))

\* Mutant of Entered: a parameter is assigned before the next argument is read.
EnteredInTurn(edge) ==
    LET params == blocks[edge.block].params
    IN FoldLeft(LAMBDA f, k : Put(f, params[k].value, f[edge.args[k]]), native.values,
                [k \in DOMAIN params |-> k])

\* The values once an edge has been taken: all its arguments are read, then assigned.
Entered(edge) ==
    LET params == blocks[edge.block].params
    IN FoldLeft(LAMBDA f, k : Put(f, params[k].value, native.values[edge.args[k]]),
                native.values, [k \in DOMAIN params |-> k])

\* The edge a terminator takes: a switch tests its cases in order, its default last.
TakenEdge ==
    LET cases == {k \in DOMAIN N.keys : IntValue(N.keys[k]) = V(1)}
    IN CASE N.op = "branch" -> N.edges[1]
         [] N.op = "cond_branch" -> IF V(1) # IntValue(0) THEN N.edges[1] ELSE N.edges[2]
         [] N.op = "switch" -> IF cases = {} THEN Last(N.edges)
                               ELSE N.edges[CHOOSE k \in cases : \A j \in cases : k <= j]

NativeBranch ==
    /\ NativeAt({"branch", "cond_branch", "switch"})
    /\ LET edge == TakenEdge
           params == blocks[edge.block].params
           after == Entered(edge)
           cut == Len(native.frames) = MaxBlocks
       IN NativeStep(
            [native EXCEPT !.block = IF cut THEN 0 ELSE edge.block, !.at = 1, !.values = after,
                           !.trace = Append(@, <<"enter", edge.block>>),
                           !.frames = Append(@, [k \in DOMAIN params |-> after[params[k].value]])])

NativeReturn ==
    /\ NativeAt(Returns)
    /\ NativeStep(NativeEnds(IF N.op = "return" THEN <<"return">> ELSE <<"return", V(1)>>))

-----------------------------------------------------------------------------
(* The two runs. *)

\* What a caller may pass: the heap holds an object and an array of two elements.
Passable(type) ==
    CASE type = IntType -> {IntValue(n) : n \in Ints}
      [] type = BooleanType -> {Truth(TRUE), Truth(FALSE)}
      [] type = CharType -> {IntValue(n) : n \in 0 .. 2 ^ ShortBits - 1}
      [] type = StringType -> {Text(<<<<"text", 0>>>>)}
      [] IsArray(type) -> {NullRef, Ref(2)}
      [] OTHER -> {NullRef, Ref(1)}

Idle == [pc |-> 0, block |-> 0]

\* lower_compare refuses the comparisons of references.
Uncompiled ==
    \E b \in DOMAIN blocks : \E i \in ToSet(blocks[b].instrs) : i.op \in RefCompare

Refuse ==
    /\ phase = "lowered" /\ Uncompiled
    /\ phase' = "rejected" /\ reason' = "codegen"
    /\ UNCHANGED <<method, walk, order, pc, frame, next, instrs, entries, blocks, runVars>>

\* this is never null.
Start ==
    /\ phase = "lowered" /\ ~Uncompiled
    /\ phase' = "jvm"
    /\ \E args \in [DOMAIN Parameters -> UNION {Passable(p.type) : p \in ToSet(Parameters)}] :
         /\ \A k \in DOMAIN args : args[k] \in Passable(Parameters[k].type)
         /\ ~method.static => args[1] # NullRef
         /\ LET run == [heap |-> <<Fresh(0), Fresh(2)>>, statics |-> [f \in {} |-> NullRef],
                        trace |-> <<>>, frames |-> <<>>]
            IN /\ jvm' = run @@ [pc |-> 1, stack |-> <<>>, cut |-> FALSE,
                                 locals |-> [s \in 0 .. Len(args) - 1 |-> args[s + 1]]]
               /\ native' = run @@ [block |-> 1, at |-> 1, values |-> args]
    /\ UNCHANGED <<method, reason, walk, order, pc, frame, next, instrs, entries, blocks>>

\* The machine code runs once the bytecode's run is over; then both are.
NextRun ==
    /\ \/ phase = "jvm" /\ jvm.pc = 0 /\ phase' = "native"
       \/ phase = "native" /\ native.block = 0 /\ phase' = "done"
    /\ UNCHANGED <<method, reason, walk, order, pc, frame, next, instrs, entries, blocks, runVars>>

Rest == phase \in {"rejected", "done"} /\ UNCHANGED <<vars, runVars>>

RunInit == Init /\ jvm = Idle /\ native = Idle

RunNext ==
    \/ Lower /\ UNCHANGED runVars
    \/ Refuse \/ Start \/ NextRun \/ Rest
    \/ JvmPlain \/ JvmArithmetic \/ JvmArray \/ JvmMember \/ JvmCall \/ JvmPrint
    \/ JvmConcat \/ JvmBranch \/ JvmReturn
    \/ NativeConstant \/ NativeCompute \/ NativeCheck \/ NativeArray \/ NativeMember
    \/ NativeCall \/ NativeText \/ NativeBranch \/ NativeReturn

Spec == RunInit /\ [][RunNext]_<<vars, runVars>>

-----------------------------------------------------------------------------
(* Properties. *)

Reasons == {"plan", "frame", "verify", "opcode", "merge", "codegen"}

\* What the lowering keeps: values are numbered below next, an entry is a leader's and
\* has a parameter for each of its slots, and a method has a reason exactly when rejected.
TypeOK ==
    /\ phase \in {"plan", "walk", "lower", "lowered", "rejected", "jvm", "native", "done"}
    /\ IF phase = "rejected" THEN reason \in Reasons ELSE reason = ""
    /\ \A v \in ToSet(stack) \cup {locals[s] : s \in DOMAIN locals} : v.value \in 1 .. next - 1
    /\ \A b \in DOMAIN entries :
         b \in Leaders(code) /\ Len(entries[b].params) = Len(entries[b].slots) + entries[b].depth
    /\ jvm # Idle => jvm.pc \in 0 .. Len(code)
    /\ native # Idle => native.block \in {0} \cup DOMAIN blocks

\* What a run shows: its trace, and the statics and the object that outlive it.
Shows(run) == <<run.trace, run.statics, run.heap[1]>>

\* The machine code does what the bytecode does, in the same order: at no time has it
\* shown anything else, and in the end it has shown all of it.  This is what emission
\* order, edge arguments, checks, traps, narrow elements and arithmetic are for.
RunsAgree ==
    /\ phase = "native" => IsPrefix(native.trace, jvm.trace)
    /\ phase = "done" => Shows(native) = Shows(jvm)

\* A block's parameters hold the frame the bytecode has there: slots, then stack.
FramesAgree ==
    phase \in {"native", "done"} =>
      \A k \in DOMAIN native.frames \cap DOMAIN jvm.frames :
        LET entry == entries[jvm.trace[CHOOSE j \in DOMAIN jvm.trace :
                       /\ jvm.trace[j][1] = "enter"
                       /\ k = Cardinality({i \in 1 .. j : jvm.trace[i][1] = "enter"})][2]]
        IN native.frames[k] =
             [s \in DOMAIN entry.slots |-> jvm.frames[k].locals[entry.slots[s]]]
               \o jvm.frames[k].stack
=============================================================================
