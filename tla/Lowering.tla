------------------------------- MODULE Lowering -------------------------------
(***************************************************************************)
(* lower_method_to_ir: a method's bytecode becomes an SSA function whose   *)
(* blocks take the values that live across them as parameters.             *)
(* lower/method.rs drives it, block by block in reverse postorder;         *)
(* lower/state.rs keeps the frame that the bytecode would have, with an    *)
(* SSA value in place of each JVM value; lower/calls.rs lowers members and *)
(* calls.  The first edge into a block fixes the block's parameters.       *)
(*                                                                         *)
(* An instruction's fields: op; n, a constant or a local; ref, the name of *)
(* a member; type, of the constant, the array element, the field or the    *)
(* class; sig, of the callee; to, its targets; keys, of a switch; parts,   *)
(* of a concatenation's recipe.                                            *)
(***************************************************************************)
EXTENDS Bytecode, IrVerify

CONSTANT Methods    \* a sequence of the methods to lower

\* An instruction as it is decoded: a branch has a target, a switch a default, and a recipe's
\* parts are texts, arguments and numbers.
IsInstruction(i) ==
    /\ i.to \in Seq(ToSet(i.to))
    /\ i.op \in Conditional => Len(i.to) = 1
    /\ i.op \in {"goto", "switch"} => i.to # <<>>
    /\ i.op \in {"invokestatic", "invokespecial", "print", "concat"} =>
         i.sig.params \in Seq(ToSet(i.sig.params))
    /\ i.op = "concat" => i.parts \in Seq({"text", "arg", "number"})
IsMethod(m) ==
    /\ m.static \in BOOLEAN /\ m.handlers \in BOOLEAN
    /\ m.params \in Seq(ToSet(m.params)) /\ m.code \in Seq(ToSet(m.code))
    /\ \A i \in ToSet(m.code) : IsInstruction(i)

ASSUME MethodsAssumption == \A i \in DOMAIN Methods : IsMethod(Methods[i])

VARIABLES
    method,     \* the method being lowered; it does not change
    phase,      \* "plan", "walk", "lower", "lowered" or "rejected"
    reason,     \* why it was rejected
    path,       \* the blocks being visited, each with the next of its successors to visit
    visited,    \* the blocks found so far
    order,      \* the blocks left, in postorder; then those left to lower, the current one first
    pc,         \* the next instruction of the current block; 0 before it starts
    locals,     \* the defined locals: slot to typed value
    stack,      \* the operand stack, of typed values
    next,       \* the next SSA value
    instrs,     \* what the current block has emitted
    entries,    \* the entry frames captured so far, by block
    blocks      \* the blocks lowered so far

frame == <<locals, stack>>
walk == <<path, visited>>
vars == <<method, phase, reason, walk, order, pc, locals, stack, next, instrs, entries, blocks>>

code == method.code
I == code[pc]

Put(f, x, y) == [z \in DOMAIN f \cup {x} |-> IF z = x THEN y ELSE f[z]]
Typed(value, type) == [value |-> value, type |-> type]
Top(k) == stack[Len(stack) + 1 - k]
Under(k) == SubSeq(stack, 1, Len(stack) - k)
Values(typed) == [k \in DOMAIN typed |-> typed[k].value]

-----------------------------------------------------------------------------
\* The stack-manipulation opcodes: how many values each pops, and the ones it
\* pushes back, by their depth.
Rearrange ==
    [pop |-> <<1, <<>>>>, pop2 |-> <<2, <<>>>>, dup |-> <<1, <<1, 1>>>>,
     dup_x1 |-> <<2, <<1, 2, 1>>>>, dup_x2 |-> <<3, <<1, 3, 2, 1>>>>,
     dup2 |-> <<2, <<2, 1, 2, 1>>>>, dup2_x1 |-> <<3, <<2, 1, 3, 2, 1>>>>,
     dup2_x2 |-> <<4, <<2, 1, 4, 3, 2, 1>>>>, swap |-> <<2, <<1, 2>>>>]

\* lower_print_stream_call: the overloads of print and println that have a helper.
PrintHelpers ==
    {<<"println", <<>>>>, <<"println", <<IntType>>>>, <<"println", <<StringType>>>>,
     <<"print", <<IntType>>>>, <<"print", <<StringType>>>>}

ObjectInit == "java/lang/Object.<init>"
SystemOut == "java/lang/System.out"

\* How many values the instruction pops.
Pops(i) ==
    CASE i.op \in DOMAIN Rearrange -> Rearrange[i.op][1]
      [] i.op \in DOMAIN Binary -> 2
      [] i.op \in DOMAIN Unary -> 1
      [] i.op \in Conditional -> IF BranchOperands[i.op][1] = "pair" THEN 2 ELSE 1
      [] i.op \in {"iaload", "aaload", "saload", "putfield"} -> 2
      [] i.op \in {"iastore", "aastore", "sastore"} -> 3
      [] i.op \in {"invokestatic", "concat"} -> Len(i.sig.params)
      [] i.op = "invokespecial" -> IF i.ref = ObjectInit THEN 1 ELSE Len(i.sig.params) + 1
      [] i.op = "print" -> Len(i.sig.params) + 1
      [] i.op \in {"const", "load", "iinc", "getstatic", "new", "goto", "return"} -> 0
      [] OTHER -> 1

\* The type of the elements that an array instruction reads or writes: by its
\* opcode, or by the static type of its array.
ElementType(op, array) ==
    CASE op \in {"iaload", "iastore"} -> IntType
      [] op \in {"aaload", "aastore"} -> IF IsArray(array) THEN Element(array) ELSE Unsupported
      [] OTHER -> IF IsArray(array) /\ Element(array) \in SubWord THEN Element(array)
                  ELSE Unsupported

\* The arguments of a concatenation that append_dynamic appends: any object passes for a String.
Appendable(type) == type = IntType \/ type[1] = "object"

\* How many arguments the first k parts of a recipe take.
ArgsBefore(parts, k) == Cardinality({j \in 1 .. k : parts[j] = "arg"})

\* An instruction that the lowering of its opcode refuses, on this frame.
Refused(i) ==
    \/ Len(stack) < Pops(i)
    \/ i.op \in {"load", "iinc"} /\ i.n \notin DOMAIN locals
    \/ i.op \in {"iaload", "aaload", "saload"} /\ ElementType(i.op, Top(2).type) = Unsupported
    \/ i.op \in {"iastore", "aastore", "sastore"} /\ ElementType(i.op, Top(3).type) = Unsupported
    \/ i.op = "newarray" /\ (IsArray(i.type) \/ i.type = WideType)
    \/ i.op \in {"getfield", "putfield", "getstatic", "putstatic"} /\ FieldType(i.type) = Unsupported
    \/ i.op \in {"invokestatic", "invokespecial"} /\ i.ref # ObjectInit
         /\ Unsupported \in {IrType(t) : t \in ToSet(i.sig.params) \cup {i.sig.returns}}
    \/ i.op = "invokespecial" /\ i.ref # ObjectInit /\ i.sig.returns # VoidType
    \/ i.op = "print" /\ <<i.ref, i.sig.params>> \notin PrintHelpers
    \/ i.op = "concat" /\
         \/ Unsupported \in {IrType(t) : t \in ToSet(i.sig.params)}
         \/ \E k \in 1 .. ArgsBefore(i.parts, Len(i.parts)) :
              k > Len(i.sig.params) \/ ~Appendable(IrType(i.sig.params[k]))
    \/ i.op = "invokevirtual"

-----------------------------------------------------------------------------
(* One action per kind of instruction. *)

At(ops) == phase = "lower" /\ pc # 0 /\ pc < End(code, Head(order)) /\ I.op \in ops /\ ~Refused(I)

\* Emit is, pop k values and push the typed ones; used values are new.
Emit(is, k, pushed, used) ==
    /\ instrs' = instrs \o is
    /\ stack' = Under(k) \o pushed
    /\ next' = next + used
    /\ pc' = pc + 1
    /\ UNCHANGED <<method, phase, reason, walk, order, entries, blocks>>

\* push_constant, and push_ldc_constant for the constants it takes.
Constant ==
    /\ At({"const"})
    /\ Emit(<<[Ir("constant", next, I.type, <<>>) EXCEPT !.n = I.n]>>, 0,
            <<Typed(next, I.type)>>, 1)
    /\ UNCHANGED locals

Load ==
    /\ At({"load"})
    /\ Emit(<<>>, 0, <<locals[I.n]>>, 0)
    /\ UNCHANGED locals

Store ==
    /\ At({"store"})
    /\ locals' = Put(locals, I.n, Top(1))
    /\ Emit(<<>>, 1, <<>>, 0)

IncrementLocal == Put(locals, I.n, Typed(next + 1, IntType))

Increment ==
    /\ At({"iinc"})
    /\ locals' = IncrementLocal
    /\ Emit(<<[Ir("constant", next, IntType, <<>>) EXCEPT !.n = I.by],
              Ir("add", next + 1, IntType, <<locals[I.n].value, next>>)>>, 0, <<>>, 2)

\* A copy reuses the value's id.
Rearranged ==
    /\ At(DOMAIN Rearrange)
    /\ LET back == Rearrange[I.op][2] IN
         Emit(<<>>, Pops(I), [k \in DOMAIN back |-> Top(back[k])], 0)
    /\ UNCHANGED locals

\* push_checked_binary checks the divisor first.
ZeroCheck(op, divisor) ==
    IF op \in {"idiv", "irem"} THEN <<Check("zero_check", <<divisor>>)>> ELSE <<>>

Arithmetic ==
    /\ At(DOMAIN Binary)
    /\ Emit(Append(ZeroCheck(I.op, Top(1).value),
                   Ir(Binary[I.op], next, IntType, <<Top(2).value, Top(1).value>>)),
            2, <<Typed(next, IntType)>>, 1)
    /\ UNCHANGED locals

UnaryOp ==
    /\ At(DOMAIN Unary)
    /\ Emit(<<Ir(Unary[I.op], next, IntType, <<Top(1).value>>)>>, 1, <<Typed(next, IntType)>>, 1)
    /\ UNCHANGED locals

-----------------------------------------------------------------------------
(* Arrays, fields and classes. *)

NewArray ==
    /\ At({"newarray"})
    /\ Emit(<<Ir("new_array", next, I.type, <<Top(1).value>>)>>, 1,
            <<Typed(next, Array(I.type))>>, 1)
    /\ UNCHANGED locals

ArrayLength ==
    /\ At({"arraylength"})
    /\ Emit(<<Check("null_check", <<Top(1).value>>),
              Ir("array_length", next, IntType, <<Top(1).value>>)>>, 1, <<Typed(next, IntType)>>, 1)
    /\ UNCHANGED locals

\* guard_array_access: the length is the value next.
Guard(array, index) ==
    <<Check("null_check", <<array>>), Ir("array_length", next, IntType, <<array>>),
      Check("bounds_check", <<index, next>>)>>

\* A sub-word element is an int on the stack.
ArrayLoad ==
    /\ At({"iaload", "aaload", "saload"})
    /\ LET element == ElementType(I.op, Top(2).type) IN
         Emit(Append(Guard(Top(2).value, Top(1).value),
                     Ir("array_load", next + 1, element, <<Top(2).value, Top(1).value>>)),
              2, <<Typed(next + 1, IF I.op = "saload" THEN IntType ELSE element)>>, 2)
    /\ UNCHANGED locals

ArrayStore ==
    /\ At({"iastore", "aastore", "sastore"})
    /\ Emit(Append(Guard(Top(3).value, Top(2).value),
                   [Check("array_store", <<Top(3).value, Top(2).value, Top(1).value>>)
                      EXCEPT !.type = ElementType(I.op, Top(3).type)]),
            3, <<>>, 1)
    /\ UNCHANGED locals

\* lower_getstatic: System.out is a null sentinel.
GetStatic ==
    /\ At({"getstatic"})
    /\ Emit(IF I.ref = SystemOut THEN <<Ir("constant", next, NullType, <<>>)>>
            ELSE <<[Ir("get_static", next, FieldType(I.type), <<>>) EXCEPT !.ref = I.ref]>>,
            0, <<Typed(next, FieldType(I.type))>>, 1)
    /\ UNCHANGED locals

PutStatic ==
    /\ At({"putstatic"})
    /\ Emit(<<[Check("put_static", <<Top(1).value>>) EXCEPT !.ref = I.ref]>>, 1, <<>>, 0)
    /\ UNCHANGED locals

GetField ==
    /\ At({"getfield"})
    /\ Emit(<<Check("null_check", <<Top(1).value>>),
              [Ir("get_field", next, FieldType(I.type), <<Top(1).value>>) EXCEPT !.ref = I.ref]>>,
            1, <<Typed(next, FieldType(I.type))>>, 1)
    /\ UNCHANGED locals

PutField ==
    /\ At({"putfield"})
    /\ Emit(<<Check("null_check", <<Top(2).value>>),
              [Check("put_field", <<Top(2).value, Top(1).value>>) EXCEPT !.ref = I.ref]>>,
            2, <<>>, 0)
    /\ UNCHANGED locals

New ==
    /\ At({"new"})
    /\ Emit(<<Ir("new_object", next, I.type, <<>>)>>, 0, <<Typed(next, I.type)>>, 1)
    /\ UNCHANGED locals

\* The same value, with the target class for its type in the frame.
CheckCast ==
    /\ At({"checkcast"})
    /\ Emit(<<[Check("check_cast", <<Top(1).value>>) EXCEPT !.type = I.type]>>, 1,
            <<Typed(Top(1).value, I.type)>>, 0)
    /\ UNCHANGED locals

InstanceOf ==
    /\ At({"instanceof"})
    /\ Emit(<<Ir("instance_of", next, IntType, <<Top(1).value>>)>>, 1, <<Typed(next, IntType)>>, 1)
    /\ UNCHANGED locals

-----------------------------------------------------------------------------
(* Calls. *)

\* The popped arguments, in the order they were pushed.
Arguments(k) == Values(SubSeq(stack, Len(stack) + 1 - k, Len(stack)))

\* lower_invokestatic and lower_invokespecial, the receiver first, with
\* push_static_call.  Object.<init> only drops its receiver.
Call ==
    /\ At({"invokestatic", "invokespecial"})
    /\ LET type == IrType(I.sig.returns)
           call == [Ir("call", next, type, Arguments(Pops(I))) EXCEPT !.ref = I.ref]
       IN IF I.op = "invokespecial" /\ I.ref = ObjectInit THEN Emit(<<>>, 1, <<>>, 0)
          ELSE IF type = VoidType THEN Emit(<<[call EXCEPT !.def = None]>>, Pops(I), <<>>, 0)
          ELSE Emit(<<call>>, Pops(I), <<Typed(next, type)>>, 1)
    /\ UNCHANGED locals

\* The helper is the method's name and its argument's type; the sentinel is dropped.
PrintCall ==
    /\ At({"print"})
    /\ Emit(<<[Check(I.ref, Arguments(Len(I.sig.params)))
                 EXCEPT !.type = IF I.sig.params = <<>> THEN VoidType ELSE Head(I.sig.params)]>>,
            Pops(I), <<>>, 0)
    /\ UNCHANGED locals

\* lower_concat, from the arguments and the recipe's parts: the builder is the
\* value next; an argument is appended by its declared type, a constant after it is
\* emitted.
Recipe(args) ==
    LET append(type, value) == [Check("append", <<next, value>>) EXCEPT !.type = type]
        argument(k) ==
          append(IF IrType(I.sig.params[k]) = IntType THEN IntType ELSE StringType, args[k])
        literal(n, type) ==
          <<[Ir("constant", n, type, <<>>) EXCEPT !.n = 1], append(type, n)>>
        built[k \in 0 .. Len(I.parts)] ==
          IF k = 0 THEN [is |-> <<Ir("builder", next, Object("StringBuilder"), <<>>)>>,
                         next |-> next + 1]
          ELSE IF I.parts[k] = "arg"
          THEN [is |-> Append(built[k - 1].is, argument(ArgsBefore(I.parts, k))),
                next |-> built[k - 1].next]
          ELSE [is |-> built[k - 1].is \o literal(built[k - 1].next,
                                                IF I.parts[k] = "text" THEN StringType ELSE IntType),
                next |-> built[k - 1].next + 1]
    IN built[Len(I.parts)]

Concat ==
    /\ At({"concat"})
    /\ LET built == Recipe(Arguments(Pops(I))) IN
         Emit(Append(built.is, Ir("finish", built.next, StringType, <<next>>)), Pops(I),
              <<Typed(built.next, StringType)>>, built.next + 1 - next)
    /\ UNCHANGED locals

-----------------------------------------------------------------------------
(* Edges between blocks. *)

\* Mutant of Captured: no parameters for the stack.
CapturedLocals(left, n) ==
    LET slots == Ascending(DOMAIN locals)
    IN [slots |-> slots, depth |-> Len(left),
        params |-> [k \in DOMAIN slots |-> Typed(n + k - 1, locals[slots[k]].type)]]

\* capture_block_entry: fresh parameters, from value n, for the defined locals in
\* ascending order and then the stack.
Captured(left, n) ==
    LET slots == Ascending(DOMAIN locals)
        types == [k \in DOMAIN slots |-> locals[slots[k]].type]
                 \o [k \in DOMAIN left |-> left[k].type]
    IN [slots |-> slots, depth |-> Len(left),
        params |-> [k \in DOMAIN types |-> Typed(n + k - 1, types[k])]]

\* Mutant: an entry is captured again by every edge.
ReachedAgain(targets, left, n) ==
    LET reached[k \in 0 .. Len(targets)] ==
          IF k = 0 THEN [entries |-> entries, next |-> n]
          ELSE [entries |-> Put(reached[k - 1].entries, targets[k], Captured(left, reached[k - 1].next)),
                next |-> reached[k - 1].next + Cardinality(DOMAIN locals) + Len(left)]
    IN reached[Len(targets)]

\* edge_to, for each target in turn: the first edge into a block captures its entry.
Reached(targets, left, n) ==
    LET reached[k \in 0 .. Len(targets)] ==
          IF k = 0 THEN [entries |-> entries, next |-> n]
          ELSE IF targets[k] \in DOMAIN reached[k - 1].entries THEN reached[k - 1]
          ELSE [entries |-> Put(reached[k - 1].entries, targets[k], Captured(left, reached[k - 1].next)),
                next |-> reached[k - 1].next + Cardinality(DOMAIN locals) + Len(left)]
    IN reached[Len(targets)]

\* A frame that supplies every parameter of the entry.
Mergeable(entry, left) ==
    /\ ToSet(entry.slots) \subseteq DOMAIN locals
    /\ entry.depth = Len(left)

\* Mutant of BranchArgs: the stack before the locals.
BranchArgsStackFirst(entry, left) ==
    Values(left) \o [k \in DOMAIN entry.slots |-> locals[entry.slots[k]].value]

\* branch_args.
BranchArgs(entry, left) ==
    [k \in DOMAIN entry.slots |-> locals[entry.slots[k]].value] \o Values(left)

\* The current block ends: is, then a terminator with edges to the targets, taken
\* in the order they are lowered.
EndBlock(is, op, uses, keys, targets, left, n) ==
    LET r == Reached(targets, left, n)
        edge(b) == [block |-> b, args |-> BranchArgs(r.entries[b], left)]
        end == [Terminator(op, uses, [k \in DOMAIN targets |-> edge(targets[k])])
                  EXCEPT !.keys = keys]
        b == Head(order)
    IN /\ \A t \in ToSet(targets) : Mergeable(r.entries[t], left)
       /\ entries' = r.entries /\ next' = r.next
       /\ blocks' = Put(blocks, b, [params |-> IF b = 1 THEN <<>> ELSE entries[b].params,
                                    instrs |-> instrs \o is \o <<end>>])
       /\ order' = Tail(order)
       /\ instrs' = <<>> /\ pc' = 0
       /\ UNCHANGED <<method, phase, reason, walk, frame>>

\* The comparison of a branch: with zero, of a pair, or a test for null.
Compared(kind, rel) ==
    CASE kind = "zero" -> <<Ir("constant", next, IntType, <<>>),
                            Ir(rel, next + 1, BooleanType, <<Top(1).value, next>>)>>
      [] kind = "pair" -> <<Ir(rel, next, BooleanType, <<Top(2).value, Top(1).value>>)>>
      [] kind = "null" -> <<Ir(rel, next, BooleanType, <<Top(1).value>>)>>

If ==
    /\ At(Conditional)
    /\ LET is == Compared(BranchOperands[I.op][1], BranchOperands[I.op][2]) IN
         EndBlock(is, "cond_branch", <<Last(is).def>>, <<>>, <<I.to[1], pc + 1>>,
                  Under(Pops(I)), next + Len(is))

Goto ==
    /\ At({"goto"})
    /\ EndBlock(<<>>, "branch", <<>>, <<>>, I.to, stack, next)

\* The cases' edges before the default's; the key is popped before any of them.
Switch ==
    /\ At({"switch"})
    /\ EndBlock(<<>>, "switch", <<Top(1).value>>, I.keys, Append(Tail(I.to), Head(I.to)),
                Under(1), next)

Return ==
    /\ At(Returns)
    /\ EndBlock(<<>>, I.op, IF I.op = "xreturn" THEN <<Top(1).value>> ELSE <<>>, <<>>, <<>>,
                Under(Pops(I)), next)

\* Control reaches the next leader.
AtEnd == phase = "lower" /\ pc # 0 /\ pc = End(code, Head(order))

Fallthrough ==
    /\ AtEnd
    /\ EndBlock(<<>>, "branch", <<>>, <<>>, <<pc>>, stack, next)

-----------------------------------------------------------------------------
(* The method. *)

\* seed_entry_frame: this, unless the method is static, and the parameters.
Parameters ==
    LET types == (IF method.static THEN <<>> ELSE <<Object("C")>>)
                 \o [k \in DOMAIN method.params |-> IrType(method.params[k])]
    IN [k \in DOMAIN types |-> Typed(k, types[k])]

Init ==
    /\ \E k \in DOMAIN Methods : method = Methods[k]
    /\ phase = "plan" /\ reason = ""
    /\ path = <<>> /\ visited = {} /\ order = <<>> /\ pc = 0
    /\ locals = [s \in {} |-> Typed(None, VoidType)] /\ stack = <<>>
    /\ next = 1 /\ instrs = <<>>
    /\ entries = [b \in {} |-> <<>>] /\ blocks = [b \in {} |-> <<>>]

\* A method rejected before its code is lowered: exception handlers, code with no
\* plan, a primitive not supported, a branch back into the entry block.
Unplanned ==
    \/ method.handlers
    \/ Planless(code)
    \/ Unsupported \in {p.type : p \in ToSet(Parameters)} \cup {IrType(method.returns)}
    \/ \E b \in Leaders(code) : 1 \in ToSet(Successors(code, b))

lowerVars == <<pc, frame, next, instrs, entries, blocks>>

\* The plan is made; then reverse_postorder goes depth first from the entry, with an explicit
\* stack of blocks.
Plan ==
    /\ phase = "plan" /\ ~Unplanned
    /\ phase' = "walk" /\ path' = <<<<1, 1>>>> /\ visited' = {1}
    /\ UNCHANGED <<method, reason, order, lowerVars>>

\* The next successor of the last block is visited, unless it was found before.
Visit ==
    /\ phase = "walk" /\ path # <<>>
    /\ LET block == Last(path)[1]  child == Last(path)[2]
           stay == Append(Front(path), <<block, child + 1>>)
       IN /\ child <= Len(Successors(code, block))
          /\ LET b == Successors(code, block)[child] IN
               IF b \in visited THEN path' = stay /\ UNCHANGED visited
               ELSE path' = Append(stay, <<b, 1>>) /\ visited' = visited \cup {b}
    /\ UNCHANGED <<method, phase, reason, order, lowerVars>>

Leave ==
    /\ phase = "walk" /\ path # <<>>
    /\ Last(path)[2] > Len(Successors(code, Last(path)[1]))
    /\ path' = Front(path) /\ order' = Append(order, Last(path)[1])
    /\ UNCHANGED <<method, phase, reason, visited, lowerVars>>

\* Mutant of ReversePostorder: the blocks as they stand in the code.
BlocksInOrder(postorder) == Ascending(Leaders(code))

ReversePostorder(postorder) == Reverse(postorder)

\* seed_entry_frame, once the blocks are in order.  Locals are numbered from 0.
Seed ==
    /\ phase = "walk" /\ path = <<>>
    /\ phase' = "lower"
    /\ order' = ReversePostorder(order) /\ pc' = 1
    /\ locals' = [s \in 0 .. Len(Parameters) - 1 |-> Parameters[s + 1]]
    /\ next' = Len(Parameters) + 1
    /\ instrs' = [k \in DOMAIN Parameters |->
                    [Ir("param", k, Parameters[k].type, <<>>) EXCEPT !.n = k - 1]]
    /\ UNCHANGED <<method, reason, walk, stack, entries, blocks>>

\* Mutant of Restored: a block starts with the locals of the block before it.
RestoredOver(entry) ==
    [s \in DOMAIN locals \cup ToSet(entry.slots) |->
       IF s \in ToSet(entry.slots)
       THEN entry.params[CHOOSE k \in DOMAIN entry.slots : entry.slots[k] = s] ELSE locals[s]]

\* restore_block_entry, the locals.
Restored(entry) ==
    [s \in ToSet(entry.slots) |->
       entry.params[CHOOSE k \in DOMAIN entry.slots : entry.slots[k] = s]]

NextBlock ==
    /\ phase = "lower" /\ pc = 0 /\ order # <<>>
    /\ Head(order) \in DOMAIN entries
    /\ LET entry == entries[Head(order)] IN
         /\ locals' = Restored(entry)
         /\ stack' = SubSeq(entry.params, Len(entry.slots) + 1, Len(entry.params))
    /\ pc' = Head(order)
    /\ UNCHANGED <<method, phase, reason, walk, order, next, instrs, entries, blocks>>

Function == [params |-> Parameters, returns |-> IrType(method.returns), blocks |-> blocks]

Finish ==
    /\ phase = "lower" /\ pc = 0 /\ order = <<>>
    /\ Verified(Function)
    /\ phase' = "lowered"
    /\ UNCHANGED <<method, reason, walk, order, lowerVars>>

\* Edges of the instruction, or of a fallthrough, that cannot be built.
Unmergeable ==
    LET targets == IF AtEnd THEN <<pc>>
                   ELSE IF I.op \in Conditional THEN <<I.to[1], pc + 1>> ELSE I.to
        left == IF AtEnd THEN stack ELSE Under(Pops(I))
        r == Reached(targets, left, next)
    IN \E t \in ToSet(targets) : ~Mergeable(r.entries[t], left)

Failure ==
    CASE phase = "plan" /\ Unplanned -> "plan"
      [] phase = "lower" /\ pc = 0 /\ order # <<>> /\ Head(order) \notin DOMAIN entries -> "frame"
      [] phase = "lower" /\ pc = 0 /\ order = <<>> /\ ~Verified(Function) -> "verify"
      [] phase = "lower" /\ pc # 0 /\ ~AtEnd /\ Refused(I) -> "opcode"
      [] phase = "lower" /\ pc # 0 /\ (AtEnd \/ ~Refused(I)) /\ Unmergeable -> "merge"
      [] OTHER -> ""

\* The compilation of the method fails, loudly.
Reject ==
    /\ Failure # ""
    /\ phase' = "rejected" /\ reason' = Failure
    /\ UNCHANGED <<method, walk, order, lowerVars>>

Lower ==
    \/ Plan \/ Visit \/ Leave \/ Seed \/ NextBlock \/ Finish \/ Reject
    \/ Constant \/ Load \/ Store \/ Increment \/ Rearranged \/ Arithmetic \/ UnaryOp
    \/ NewArray \/ ArrayLength \/ ArrayLoad \/ ArrayStore
    \/ GetStatic \/ PutStatic \/ GetField \/ PutField \/ New \/ CheckCast \/ InstanceOf
    \/ Call \/ PrintCall \/ Concat
    \/ If \/ Goto \/ Switch \/ Return \/ Fallthrough

LowerSpec == Init /\ [][Lower]_vars

-----------------------------------------------------------------------------
(* Properties. *)

\* While a block is lowered, its frame holds only values that are in scope in it.
FrameInScope ==
    phase = "lower" /\ pc # 0 =>
      \A v \in ToSet(stack) \cup {locals[s] : s \in DOMAIN locals} :
        \/ Head(order) # 1 /\ v.value \in {p.value : p \in ToSet(entries[Head(order)].params)}
        \/ v.value \in {instrs[k].def : k \in DOMAIN instrs} \ {None}

\* No block has an instruction after one that ends it.
Straight ==
    \A b \in Leaders(code) : \A i \in b .. End(code, b) - 2 : code[i].op \in Normal

\* Code without dead instructions in a block is never refused for its order.  In reverse
\* postorder a block comes after one of its predecessors, so its frame is known
\* (lower/bytecode.rs), and what the lowering builds is well-formed: the verifier only
\* ever objects to its types.
OnlyTypesRefused ==
    Straight => reason # "frame" /\ (reason = "verify" => WellFormed(Function))
=============================================================================
