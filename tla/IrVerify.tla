------------------------------- MODULE IrVerify -------------------------------
(***************************************************************************)
(* The SSA functions of src/src/fvm_aot/ir.rs and the verifier of          *)
(* ir_verify.rs, which every lowered function must pass.                   *)
(*                                                                         *)
(* An instruction defines at most one value, uses others, and carries the  *)
(* type of what it defines, or of the elements it touches; a terminator    *)
(* carries its edges.                                                      *)
(***************************************************************************)
EXTENDS Bytecode

None == 0           \* the value of an instruction that defines none

Ir(op, def, type, uses) ==
    [op |-> op, def |-> def, type |-> type, uses |-> uses, n |-> 0, ref |-> "",
     keys |-> <<>>, edges |-> <<>>]
Check(op, uses) == Ir(op, None, VoidType, uses)
Terminator(op, uses, edges) == [Check(op, uses) EXCEPT !.edges = edges]

IntCompare == Relations
RefCompare == {"ref_eq", "ref_ne", "is_null", "is_nonnull"}
ArithmeticOps == {Binary[o] : o \in DOMAIN Binary}
UnaryOps == {Unary[o] : o \in DOMAIN Unary}
Terminators == {"branch", "cond_branch", "switch", "xreturn", "return"}

\* return_compatible: what may flow where a type is expected.
Compatible(expected, actual) ==
    \/ expected = actual
    \/ expected \in SubWord /\ actual = IntType
    \/ IsReference(expected) /\ actual = NullType

\* verify_supported_type.
Supported(type) == Last(type) # "unsupported"

-----------------------------------------------------------------------------
\* The type an instruction's value has, as the verifier computes it.
ResultType(i) ==
    CASE i.op = "array_load" -> IF i.type \in IntLike THEN IntType ELSE i.type
      [] i.op = "new_array" -> Array(i.type)
      [] i.op \in IntCompare \cup RefCompare -> BooleanType
      [] OTHER -> i.type

\* What a block defines, where: its parameters, and the values of its instructions.  A param
\* instruction declares again a parameter of the function.
Defines(i) == i.def # None /\ i.op # "param"
Definition(b, place, value, type) == [block |-> b, place |-> place, value |-> value, type |-> type]
Declared(b, params) ==
    {Definition(b, <<"param", k>>, params[k].value, params[k].type) : k \in DOMAIN params}
Produced(b, instrs) ==
    {Definition(b, <<"instr", k>>, instrs[k].def, ResultType(instrs[k])) :
       k \in {j \in DOMAIN instrs : Defines(instrs[j])}}
Definitions(fn) ==
    Declared(None, fn.params) \cup
    UNION {Declared(b, fn.blocks[b].params) \cup Produced(b, fn.blocks[b].instrs) :
             b \in DOMAIN fn.blocks}

SingleAssignment(fn) == \A d, e \in Definitions(fn) : d.value = e.value => d = e

\* Values in scope before instruction k: the function's parameters, and what the
\* block has defined so far.
InScope(fn, block, k) ==
    {p.value : p \in ToSet(fn.params)} \cup {p.value : p \in ToSet(block.params)}
      \cup ({block.instrs[j].def : j \in 1 .. k - 1} \ {None})

UsesInScope(fn, block, k) ==
    LET i == block.instrs[k] IN
    (ToSet(i.uses) \cup UNION {ToSet(e.args) : e \in ToSet(i.edges)}) \subseteq InScope(fn, block, k)

\* verify_edge, the types aside.
EdgeFits(fn, edge) ==
    edge.block \in DOMAIN fn.blocks /\ Len(edge.args) = Len(fn.blocks[edge.block].params)

\* A terminator ends the block, and nothing before its end does.
Terminated(block) ==
    \A k \in DOMAIN block.instrs : block.instrs[k].op \in Terminators <=> k = Len(block.instrs)

\* Everything the verifier requires of values, edges and blocks but their types.
WellFormed(fn) ==
    /\ SingleAssignment(fn)
    /\ \A b \in DOMAIN fn.blocks :
         LET block == fn.blocks[b] IN
         /\ block.instrs # <<>> /\ Terminated(block)
         /\ \A k \in DOMAIN block.instrs :
              /\ UsesInScope(fn, block, k)
              /\ \A e \in ToSet(block.instrs[k].edges) : EdgeFits(fn, e)

-----------------------------------------------------------------------------
\* The operands, by position, that must be int-like, or references.
IntUses(op) ==
    CASE op \in ArithmeticOps \cup IntCompare \cup {"bounds_check"} -> {1, 2}
      [] op \in UnaryOps \cup {"switch", "new_array", "zero_check"} -> {1}
      [] op \in {"array_load", "array_store"} -> {2}
      [] OTHER -> {}
RefUses(op) ==
    CASE op \in {"ref_eq", "ref_ne"} -> {1, 2}
      [] op \in {"is_null", "is_nonnull"} -> {1}
      [] OTHER -> {}

\* verify_instr, verify_edge and verify_return, for what they require of types.
\* instance_of and check_cast have no arm there, and pass no verification.
WellTyped(fn) ==
    LET all == Definitions(fn)
        type == [v \in {d.value : d \in all} |-> (CHOOSE d \in all : d.value = v).type]
        fits(i) ==
          /\ i.op \notin {"instance_of", "check_cast"}
          /\ Supported(i.type)
          /\ \A k \in IntUses(i.op) : type[i.uses[k]] \in IntLike
          /\ \A k \in RefUses(i.op) : IsReference(type[i.uses[k]])
          /\ i.op = "return" => fn.returns = VoidType
          /\ i.op = "xreturn" => fn.returns # VoidType /\ Compatible(fn.returns, type[i.uses[1]])
          /\ \A e \in ToSet(i.edges) : \A k \in DOMAIN e.args :
               Compatible(fn.blocks[e.block].params[k].type, type[e.args[k]])
    IN /\ \A t \in {d.type : d \in all} \cup {fn.returns} : Supported(t)
       /\ \A b \in DOMAIN fn.blocks : \A k \in DOMAIN fn.blocks[b].instrs :
            fits(fn.blocks[b].instrs[k])

\* verify_function.
Verified(fn) == WellFormed(fn) /\ WellTyped(fn)
=============================================================================
