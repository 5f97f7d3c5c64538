------------------------------ MODULE Bytecode ------------------------------
(***************************************************************************)
(* The bytecode that src/src/fvm_aot/lower reads, its types, and the plan  *)
(* of basic blocks that lower/bytecode.rs makes of it.                     *)
(*                                                                         *)
(* A method's code is a sequence of instructions.  An instruction's        *)
(* position stands for its bci, and a block is named by the position of    *)
(* its first instruction.                                                  *)
(***************************************************************************)
EXTENDS Naturals, Sequences, FiniteSets, SequencesExt

\* The numbers of a set in order: a BTreeMap's keys, or the defined locals.
Ascending(S) ==
    [k \in 1 .. Cardinality(S) |-> CHOOSE n \in S : Cardinality({m \in S : m < n}) = k - 1]

\* An IR type, or the JVM type of a descriptor, which may be wide or an array of arrays.
Scalar(name) == <<name>>
Object(class) == <<"object", class>>
Array(element) == <<"array">> \o element
Element(array) == Tail(array)

VoidType == Scalar("void")       IntType == Scalar("int")       BooleanType == Scalar("boolean")
CharType == Scalar("char")       ByteType == Scalar("byte")     ShortType == Scalar("short")
WideType == Scalar("long")       NullType == Object("null")     StringType == Object("java/lang/String")
Unsupported == Scalar("unsupported")

IsArray(type) == type[1] = "array"
IsReference(type) == type[1] \in {"object", "array"}
SubWord == {BooleanType, ByteType, CharType, ShortType}
IntLike == SubWord \cup {IntType}

\* ir_type_for_descriptor: a field's type.  Scalar byte and short widen to int.
FieldType(type) ==
    CASE type \in {ByteType, ShortType, IntType} -> IntType
      [] type \in {BooleanType, CharType} \/ type[1] = "object" -> type
      [] OTHER -> Unsupported

\* ir_type_for_jvm, with array_component_ir_type: a parameter's or a result's type.
IrType(type) ==
    CASE type = VoidType -> VoidType
      [] IsArray(type) ->
           IF IsArray(Element(type)) THEN Unsupported
           ELSE Array(IF Element(type) \in {ByteType, ShortType} THEN Element(type)
                      ELSE FieldType(Element(type)))
      [] OTHER -> FieldType(type)

-----------------------------------------------------------------------------
\* ControlFlow of an instruction: what decode_instruction finds.
Relations == {"eq", "ne", "lt", "ge", "gt", "le"}

BranchOperands ==
    [ifeq |-> <<"zero", "eq">>, ifne |-> <<"zero", "ne">>, iflt |-> <<"zero", "lt">>,
     ifge |-> <<"zero", "ge">>, ifgt |-> <<"zero", "gt">>, ifle |-> <<"zero", "le">>,
     if_icmpeq |-> <<"pair", "eq">>, if_icmpne |-> <<"pair", "ne">>, if_icmplt |-> <<"pair", "lt">>,
     if_icmpge |-> <<"pair", "ge">>, if_icmpgt |-> <<"pair", "gt">>, if_icmple |-> <<"pair", "le">>,
     if_acmpeq |-> <<"pair", "ref_eq">>, if_acmpne |-> <<"pair", "ref_ne">>,
     ifnull |-> <<"null", "is_null">>, ifnonnull |-> <<"null", "is_nonnull">>]

\* The instructions push_binary and push_checked_binary take, and push_unary.
Binary ==
    [iadd |-> "add", isub |-> "sub", imul |-> "mul", idiv |-> "div", irem |-> "rem",
     ishl |-> "shl", ishr |-> "shr", iushr |-> "ushr", iand |-> "and", ior |-> "or", ixor |-> "xor"]

Unary == [ineg |-> "neg", i2b |-> "int_to_byte", i2s |-> "int_to_short", i2c |-> "int_to_char"]

Conditional == DOMAIN BranchOperands
Returns == {"return", "xreturn"}
Normal == DOMAIN Binary \cup DOMAIN Unary \cup
    {"const", "load", "store", "iinc", "pop", "pop2", "dup", "dup_x1", "dup_x2", "dup2",
     "dup2_x1", "dup2_x2", "swap", "newarray", "arraylength", "iaload", "aaload", "saload",
     "iastore", "aastore", "sastore", "getstatic", "putstatic", "getfield", "putfield", "new",
     "checkcast", "instanceof", "invokestatic", "invokespecial", "print", "concat",
     "invokevirtual"}
Opcodes == Normal \cup Conditional \cup Returns \cup {"goto", "switch"}

-----------------------------------------------------------------------------
\* plan_blocks.  The targets of a switch are its default, then its cases.
Targets(code) == UNION {ToSet(code[i].to) : i \in DOMAIN code}
Follows(code) == {i + 1 : i \in {j \in DOMAIN code : code[j].op \in Conditional}}
Leaders(code) == {1} \cup Targets(code) \cup Follows(code)

\* A block ends before the next leader, or with the code.
End(code, b) ==
    CHOOSE e \in Leaders(code) \cup {Len(code) + 1} :
      e > b /\ \A d \in Leaders(code) : d > b => e <= d

\* block_successors: by the last instruction of the block, dead or not.
Successors(code, b) ==
    LET last == End(code, b) - 1 IN
    CASE code[last].op \in Returns -> <<>>
      [] code[last].op \in Conditional -> Append(code[last].to, last + 1)
      [] code[last].op \in {"goto", "switch"} -> code[last].to
      [] OTHER -> <<last + 1>>

\* Code no plan is made of: an opcode unknown, a target that is not an
\* instruction, or a way past the end of the code.
Planless(code) ==
    \/ code = <<>>
    \/ \E i \in DOMAIN code : code[i].op \notin Opcodes
    \/ \E b \in Targets(code) \cup Follows(code) : b \notin DOMAIN code
    \/ code[Len(code)].op \in Normal
=============================================================================
