------------------------------ MODULE Evaluator ------------------------------
(***************************************************************************)
(* fvm_aot/evaluator.rs: `fvm build --backend fvm-aot` runs the program's  *)
(* main at build time, and fvm_aot/emitter.rs makes a binary that does     *)
(* again what the run did.  A build is refused wherever the evaluator      *)
(* finds something it does not know, and when a limit is reached.          *)
(*                                                                         *)
(* A value carries its kind, which a JVM's does not: a conversion at a     *)
(* field, a parameter, a result or an element changes it, or fails.        *)
(***************************************************************************)
EXTENDS JavaProgram

CONSTANTS
    MaxDepth,   \* 32 in the code: methods running at a time
    MaxSteps    \* 20 000: instructions of one method's run

ASSUME LimitsAssumption == MaxDepth \in Nat /\ MaxSteps \in Nat

VARIABLES
    begun,          \* main has been called
    frames,         \* class, method, pc, steps taken, locals and stack of each method running
    statics,        \* StaticFieldKey -> value, for the fields written so far
    heap,           \* objects and arrays, which share their numbers
    initialized, initializing,  \* classes
    printlns,       \* what the program printed
    http_server,    \* the port and the body to be served, or none
    verdict,        \* "running", "compiled" or "refused"
    reason,         \* why it was refused: "limit", "value" or ""
    binary          \* what the binary prints, and what it serves
memory == <<statics, heap, initialized, initializing, printlns, http_server>>
vars == <<program, begun, frames, memory, verdict, reason, binary>>

Number(n) == <<"int", n>>
Bool(b) == <<"bool", b>>
Char(c) == <<"char", c>>
String(text) == <<"string", text>>
ObjectRef(id) == <<"object", id>>
ArrayRef(id) == <<"array", id>>
SystemOut == <<"out", 0>>
Null == <<"null", 0>>
Bad == <<"bad", 0>>     \* a conversion that failed

Kind(v) == v[1]
Put(f, x, v) == [y \in DOMAIN f \cup {x} |-> IF y = x THEN v ELSE f[y]]
References == {"string", "object", "array", "null"}

-----------------------------------------------------------------------------
(* Conversions. *)

\* int_value, bool_value, char_value with char_from_i32, which knows no surrogate.
IntOf(v) ==
    CASE Kind(v) = "bool" -> Number(IF v[2] THEN 1 ELSE 0)
      [] Kind(v) = "char" -> Number(v[2])
      [] Kind(v) = "int" -> v
      [] OTHER -> Bad
BoolOf(v) == IF Kind(v) = "int" THEN Bool(v[2] # 0) ELSE IF Kind(v) = "bool" THEN v ELSE Bad
CharFrom(n) == IF n \in (0 .. 2 ^ ShortBits - 1) \ Surrogates THEN Char(n) ELSE Bad
CharOf(v) == IF Kind(v) = "int" THEN CharFrom(v[2]) ELSE IF Kind(v) = "char" THEN v ELSE Bad

\* pop_typed_value: a parameter or a result.  JvmType has one type for byte, short and int.
Typed(type, v) ==
    CASE type \in {IntType, ByteType, ShortType} -> IntOf(v)
      [] type = BooleanType -> BoolOf(v)
      [] type = CharType -> CharOf(v)
      [] type = StringType -> IF Kind(v) \in {"string", "null"} THEN v ELSE Bad
      [] IsArray(type) -> IF Kind(v) \in {"array", "null"} THEN v ELSE Bad
      [] OTHER -> IF Kind(v) \in References THEN v ELSE Bad

\* The types of the fields a String may be kept in.
StringFields == {StringType, Object(ObjectClass), Object(CharSequence)}

\* Mutant of ForField: a byte or a short is kept as the int it came as.
ForFieldWide(type, v) == Typed(type, v)

\* pop_field_value, and the references it lets pass.
Accepts(type, v) ==
    \/ Kind(v) = "null"
    \/ Kind(v) = "string" /\ type \in StringFields
    \/ Kind(v) = "array" /\ (IsArray(type) \/ type = Object(ObjectClass))
    \/ Kind(v) = "object" /\ ~IsArray(type)
ForField(type, v) ==
    CASE type \in {ByteType, ShortType} ->
           IF IntOf(v) = Bad THEN Bad ELSE Number(Narrow(type, IntOf(v)[2]))
      [] type \in {IntType, BooleanType, CharType} -> Typed(type, v)
      [] OTHER -> IF Accepts(type, v) THEN v ELSE Bad

\* ensure_reference_value_for_descriptor: an object must be of the very class named.
Fits(type, v) ==
    CASE type \in {IntType, ByteType, ShortType} -> Kind(v) = "int"
      [] type = BooleanType -> Kind(v) = "bool" \/ v \in {Number(0), Number(1)}
      [] type = CharType -> Kind(v) = "char" \/ (Kind(v) = "int" /\ v[2] \in CodePoints)
      [] type = Object(ObjectClass) -> Kind(v) \in References
      [] type \in StringFields -> Kind(v) \in {"string", "null"}
      [] IsArray(type) -> \/ Kind(v) = "null"
                          \/ Kind(v) = "array" /\ heap[v[2]].type = Element(type)
      [] OTHER -> \/ Kind(v) = "null"
                  \/ Kind(v) = "object" /\ type = Object(heap[v[2]].class)

\* default_field_value.
DefaultValue(type) ==
    CASE type = BooleanType -> Bool(FALSE)
      [] type = CharType -> Char(0)
      [] type \in {IntType, ByteType, ShortType} -> Number(0)
      [] OTHER -> Null

\* Mutant of OpcodeMatches: an array of booleans is not taken for one of bytes.
OpcodeMatchesExactly(opcode, component) == component = opcode

\* array_value_from_int, and the opcodes that may be used on an array of this component.
FromInt(type, n) ==
    CASE type = BooleanType -> Bool(n # 0)
      [] type = CharType -> CharFrom(Narrow(CharType, n))
      [] OTHER -> Number(Narrow(type, n))
OpcodeMatches(opcode, component) ==
    component = opcode \/ (opcode = ByteType /\ component = BooleanType)

\* value_to_string_bytes; println pops an int, a String, or converts to the type it is given.
Bytes(v) ==
    CASE Kind(v) = "int" -> Decimal(v[2])
      [] Kind(v) = "bool" -> IF v[2] THEN TrueWord ELSE FalseWord
      [] Kind(v) = "char" -> <<v[2]>>
      [] Kind(v) = "null" -> NullWord
      [] OTHER -> v[2]

-----------------------------------------------------------------------------
(* Strings, whose positions are those of Java's units. *)

UnitsBefore(text, k) == Len(Units(SubSeq(text, 1, k)))

\* Mutant of Boundaries: positions are counted in characters.
BoundariesInCharacters(text, target) == {target} \cap 0 .. Len(text)

\* java_utf16_boundary_to_byte_index: the characters before a boundary, if one is there.
Boundaries(text, target) == {k \in 0 .. Len(text) : UnitsBefore(text, k) = target}

\* java_string_char_at.
CharAt(text, index) ==
    LET at == {k \in Boundaries(text, index) : k < Len(text)}
    IN IF \E k \in at : CharWidth(text[k + 1]) = 1 THEN Char(text[(CHOOSE k \in at : TRUE) + 1])
       ELSE Bad

\* java_string_substring.
Substring(text, from, to) ==
    IF 0 <= from /\ from <= to /\ Boundaries(text, from) # {} /\ Boundaries(text, to) # {}
    THEN String(SubSeq(text, (CHOOSE k \in Boundaries(text, from) : TRUE) + 1,
                             CHOOSE k \in Boundaries(text, to) : TRUE))
    ELSE Bad

\* java_string_hash_code.
HashCode(text) ==
    LET units == Units(text)
        hash[k \in 0 .. Len(units)] == IF k = 0 THEN 0 ELSE Wrap(hash[k - 1] * 31 + units[k])
    IN hash[Len(units)]
Windows(text, n) == {SubSeq(text, k + 1, k + n) : k \in 0 .. Len(text) - n}

\* ref_equals: strings by their content.
RefEquals(a, b) == Kind(a) \in References /\ a = b

StringVirtual(name, text, args) ==
    LET Int1(k) == IntOf(args[k])[2]
        string == IF args # <<>> /\ Kind(args[1]) = "string" THEN args[1][2] ELSE <<>>
    IN IF name \in {"startsWith", "endsWith", "contains"} /\ Kind(args[1]) # "string" THEN Bad ELSE
       CASE name = "length" -> Number(UnitsBefore(text, Len(text)))
         [] name = "isEmpty" -> Bool(text = <<>>)
         [] name = "charAt" -> CharAt(text, Int1(1))
         [] name = "equals" -> Bool(args[1] = String(text))
         [] name = "hashCode" -> Number(HashCode(text))
         [] name = "toString" -> String(text)
         [] name = "startsWith" -> Bool(IsPrefix(string, text))
         [] name = "endsWith" -> Bool(IsSuffix(string, text))
         [] name = "contains" -> Bool(string = <<>> \/ string \in Windows(text, Len(string)))
         [] name = "substring" ->
              Substring(text, Int1(1), IF Len(args) = 1 THEN UnitsBefore(text, Len(text)) ELSE Int1(2))
         [] OTHER -> Bad

\* eval_object_virtual, and eval_array_virtual but for clone.
ObjectVirtual(name, v, args) ==
    IF Kind(v) = "null" THEN Bad ELSE
    CASE name = "equals" -> Bool(RefEquals(v, args[1]))
      [] name = "hashCode" /\ Kind(v) \in {"object", "array"} -> Number(v[2])
      [] name = "toString" /\ Kind(v) \in {"object", "array"} -> String(Identified(v[2]))
      [] OTHER -> Bad

-----------------------------------------------------------------------------
(* Steps. *)

Entry(class, name, args) ==
    [class |-> class, method |-> name, pc |-> 1, steps |-> 0, stack |-> <<>>,
     locals |-> [s \in 0 .. Len(args) - 1 |-> args[s + 1]]]
Top == Last(frames)

\* Beyond the code's end there is no instruction: "ended without return".
Code == MethodOf(Top.class, Top.method).code
J == IF Top.pc \in DOMAIN Code THEN Code[Top.pc] ELSE [op |-> "end"]

\* pop_value, which fails on an empty stack, and load_local, on a local never stored.
Arg(k) == IF k <= Len(Top.stack) THEN Top.stack[Len(Top.stack) + 1 - k] ELSE Bad
Local(n) == IF n \in DOMAIN Top.locals THEN Top.locals[n] ELSE Bad
Popped(k) == SubSeq(Top.stack, 1, Len(Top.stack) - k)
WithTop(frame) == [frames EXCEPT ![Len(frames)] = frame]

Refuse(why) ==
    /\ verdict' = "refused" /\ reason' = why
    /\ UNCHANGED <<program, begun, frames, memory, binary>>

\* Mutant of Counted: a branch is not counted.
CountedForward(frame) == [frame EXCEPT !.steps = IF J.op = "goto" THEN @ ELSE @ + 1]

\* One more step of the method.
Counted(frame) == [frame EXCEPT !.steps = @ + 1]

\* k values are popped, others pushed, and the next instruction follows, unless one of
\* them could not be made.
Go(k, pushed) ==
    frames' = WithTop(Counted([Top EXCEPT !.pc = @ + 1, !.stack = Popped(k) \o pushed]))
Steady == UNCHANGED <<program, begun, verdict, reason, binary>>
Gives(k, v) ==
    IF v = Bad THEN Refuse("value") ELSE Go(k, <<v>>) /\ Steady /\ UNCHANGED memory

\* ensure_class_initialized is called for main's class, and before these instructions.
\* A class being initialized is taken for initialized.
Needed ==
    IF frames = <<>> THEN IF begun THEN "" ELSE Main
    ELSE IF J.op \in {"new", "getstatic", "invokestatic"} /\ Own(J.class) /\ ~IsRespond(J)
         THEN J.class ELSE ""
Pending == Needed # "" /\ Needed \notin initialized \cup initializing

\* The instruction is executed; the step limit is not reached.
At(ops) ==
    /\ verdict = "running" /\ frames # <<>>
    /\ J.op \in ops /\ Top.steps < MaxSteps /\ ~Pending

EnsureClassInitialized ==
    /\ verdict = "running" /\ (frames # <<>> => Top.steps < MaxSteps) /\ Pending
    /\ IF ~Has(Needed, "<clinit>")
       THEN initialized' = initialized \cup {Needed} /\ UNCHANGED <<frames, initializing, verdict, reason>>
       ELSE IF Len(frames) >= MaxDepth
       THEN /\ verdict' = "refused" /\ reason' = "limit"
            /\ UNCHANGED <<frames, initialized, initializing>>
       ELSE /\ initializing' = initializing \cup {Needed}
            /\ frames' = Append(frames, Entry(Needed, "<clinit>", <<>>))
            /\ UNCHANGED <<initialized, verdict, reason>>
    /\ UNCHANGED <<program, begun, statics, heap, printlns, http_server, binary>>

\* compile_main: main is called with null for its arguments.
CompileMain ==
    /\ verdict = "running" /\ frames = <<>> /\ ~begun /\ ~Pending
    /\ IF MaxDepth = 0 THEN Refuse("limit")
       ELSE /\ begun' = TRUE
            /\ frames' = <<Entry(Main, "main", <<Null>>)>>
            /\ UNCHANGED <<program, memory, verdict, reason, binary>>

\* eval_method, called with the top frame's next k values popped.
EvalMethod(class, name, args, k) ==
    IF Bad \in ToSet(args) \/ ~Own(class) THEN Refuse("value")
    ELSE IF ~Has(class, name) THEN Refuse("value")
    ELSE IF Len(frames) >= MaxDepth THEN Refuse("limit")
    ELSE /\ frames' = Append(WithTop([Top EXCEPT !.stack = Popped(k)]), Entry(class, name, args))
         /\ Steady /\ UNCHANGED memory

ExceedSteps ==
    /\ verdict = "running" /\ frames # <<>> /\ Top.steps >= MaxSteps
    /\ Refuse("limit")

-----------------------------------------------------------------------------
(* Instructions: the locals and the stack. *)

\* store_local.
StoreLocal(k, v) ==
    IF v = Bad THEN Refuse("value")
    ELSE /\ frames' = WithTop(Counted([Top EXCEPT !.pc = @ + 1, !.stack = Popped(k),
                                                  !.locals = Put(@, J.n, v)]))
         /\ Steady /\ UNCHANGED memory

EvalLocals ==
    \/ At({"nop"}) /\ Go(0, <<>>) /\ Steady /\ UNCHANGED memory
    \/ /\ At({"const"})
       /\ Gives(0, CASE J.type = IntType -> Number(J.n)
                     [] J.type = NullType -> Null
                     [] OTHER -> String(J.text))
    \/ /\ At({"load"})
       /\ Gives(0, Local(J.n))
    \/ /\ At({"store"})
       /\ StoreLocal(1, Arg(1))
    \/ /\ At({"iinc"})
       /\ LET int == IntOf(Local(J.n)) IN
          StoreLocal(0, IF int = Bad THEN Bad ELSE Number(Wrap(int[2] + J.by)))
    \/ /\ At({"pop"})
       /\ IF Arg(1) = Bad THEN Refuse("value") ELSE Go(1, <<>>) /\ Steady /\ UNCHANGED memory
    \/ At({"dup"}) /\ Gives(0, Arg(1))

\* pop_int, k times.
Ints(k) == \A i \in 1 .. k : IntOf(Arg(i)) # Bad

\* push_div_int and push_rem_int.
DivInt(a, b) == IF b = 0 THEN Bad ELSE Number(Wrap(Quotient(a, b)))
RemInt(a, b) == IF b = 0 THEN Bad ELSE Number(IF b = -1 THEN 0 ELSE a - b * Quotient(a, b))

EvalArithmetic ==
    \/ /\ At({"iadd", "isub", "imul", "idiv", "irem"})
       /\ LET b == IntOf(Arg(1))[2]  a == IntOf(Arg(2))[2] IN
          Gives(2, IF ~Ints(2) THEN Bad ELSE
                   CASE J.op = "iadd" -> Number(Wrap(a + b))
                     [] J.op = "isub" -> Number(Wrap(a - b))
                     [] J.op = "imul" -> Number(Wrap(a * b))
                     [] J.op = "idiv" -> DivInt(a, b)
                     [] J.op = "irem" -> RemInt(a, b))
    \/ /\ At(DOMAIN Unary)
       /\ LET a == IntOf(Arg(1))[2] IN
          Gives(1, IF ~Ints(1) THEN Bad ELSE
                   Number(CASE J.op = "ineg" -> Wrap(-a)
                            [] J.op = "i2b" -> Narrow(ByteType, a)
                            [] J.op = "i2s" -> Narrow(ShortType, a)
                            [] J.op = "i2c" -> Narrow(CharType, a)))

EvalBranch ==
    /\ At({"goto"} \cup Conditional)
    /\ LET test == IF J.op = "goto" THEN <<"always", "">> ELSE BranchOperands[J.op]
           takes == CASE test[1] = "always" -> TRUE
                      [] test[1] = "zero" -> Related(test[2], IntOf(Arg(1))[2], 0)
                      [] test[1] = "pair" /\ test[2] \in Relations ->
                           Related(test[2], IntOf(Arg(2))[2], IntOf(Arg(1))[2])
                      [] test[2] = "ref_eq" -> RefEquals(Arg(2), Arg(1))
                      [] test[2] = "ref_ne" -> ~RefEquals(Arg(2), Arg(1))
                      [] test[2] \in {"is_null", "is_nonnull"} -> (Arg(1) = Null) = (test[2] = "is_null")
           k == CASE test[1] = "always" -> 0 [] test[1] = "pair" -> 2 [] OTHER -> 1
       IN IF Len(Top.stack) < k \/ (test[2] \in Relations /\ ~Ints(k)) THEN Refuse("value")
          ELSE /\ frames' = WithTop(Counted([Top EXCEPT !.pc = IF takes THEN J.to[1] ELSE @ + 1,
                                                        !.stack = Popped(k)]))
               /\ Steady /\ UNCHANGED memory

-----------------------------------------------------------------------------
(* Fields, objects and arrays. *)

\* supported_field_descriptor: no field is an array of arrays.
Supported(type) == type \in IntLike \/ type[1] = "object" \/ (IsArray(type) /\ ~IsArray(Element(type)))

\* ClassFile::static_field: a field of the very class named.
StaticIsOwn == Own(J.class) /\ J.name \in FieldsOf(J.class, TRUE) /\ Supported(J.type)

EvalGetstatic ==
    /\ At({"getstatic"})
    /\ Gives(0, IF IsSystemOut(J) THEN SystemOut
                ELSE IF ~StaticIsOwn THEN Bad
                ELSE IF <<J.class, J.name>> \in DOMAIN statics THEN statics[<<J.class, J.name>>]
                ELSE DefaultValue(J.type))

\* The class of the field is not initialized first.
EvalPutstatic ==
    /\ At({"putstatic"})
    /\ LET value == ForField(J.type, Arg(1)) IN
       IF ~StaticIsOwn \/ value = Bad \/ ~Fits(J.type, value) THEN Refuse("value")
       ELSE /\ statics' = Put(statics, <<J.class, J.name>>, value)
            /\ Go(1, <<>>)
            /\ Steady /\ UNCHANGED <<heap, initialized, initializing, printlns, http_server>>

\* A reference is made: what it refers to takes the next number.
Allocate(k, ref, made) ==
    /\ heap' = Append(heap, made)
    /\ Go(k, <<ref>>)
    /\ Steady /\ UNCHANGED <<statics, initialized, initializing, printlns, http_server>>
NextRef == Len(heap) + 1
NoCells == [f \in {} |-> Null]

EvalNew ==
    /\ At({"new"})
    /\ IF ~Own(J.class) THEN Refuse("value")
       ELSE Allocate(0, ObjectRef(NextRef), [class |-> J.class, type |-> VoidType, cells |-> NoCells])

\* A field is one of the object's own class.
FieldIsOwn(object) ==
    /\ Kind(object) = "object" /\ heap[object[2]].class = J.class
    /\ J.name \in FieldsOf(J.class, FALSE) /\ Supported(J.type)

\* A field never written reads as the default of its type.
EvalGetfield ==
    /\ At({"getfield"})
    /\ Gives(1, IF ~FieldIsOwn(Arg(1)) THEN Bad
                ELSE LET cells == heap[Arg(1)[2]].cells IN
                     IF J.name \in DOMAIN cells THEN cells[J.name] ELSE DefaultValue(J.type))

Write(id, cell, value, k) ==
    /\ heap' = [heap EXCEPT ![id].cells = Put(@, cell, value)]
    /\ Go(k, <<>>)
    /\ Steady /\ UNCHANGED <<statics, initialized, initializing, printlns, http_server>>

EvalPutfield ==
    /\ At({"putfield"})
    /\ LET value == ForField(J.type, Arg(1)) IN
       IF value = Bad \/ ~Fits(J.type, value) \/ ~FieldIsOwn(Arg(2)) THEN Refuse("value")
       ELSE Write(Arg(2)[2], J.name, value, 2)

\* eval_newarray and eval_anewarray.
EvalNewarray ==
    /\ At({"newarray"})
    /\ LET known == J.type \in IntLike \cup {StringType} \/ (J.type[1] = "object" /\ Own(J.type[2])) IN
       IF ~Ints(1) \/ IntOf(Arg(1))[2] < 0 \/ ~known THEN Refuse("value")
       ELSE Allocate(1, ArrayRef(NextRef),
              [class |-> ArrayClass, type |-> J.type,
               cells |-> [k \in 0 .. IntOf(Arg(1))[2] - 1 |-> DefaultValue(J.type)]])

\* pop_array and pop_array_index; the opcode must suit the array's component.
ElementAt(array, index) ==
    /\ Kind(array) = "array" /\ index # Bad /\ index[2] \in DOMAIN heap[array[2]].cells
    /\ J.op \in {"xaload", "xastore"} => OpcodeMatches(J.type, heap[array[2]].type)
    /\ J.op \in {"aaload", "aastore"} => heap[array[2]].type # IntType

EvalArrayLoad ==
    /\ At({"xaload", "aaload"})
    /\ LET array == Arg(2)  index == IntOf(Arg(1)) IN
       Gives(2, IF ~ElementAt(array, index) THEN Bad
                ELSE LET value == heap[array[2]].cells[index[2]] IN
                     IF J.op = "aaload" THEN value ELSE Typed(heap[array[2]].type, value))

EvalArrayStore ==
    /\ At({"xastore", "aastore"})
    /\ LET array == Arg(3)  index == IntOf(Arg(2)) IN
       IF ~ElementAt(array, index) THEN Refuse("value")
       ELSE LET type == heap[array[2]].type
                value == IF J.op = "aastore" THEN Arg(1) ELSE IF ~Ints(1) THEN Bad
                         ELSE FromInt(type, IntOf(Arg(1))[2])
            IN IF value = Bad \/ ~Fits(type, value) THEN Refuse("value")
               ELSE Write(array[2], index[2], value, 3)

EvalArraylength ==
    /\ At({"arraylength"})
    /\ Gives(1, IF Kind(Arg(1)) # "array" THEN Bad
                ELSE Number(Cardinality(DOMAIN heap[Arg(1)[2]].cells)))

\* reference_matches_class: the very class, or Object.
EvalCheckcast ==
    /\ At({"checkcast"})
    /\ LET matches == /\ Fits(J.type, Arg(1))
                      /\ Kind(Arg(1)) = "string" => J.type # Object(CharSequence)
       IN IF matches THEN Go(0, <<>>) /\ Steady /\ UNCHANGED memory ELSE Refuse("value")

-----------------------------------------------------------------------------
(* Calls. *)

Params == J.sig.params
Given == [k \in DOMAIN Params |-> Typed(Params[k], Arg(Len(Params) + 1 - k))]
Receiver == Arg(Len(Params) + 1)

IsPrintln == J.class = Printer /\ J.name = "println"
EvalPrintln ==
    /\ At({"invokevirtual"}) /\ IsPrintln
    /\ LET v == CASE Params = <<StringType>> -> IF Kind(Arg(1)) = "string" THEN Arg(1) ELSE Bad
                  [] Params = <<IntType>> -> IntOf(Arg(1))
                  [] Params \in {<<BooleanType>>, <<CharType>>} -> Typed(Params[1], Arg(1))
                  [] OTHER -> Bad
       IN IF v = Bad \/ Arg(2) # SystemOut THEN Refuse("value")
          ELSE /\ printlns' = Append(printlns, Bytes(v))
               /\ Go(2, <<>>)
               /\ Steady /\ UNCHANGED <<statics, heap, initialized, initializing, http_server>>

\* eval_core_virtual: whose methods are not looked for in the receiver's class.
IsCore ==
    \/ Kind(Receiver) = "string" /\ J.class \in {StringClass, ObjectClass}
    \/ Kind(Receiver) = "array" /\ J.class \in {ObjectClass, ArrayClass}
    \/ J.class = ObjectClass

EvalCoreVirtual ==
    /\ At({"invokevirtual"}) /\ ~IsPrintln /\ IsCore
    /\ LET k == Len(Params) + 1 IN
       IF Bad \in ToSet(Given) THEN Refuse("value")
       ELSE IF Kind(Receiver) = "string"
            THEN Gives(k, StringVirtual(J.name, Receiver[2], Given))
       ELSE IF Kind(Receiver) = "array" /\ J.name = "clone"
            THEN Allocate(k, ArrayRef(NextRef), heap[Receiver[2]])
       ELSE Gives(k, ObjectVirtual(J.name, Receiver, Given))

\* eval_invokevirtual and eval_invokeinterface, on the class of the object itself.
EvalInvokeVirtual ==
    /\ \/ At({"invokevirtual"}) /\ ~IsPrintln /\ ~IsCore
       \/ At({"invokeinterface"})
    /\ IF Kind(Receiver) # "object" THEN Refuse("value")
       ELSE EvalMethod(heap[Receiver[2]].class, J.name, <<Receiver>> \o Given, Len(Params) + 1)

\* The constructor of Object does nothing; another is the object's own class's.
EvalInvokespecial ==
    /\ At({"invokespecial"})
    /\ IF Kind(Receiver) # "object" \/ Bad \in ToSet(Given) THEN Refuse("value")
       ELSE IF J.class = ObjectClass /\ J.name = "<init>"
            THEN Go(1, <<>>) /\ Steady /\ UNCHANGED memory
       ELSE IF J.class # heap[Receiver[2]].class THEN Refuse("value")
       ELSE EvalMethod(J.class, J.name, <<Receiver>> \o Given, Len(Params) + 1)

EvalInvokestatic ==
    /\ At({"invokestatic"}) /\ ~IsRespond(J)
    /\ EvalMethod(J.class, J.name, Given, Len(Params))

\* Http.respond: one server, whose port is that of an application.
EvalRespond ==
    /\ At({"invokestatic"}) /\ IsRespond(J)
    /\ LET port == IntOf(Arg(2))[2] IN
       IF Kind(Arg(1)) # "string" \/ port \notin 1 .. 2 ^ ShortBits - 1 \/ http_server # <<>>
       THEN Refuse("value")
       ELSE /\ http_server' = <<port, Arg(1)[2]>>
            /\ Go(2, <<>>)
            /\ Steady /\ UNCHANGED <<statics, heap, initialized, initializing, printlns>>

\* eval_concat_recipe: a part is a text, or the next of the arguments, all of which it takes.
ArgsBefore(parts, k) == Cardinality({i \in 1 .. k : parts[i][1] = "arg"})
Joined(args, parts) ==
    FlattenSeq([k \in DOMAIN parts |-> IF parts[k][1] = "arg" THEN Bytes(args[ArgsBefore(parts, k)])
                                       ELSE parts[k][2]])

EvalInvokedynamic ==
    /\ At({"concat"})
    /\ Gives(Len(Params),
             IF \/ \E v \in ToSet(Given) : Kind(v) \in {"bad", "object", "array"}
                \/ ArgsBefore(J.parts, Len(J.parts)) # Len(Params)
             THEN Bad
             ELSE String(Joined(Given, J.parts)))

\* Mutant of Finished: the class is left among those being initialized.
StillRunning(class) == initializing

\* The classes that are still being initialized when the initializer of this one is done.
Finished(class) == initializing \ {class}

\* push_method_result converts the result for the caller; <clinit> has none.
EvalReturn ==
    /\ At(Returns)
    /\ LET rest == Front(frames)
           caller == Last(rest)
           returns == MethodOf(Top.class, Top.method).returns
           result == IF J.op = "return" THEN <<>>
                     ELSE <<Typed(returns, IF returns \in IntLike THEN IntOf(Arg(1)) ELSE Arg(1))>>
       IN IF Bad \in ToSet(result) THEN Refuse("value")
          ELSE /\ IF Top.method = "<clinit>"
                  THEN /\ frames' = rest
                       /\ initialized' = initialized \cup {Top.class}
                       /\ initializing' = Finished(Top.class)
                  ELSE /\ frames' = IF rest = <<>> THEN rest
                                    ELSE Append(Front(rest), Counted([caller EXCEPT !.pc = @ + 1, !.stack = @ \o result]))
                       /\ UNCHANGED <<initialized, initializing>>
               /\ Steady /\ UNCHANGED <<statics, heap, printlns, http_server>>

Known == {"nop", "const", "load", "store", "iinc", "pop", "dup", "iadd", "isub", "imul", "idiv", "irem", "goto",
          "getstatic", "putstatic", "new", "getfield", "putfield", "newarray", "xaload", "aaload",
          "xastore", "aastore", "arraylength", "checkcast", "invokevirtual", "invokeinterface",
          "invokespecial", "invokestatic", "concat"} \cup DOMAIN Unary \cup Conditional \cup Returns

\* An opcode that is not known, athrow among them.
UnknownOpcode == At({J.op} \ Known) /\ Refuse("opcode")

\* Mutant of Emitted: the lines are written with the last one missing.
EmittedShort == [prints |-> IF http_server # <<>> \/ printlns = <<>> THEN <<>> ELSE Front(printlns),
                 serves |-> http_server]

\* emit_c: a server, or else the lines that were printed.
Emitted == [prints |-> IF http_server # <<>> THEN <<>> ELSE printlns, serves |-> http_server]

EmitC ==
    /\ verdict = "running" /\ begun /\ frames = <<>>
    /\ verdict' = "compiled" /\ binary' = Emitted
    /\ UNCHANGED <<program, begun, frames, memory, reason>>

Rest == verdict # "running" /\ UNCHANGED vars

-----------------------------------------------------------------------------
(* ConstantValue attributes: initial_static_values. *)

ConstantValue(field) ==
    CASE field.type = StringType -> String(field.const[1])
      [] field.type = BooleanType -> Bool(field.const[1][1] # 0)
      [] field.type = CharType -> CharFrom(field.const[1][1])
      [] OTHER -> Number(Narrow(field.type, field.const[1][1]))
StaticFields == UNION {{c} \X FieldsOf(c, TRUE) : c \in DOMAIN Classes}
Field(x) == Classes[x[1]].fields[x[2]]

Init ==
    /\ \E family \in DOMAIN Programs : \E x \in DOMAIN Programs[family] :
         program = Programs[family][x]
    /\ begun = FALSE /\ frames = <<>> /\ heap = <<>> /\ printlns = <<>> /\ http_server = <<>>
    /\ statics = [x \in {y \in StaticFields : Field(y).const # <<>>} |-> ConstantValue(Field(x))]
    /\ initialized = {} /\ initializing = {}
    /\ verdict = "running" /\ reason = "" /\ binary = [prints |-> <<>>, serves |-> <<>>]

Next ==
    \/ EnsureClassInitialized \/ CompileMain \/ ExceedSteps \/ UnknownOpcode \/ EmitC \/ Rest
    \/ EvalLocals \/ EvalArithmetic \/ EvalBranch \/ EvalReturn
    \/ EvalGetstatic \/ EvalPutstatic \/ EvalNew \/ EvalGetfield \/ EvalPutfield
    \/ EvalNewarray \/ EvalArrayLoad \/ EvalArrayStore \/ EvalArraylength \/ EvalCheckcast
    \/ EvalPrintln \/ EvalCoreVirtual \/ EvalInvokeVirtual \/ EvalInvokespecial
    \/ EvalInvokestatic \/ EvalRespond \/ EvalInvokedynamic

\* The evaluator is one loop in one thread: it goes on as long as the build does.
Spec == Init /\ [][Next]_vars /\ WF_vars(Next)

-----------------------------------------------------------------------------
(* Properties. *)

\* What a JVM's verifier sees to before a program runs, and the evaluator does not: the array
\* of an aastore is one of references.
StoresVerified ==
    frames # <<>> /\ J.op = "aastore" /\ Kind(Arg(3)) = "array" => heap[Arg(3)[2]].type \notin IntLike

TypeOK ==
    /\ StoresVerified
    /\ verdict \in {"running", "compiled", "refused"}
    /\ reason \in IF verdict = "refused" THEN {"limit", "value", "opcode"} ELSE {""}
    /\ initialized \cup initializing \subseteq DOMAIN Classes
    /\ initialized \cap initializing = {}
    /\ Len(frames) <= MaxDepth
    /\ \A k \in DOMAIN frames : frames[k].steps <= MaxSteps /\ Bad \notin ToSet(frames[k].stack)

\* Every static, field and element holds a value of its declared type: what the kinds of
\* values are for, since a value is shown and compared by its kind alone.
Holds(type, v) ==
    CASE type = BooleanType -> Kind(v) = "bool"
      [] type = CharType -> Kind(v) = "char" /\ v[2] \notin Surrogates
      [] type \in {IntType, ByteType, ShortType} -> Kind(v) = "int" /\ v[2] = Narrow(type, v[2])
      [] OTHER -> Fits(type, v)
MemoryTyped ==
    /\ TypeOK
    /\ \A x \in DOMAIN statics : Holds(Field(x).type, statics[x])
    /\ \A a \in DOMAIN heap : \A c \in DOMAIN heap[a].cells :
         Holds(IF Own(heap[a].class) THEN Classes[heap[a].class].fields[c].type ELSE heap[a].type,
               heap[a].cells[c])

\* What a value is in the JVM, where a boolean and a char are ints and a string is units.
Erased(v) ==
    CASE Kind(v) = "bool" -> IntOf(v)
      [] Kind(v) = "char" -> IntOf(v)
      [] Kind(v) = "string" -> String(Units(v[2]))
      [] Kind(v) \in {"object", "array"} -> <<"ref", v[2]>>
      [] OTHER -> v
Unwritten(type) == Erased(DefaultValue(type))

\* The cells of an object in the JVM: its fields are those of its superclasses as well.
Cells(object) ==
    IF Own(object.class)
    THEN [x \in UNION {{c} \X FieldsOf(c, FALSE) : c \in ToSet(Lineage(object.class))} |->
            IF x[1] = object.class /\ x[2] \in DOMAIN object.cells THEN Erased(object.cells[x[2]])
            ELSE Unwritten(Field(x).type)]
    ELSE [k \in DOMAIN object.cells |-> Erased(object.cells[k])]

\* A class without an initializer is done as soon as one is that it is initialized with.
InitOf(c) ==
    CASE c \in initialized -> "done"
      [] c \in initializing -> "running"
      [] OTHER -> IF ~Has(c, "<clinit>") /\ \E d \in initialized \cup initializing :
                                               c \in ToSet(InitializedWith(d))
                  THEN "done" ELSE "no"

Java == INSTANCE JavaMachine WITH
    frames <- [k \in DOMAIN frames |->
                 [class |-> frames[k].class, method |-> frames[k].method, pc |-> frames[k].pc,
                  locals |-> [s \in DOMAIN frames[k].locals |-> Erased(frames[k].locals[s])],
                  stack |-> [j \in DOMAIN frames[k].stack |-> Erased(frames[k].stack[j])]]],
    statics <- [x \in StaticFields |-> IF x \in DOMAIN statics THEN Erased(statics[x])
                                       ELSE Unwritten(Field(x).type)],
    heap <- [a \in DOMAIN heap |-> [heap[a] EXCEPT !.cells = Cells(heap[a])]],
    init <- [c \in DOMAIN Classes |-> InitOf(c)],
    out <- [k \in DOMAIN printlns |-> Units(printlns[k])],
    server <- IF http_server = <<>> THEN <<>> ELSE <<http_server[1], Units(http_server[2])>>

\* What the evaluator does and Java does not.
\* A field of another class is written before that class is initialized.
WritesUninitialized == EvalPutstatic /\ Java!Uninitialized # <<>>
\* A class is initialized without one whose initializer Java runs first, or in the place of the
\* one that declares the member.
InitializesAlone ==
    /\ EnsureClassInitialized
    /\ \/ Needed # Java!Needed
       \/ \E c \in ToSet(InitializedWith(Needed)) \ {Needed} : Has(c, "<clinit>") /\ InitOf(c) = "no"
\* A method of Object is answered for an object whose class overrides it.
MissesOverride == EvalCoreVirtual /\ Kind(Receiver) = "object" /\ Java!Target # ""
\* System.out is not the same as itself.
TakesOutForAnother == EvalBranch /\ Arg(1) = SystemOut /\ Arg(2) = SystemOut
Departs == WritesUninitialized \/ InitializesAlone \/ MissesOverride \/ TakesOutForAnother

\* As long as it has not refused the program, every step of the evaluator is the step the Java
\* virtual machine takes there, or one of the four departures: outside them its classes are
\* initialized at the same moments, and its numbers, strings, objects and calls are the same,
\* whatever kind it keeps them as.  (Whether two strings of one content are one object is open.)
Faithful == Java!JavaInit /\ [][Java!JavaNext \/ Departs]_(Java!javaVars)

\* README.md: what is not supported fails at build time, so that what is built runs as Java
\* runs it, with no departure.
RunsAsJava == Java!JavaSpec

-----------------------------------------------------------------------------
(* What the evaluator knows less of than Java does, at the instruction it refuses. *)

Calling == J.op \in {"invokevirtual", "invokeinterface", "invokespecial", "invokestatic"}
Virtual == J.op \in {"invokevirtual", "invokeinterface"}

\* The values an instruction passes on, each with the type it is passed as.
Handed ==
    CASE J.op \in {"putfield", "putstatic", "checkcast"} -> {<<J.type, Arg(1)>>}
      [] J.op \in {"xastore", "aastore"} /\ Kind(Arg(3)) = "array" -> {<<heap[Arg(3)[2]].type, Arg(1)>>}
      [] J.op = "concat" \/ Calling -> {<<Params[k], Arg(Len(Params) + 1 - k)>> : k \in DOMAIN Params}
      [] J.op = "xreturn" -> {<<MethodOf(Top.class, Top.method).returns, Arg(1)>>}
      [] OTHER -> {}

\* A surrogate as a char, and a position inside a pair of them.
SurrogateAlone ==
    \/ \E x \in Handed : /\ x[1] = CharType /\ Kind(x[2]) = "int"
                         /\ Narrow(CharType, x[2][2]) \in Surrogates
    \/ /\ J.op = "invokevirtual" /\ J.name \in {"charAt", "substring"} /\ Kind(Receiver) = "string"
       /\ \E v \in ToSet(Given), k \in DOMAIN Receiver[2] :
            /\ Receiver[2][k] = Supplementary
            /\ v[2] - UnitsBefore(Receiver[2], k - 1) \in IF J.name = "charAt" THEN {0, 1} ELSE {1}

\* null where a line is printed, and an object in a concatenation.
NoText ==
    \/ J.op = "invokevirtual" /\ IsPrintln /\ Arg(1) = Null
    \/ J.op = "concat" /\ \E x \in Handed : Kind(x[2]) \in {"object", "array"}

\* A class, an array, a field, a method or an object of the library, or an array of arrays.
OfLibrary ==
    \/ J.op \in {"new", "invokestatic", "getstatic", "putstatic"} /\ ~Own(J.class)
    \/ J.op = "newarray" /\ (IsArray(J.type) \/ (J.type # StringType /\ J.type[1] = "object" /\ ~Own(J.type[2])))
    \/ J.op \in {"getstatic", "putstatic", "getfield", "putfield"} /\ ~Supported(J.type)
    \/ Virtual /\ IsPrintln /\ Params \notin {<<StringType>>, <<IntType>>, <<BooleanType>>, <<CharType>>}
    \/ Virtual /\ Receiver = SystemOut /\ ~IsPrintln
    \/ Virtual /\ Kind(Receiver) = "string" /\ J.class \notin {StringClass, ObjectClass}
    \/ J.op = "invokevirtual" /\ Kind(Receiver) = "string" /\ J.name \notin Java!StringMethods
    \/ J.op = "invokevirtual" /\ J.class \in {ObjectClass, ArrayClass} /\ J.name \notin Java!ObjectMethods
    \/ \E x \in Handed : x[2] = SystemOut

\* A static member that the class named inherits, a method the object's class does, and the
\* constructor or a method of a superclass.
IsInherited ==
    \/ J.op \in {"getstatic", "putstatic", "invokestatic"} /\ Own(J.class) /\ Java!Subject \notin {"", J.class}
    \/ Virtual /\ Kind(Receiver) = "object" /\ ~Has(heap[Receiver[2]].class, J.name)
    \/ J.op = "invokespecial" /\ Kind(Receiver) = "object" /\ J.class # heap[Receiver[2]].class

\* A reference kept or cast as what it is, but not by the name of its very class.
IsWidened ==
    /\ J.op \in {"putfield", "putstatic", "aastore", "checkcast"}
    /\ \E x \in Handed : LET v == Erased(x[2]) IN
         Kind(x[2]) \in {"object", "array", "string"} /\ Java!InstanceOf(v, x[1]) /\ x[1] # Java!TypeOf(v)

\* A value is refused only where Java throws, or for one of these reasons.
RefusedOnlyBeyond ==
    reason = "value" =>
      Java!Throws \/ SurrogateAlone \/ NoText \/ OfLibrary \/ IsInherited \/ IsWidened

\* A binary is made only of a finished run, all of whose classes are initialized.  It
\* serves what the run asked for, or, when that is nothing, writes the lines of the run.
BinaryIsTheRun ==
    verdict = "compiled" =>
      /\ begun /\ frames = <<>> /\ initializing = {}
      /\ binary.serves = http_server
      /\ http_server = <<>> => binary.prints = printlns

\* Every build ends, even of a program that does not.
EvaluationEnds == <>(verdict # "running")
=============================================================================
