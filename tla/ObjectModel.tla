------------------------------ MODULE ObjectModel ------------------------------
(***************************************************************************)
(* Where compiled code keeps its data: the layout of instances and of      *)
(* static storage (object_model.rs, ObjectModel::from_classes), and the    *)
(* heap instances and arrays come from (fvm_rt_alloc, runtime_stub.rs).    *)
(*                                                                         *)
(* Classes come in the order of their names.  A field is the bytes its     *)
(* type takes, 4, 8 or 0 for a type that has no storage yet.  Offsets are  *)
(* 32 bits wide in the code; the 65535 fields a class file can have stay   *)
(* far below that.                                                         *)
(***************************************************************************)
EXTENDS Integers, Sequences, FiniteSets

CONSTANTS
    HeapBytes,      \* the heap; 64 MiB in the runtime stub
    AllocSizes      \* what compiled code asks the heap for, arrays included

ASSUME HeapAssumption ==
    /\ HeapBytes \in Nat /\ HeapBytes % 8 = 0
    /\ AllocSizes \subseteq Nat

OBJECT_HEADER_BYTES   == 8      \* the class id is at its start
REFERENCE_BYTES       == 8
ARRAY_LENGTH_OFFSET   == OBJECT_HEADER_BYTES
ARRAY_ELEMENTS_OFFSET == 16

VARIABLES
    classes,        \* a sequence: of each class, [super : "Object" or "other",
                    \*  fields : a sequence of [name, type, static, width]]
    at,             \* the class being laid out
    next,           \* the field to place next
    offset,         \* the first byte of the instance not taken
    static_offset,  \* the first byte of the static storage not taken
    slots,          \* the placed fields of the class, by number: offset and size
    layouts,        \* the finished layouts, in the order of the classes
    model,          \* "laying", "ready" or "failed"
    used,           \* bytes of the heap given out
    objects         \* what it was given out as: [start, size] in order

layoutVars == <<at, next, offset, static_offset, slots, layouts, model>>
heapVars   == <<used, objects>>
modelVars  == <<classes, layoutVars, heapVars>>

-----------------------------------------------------------------------------
\* Mutant: rounded down.
AlignDown(o, a) == (o \div a) * a

AlignUp(o, a) == ((o + a - 1) \div a) * a

LayoutInit ==
    /\ at = 1
    /\ next = 1 /\ offset = OBJECT_HEADER_BYTES /\ static_offset = 0
    /\ slots = <<>> /\ layouts = <<>>
    /\ model = "laying"
    /\ used = 0 /\ objects = <<>>

Fields == classes[at].fields
Field  == Fields[next]
Laying == model = "laying" /\ classes[at].super = "Object"

Placed(i, o, size) ==
    [k \in DOMAIN slots \cup {i} |->
        IF k = i THEN [offset |-> o, size |-> size] ELSE slots[k]]

Refuse ==
    /\ model' = "failed"
    /\ UNCHANGED <<classes, at, next, offset, static_offset, slots, layouts, heapVars>>

RefuseSuperclass == model = "laying" /\ classes[at].super # "Object" /\ Refuse

\* A static field of an unsupported type is left out: using it fails later.
OmitStatic ==
    /\ Laying /\ next <= Len(Fields) /\ Field.static /\ Field.width = 0
    /\ next' = next + 1
    /\ UNCHANGED <<classes, at, offset, static_offset, slots, layouts, model, heapVars>>

PlaceStatic ==
    /\ Laying /\ next <= Len(Fields) /\ Field.static /\ Field.width # 0
    /\ LET o == AlignUp(static_offset, Field.width) IN
         slots' = Placed(next, o, Field.width) /\ static_offset' = o + Field.width
    /\ next' = next + 1
    /\ UNCHANGED <<classes, at, offset, layouts, model, heapVars>>

RefuseField ==
    Laying /\ next <= Len(Fields) /\ ~Field.static /\ Field.width = 0 /\ Refuse

PlaceField ==
    /\ Laying /\ next <= Len(Fields) /\ ~Field.static /\ Field.width # 0
    /\ LET o == AlignUp(offset, Field.width) IN
         slots' = Placed(next, o, Field.width) /\ offset' = o + Field.width
    /\ next' = next + 1
    /\ UNCHANGED <<classes, at, static_offset, layouts, model, heapVars>>

\* Class ids count from 1; 0 is no class.
Layout ==
    [class_id |-> at, slots |-> slots,
     instance_size |-> AlignUp(offset, REFERENCE_BYTES),
     static_size |-> AlignUp(static_offset, REFERENCE_BYTES)]

EndClass ==
    /\ Laying /\ next > Len(Fields)
    /\ layouts' = Append(layouts, Layout)
    /\ model' = IF at = Len(classes) THEN "ready" ELSE model
    /\ at' = at + 1
    /\ next' = 1 /\ offset' = OBJECT_HEADER_BYTES /\ static_offset' = 0 /\ slots' = <<>>
    /\ UNCHANGED <<classes, heapVars>>

LayoutNext ==
    RefuseSuperclass \/ OmitStatic \/ PlaceStatic \/ RefuseField \/ PlaceField \/ EndClass

-----------------------------------------------------------------------------
(* The heap: fvm_rt_alloc.                                                 *)

\* What new asks for, a laid-out instance, and what newarray may.
Sizes == {layouts[c].instance_size : c \in DOMAIN layouts} \cup AllocSizes

\* Mutant: the size as it is asked for.
TakenUnaligned(size) == size

Taken(size) == AlignUp(size, 8)

\* Beyond the end the process exits with 137.
Alloc ==
    /\ model = "ready"
    /\ \E size \in Sizes :
         /\ Taken(size) <= HeapBytes - used
         /\ used' = used + Taken(size)
         /\ objects' = Append(objects, [start |-> used, size |-> size])
    /\ UNCHANGED <<classes, layoutVars>>

ModelNext == LayoutNext \/ Alloc

ClassFile == [super : {"Object", "other"},
              fields : Seq([name : STRING, type : STRING, static : BOOLEAN, width : {0, 4, 8}])]

ModelInit == classes \in Seq(ClassFile) \ {<<>>} /\ LayoutInit

ModelSpec == ModelInit /\ [][ModelNext]_modelVars

-----------------------------------------------------------------------------
Ends(s)           == s.offset + s.size
Apart(s, t)       == Ends(s) <= t.offset \/ Ends(t) <= s.offset
IsStatic(c, i)    == classes[c].fields[i].static

\* Every field of a finished class has bytes of its own, aligned to its size,
\* after the header and within the instance, or within the static storage.
FieldsApart ==
    \A c \in DOMAIN layouts : \A i \in DOMAIN layouts[c].slots :
      LET s == layouts[c].slots[i] IN
      /\ s.offset % s.size = 0
      /\ IF IsStatic(c, i) THEN s.offset >= 0 /\ Ends(s) <= layouts[c].static_size
         ELSE s.offset >= OBJECT_HEADER_BYTES /\ Ends(s) <= layouts[c].instance_size
      /\ \A j \in DOMAIN layouts[c].slots \ {i} :
           IsStatic(c, i) = IsStatic(c, j) => Apart(s, layouts[c].slots[j])

\* No two objects share a byte of the heap, and none leaves it: with FieldsApart,
\* a store into one field of one object changes no other.  Every object starts at
\* a multiple of 8, so that its aligned fields are aligned in memory.
ObjectsApart ==
    \A i \in DOMAIN objects :
      LET o == objects[i] IN
      /\ o.start % 8 = 0 /\ o.start + o.size <= HeapBytes
      /\ \A j \in DOMAIN objects : i < j => o.start + o.size <= objects[j].start

\* A store into one field of one object changes no other.
StorageApart == FieldsApart /\ ObjectsApart
================================================================================
