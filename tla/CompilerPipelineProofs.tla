------------------------ MODULE CompilerPipelineProofs ------------------------
(***************************************************************************)
(* Compiled code's data never overlaps: every field of every class has     *)
(* bytes of its own, and so has every object of the heap, for any classes, *)
(* any heap and any requests.  FieldsApart and ObjectsApart speak of       *)
(* finished layouts and of starts and sizes as asked for.  To be inductive *)
(* the first needs what holds of the class being laid out (Arranged:       *)
(* nothing is placed past the cursor of its kind), and the second what the *)
(* cursor of the heap is (HeapInv: a multiple of 8 after every object,     *)
(* whose size is rounded up).                                              *)
(*                                                                         *)
(* The pipeline implements its parts: to the object model, and to the      *)
(* worklists of ReachabilityProofs, every step of the compiler and of the  *)
(* program is one of their own or none.  What is shown of them holds of    *)
(* the pipeline.                                                           *)
(*                                                                         *)
(* What holds of the composition alone rests on PipelineInv: closure and   *)
(* report read one JAR (JarInv), so what is lowered is part of what was    *)
(* reached (ReportInv), and a program that was linked passed every check   *)
(* of emit_objects (StageInv).                                             *)
(***************************************************************************)
EXTENDS CompilerPipeline, ReachabilityProofs

-----------------------------------------------------------------------------
(* The object model and the heap. *)

FieldInfo == [name : STRING, type : STRING, static : BOOLEAN, width : {0, 4, 8}]
Slot      == [offset : Nat, size : {4, 8}]
Slots     == UNION {[D -> Slot] : D \in SUBSET Nat}
Object    == [start : Nat, size : Nat]
LayoutSet == [class_id : Nat, slots : Slots, instance_size : Nat, static_size : Nat]

\* What holds of the slots placed so far under the two cursors.
Arranged(fields, placed, inst, stat) ==
    /\ \A i \in DOMAIN placed :
         /\ placed[i].offset % placed[i].size = 0
         /\ IF fields[i].static THEN Ends(placed[i]) <= stat
            ELSE placed[i].offset >= OBJECT_HEADER_BYTES /\ Ends(placed[i]) <= inst
    /\ \A i \in DOMAIN placed : \A j \in DOMAIN placed \ {i} :
         fields[i].static = fields[j].static => Apart(placed[i], placed[j])

LayoutType ==
    /\ classes \in Seq(ClassFile)
    /\ at \in Nat \ {0} /\ next \in Nat \ {0}
    /\ model = "laying" => at \in DOMAIN classes
    /\ offset \in Nat /\ offset >= OBJECT_HEADER_BYTES /\ static_offset \in Nat
    /\ slots \in Slots /\ DOMAIN slots \subseteq 1 .. next - 1
    /\ layouts \in Seq(LayoutSet) /\ Len(layouts) = at - 1

HeapInv ==
    /\ used \in Nat /\ used % 8 = 0 /\ used <= HeapBytes
    /\ objects \in Seq(Object)
    /\ \A i \in DOMAIN objects :
         objects[i].start % 8 = 0 /\ objects[i].start + objects[i].size <= used
    /\ \A i, j \in DOMAIN objects :
         i < j => objects[i].start + objects[i].size <= objects[j].start

ModelInv ==
    /\ LayoutType
    /\ Arranged(classes[at].fields, slots, offset, static_offset)
    /\ FieldsApart
    /\ HeapInv

-----------------------------------------------------------------------------
(* The arithmetic of align_up.                                             *)

\* align_up returns the least multiple of the alignment that is not below.
LEMMA AlignUpIsAligned ==
    ASSUME NEW o \in Nat, NEW a \in {4, 8}
    PROVE  /\ AlignUp(o, a) \in Nat /\ AlignUp(o, a) >= o
           /\ AlignUp(o, a) % a = 0 /\ AlignUp(o, a) < o + a
  <1>1. CASE a = 4
    <2>1. AlignUp(o, 4) = ((o + 3) \div 4) * 4
      BY DEF AlignUp
    <2> QED BY <1>1, <2>1
  <1>2. CASE a = 8
    <2>1. AlignUp(o, 8) = ((o + 7) \div 8) * 8
      BY DEF AlignUp
    <2> QED BY <1>2, <2>1
  <1> QED BY <1>1, <1>2

\* What a cursor is rounded to is a size the laid-out class may have.
LEMMA ArrangedWithinRounded ==
    ASSUME NEW fields, NEW placed \in Slots, NEW inst \in Nat, NEW stat \in Nat,
           NEW i \in DOMAIN placed,
           Arranged(fields, placed, inst, stat)
    PROVE  IF fields[i].static THEN Ends(placed[i]) <= AlignUp(stat, 8)
           ELSE Ends(placed[i]) <= AlignUp(inst, 8)
  <1>1. placed[i] \in Slot
    BY DEF Slots
  <1>2. Ends(placed[i]) \in Nat
    BY <1>1 DEF Ends, Slot
  <1>3. /\ AlignUp(stat, 8) \in Nat /\ AlignUp(stat, 8) >= stat
        /\ AlignUp(inst, 8) \in Nat /\ AlignUp(inst, 8) >= inst
    BY AlignUpIsAligned
  <1> QED BY <1>2, <1>3 DEF Arranged

\* A slot placed at the rounded cursor of its kind overlaps none before it.
LEMMA PlacingArranged ==
    ASSUME NEW fields \in Seq(FieldInfo), NEW placed \in Slots,
           NEW inst \in Nat, NEW stat \in Nat, inst >= OBJECT_HEADER_BYTES,
           Arranged(fields, placed, inst, stat),
           DOMAIN placed \subseteq DOMAIN fields,
           NEW k \in DOMAIN fields, k \notin DOMAIN placed,
           NEW w \in {4, 8}, NEW more, more \in Slots,
           DOMAIN more = DOMAIN placed \cup {k},
           \A i \in DOMAIN placed : more[i] = placed[i],
           NEW o, o = AlignUp(IF fields[k].static THEN stat ELSE inst, w),
           more[k] = [offset |-> o, size |-> w]
    PROVE  IF fields[k].static THEN Arranged(fields, more, inst, o + w)
           ELSE Arranged(fields, more, o + w, stat)
  <1> DEFINE from == IF fields[k].static THEN stat ELSE inst
             i2   == IF fields[k].static THEN inst ELSE o + w
             s2   == IF fields[k].static THEN o + w ELSE stat
  <1>1. from \in Nat
    OBVIOUS
  <1>2. o \in Nat /\ o >= from /\ o % w = 0
    BY <1>1, AlignUpIsAligned
  <1>3. more[k] = [offset |-> o, size |-> w]
    OBVIOUS
  <1>4. i2 \in Nat /\ s2 \in Nat /\ i2 >= inst /\ s2 >= stat
    BY <1>1, <1>2
  <1>5. \A i \in DOMAIN placed : placed[i] \in Slot
    BY DEF Slots
  <1>6. \A i \in DOMAIN fields : fields[i].static \in BOOLEAN
    <2>1. \A i \in DOMAIN fields : fields[i] \in FieldInfo
      OBVIOUS
    <2> QED BY <2>1 DEF FieldInfo
  <1>7. ASSUME NEW i \in DOMAIN more
        PROVE  /\ more[i].offset % more[i].size = 0
               /\ IF fields[i].static THEN Ends(more[i]) <= s2
                  ELSE more[i].offset >= OBJECT_HEADER_BYTES /\ Ends(more[i]) <= i2
    <2>1. CASE i = k
      BY <2>1, <1>1, <1>2, <1>3, <1>6 DEF Ends, OBJECT_HEADER_BYTES
    <2>2. CASE i \in DOMAIN placed
      <3>1. more[i] = placed[i] /\ placed[i] \in Slot
        BY <2>2, <1>5
      <3>2. Ends(placed[i]) \in Nat
        BY <3>1 DEF Ends, Slot
      <3> QED BY <3>1, <3>2, <2>2, <1>4 DEF Arranged
    <2> QED BY <2>1, <2>2
  <1>8. ASSUME NEW i \in DOMAIN placed, fields[i].static = fields[k].static
        PROVE  Apart(more[i], more[k])
    <2>1. more[i] = placed[i] /\ placed[i] \in Slot
      BY <1>5
    <2>2. Ends(placed[i]) \in Nat
      BY <2>1 DEF Ends, Slot
    <2>3. Ends(placed[i]) <= from
      BY <1>8, <1>6 DEF Arranged
    <2> QED BY <2>1, <2>2, <2>3, <1>1, <1>2, <1>3 DEF Apart
  <1>9. ASSUME NEW i \in DOMAIN more, NEW j \in DOMAIN more \ {i},
               fields[i].static = fields[j].static
        PROVE  Apart(more[i], more[j])
    <2>1. CASE i = k
      BY <2>1, <1>8, <1>9 DEF Apart
    <2>2. CASE j = k
      BY <2>2, <1>8, <1>9
    <2>3. CASE i # k /\ j # k
      BY <2>3, <1>9 DEF Arranged
    <2> QED BY <2>1, <2>2, <2>3
  <1>10. Arranged(fields, more, i2, s2)
    BY <1>7, <1>9 DEF Arranged
  <1> QED BY <1>10

-----------------------------------------------------------------------------
(* The layout.                                                             *)

\* The bytes of the slots of a class being laid out are slots again.
LEMMA PlacedIsSlots ==
    ASSUME slots \in Slots, NEW i \in Nat, NEW o \in Nat, NEW w \in {4, 8}
    PROVE  Placed(i, o, w) \in Slots
  <1>1. PICK D \in SUBSET Nat : slots \in [D -> Slot]
    BY DEF Slots
  <1>2. D \cup {i} \in SUBSET Nat
    BY <1>1
  <1>3. [offset |-> o, size |-> w] \in Slot
    BY DEF Slot
  <1>4. Placed(i, o, w) \in [D \cup {i} -> Slot]
    BY <1>1, <1>3 DEF Placed
  <1> QED BY <1>2, <1>4 DEF Slots

\* No class has slots before its first field.
LEMMA NoSlots ==
    ASSUME NEW fields, NEW inst, NEW stat
    PROVE  <<>> \in Slots /\ DOMAIN <<>> = {} /\ Arranged(fields, <<>>, inst, stat)
  <1>1. DOMAIN <<>> = {}
    OBVIOUS
  <1>2. <<>> \in [{} -> Slot]
    BY <1>1
  <1>3. <<>> \in Slots
    BY <1>2 DEF Slots
  <1> QED BY <1>1, <1>3 DEF Arranged

\* The fields of the class being laid out, of a step that keeps laying it out.
LEMMA CurrentFields ==
    ASSUME LayoutType, Laying
    PROVE  at \in DOMAIN classes /\ Fields \in Seq(FieldInfo)
  <1>1. at \in DOMAIN classes
    BY DEF LayoutType, Laying
  <1>2. classes[at] \in ClassFile
    BY <1>1 DEF LayoutType
  <1> QED BY <1>1, <1>2 DEF ClassFile, FieldInfo, Fields

\* Finished layouts stay as they are while neither they nor the classes change.
LEMMA FieldsApartStays ==
    ASSUME FieldsApart, UNCHANGED <<classes, layouts>>
    PROVE  FieldsApart'
  BY DEF FieldsApart, IsStatic, Apart, Ends

\* What placing a field, static or not, keeps.
LEMMA PlaceStep ==
    ASSUME ModelInv, PlaceStatic \/ PlaceField
    PROVE  LayoutType' /\ Arranged(classes[at].fields, slots, offset, static_offset)'
  <1> DEFINE from == IF Field.static THEN static_offset ELSE offset
             o    == AlignUp(from, Field.width)
  <1>1. /\ LayoutType /\ Laying /\ next <= Len(Fields) /\ next' = next + 1
        /\ UNCHANGED <<classes, at, layouts, model>> /\ Field.width # 0
    BY DEF ModelInv, PlaceStatic, PlaceField
  <1>2. at \in DOMAIN classes /\ Fields \in Seq(FieldInfo)
    BY <1>1, CurrentFields
  <1>3. next \in DOMAIN Fields /\ next \in Nat
    BY <1>1, <1>2 DEF LayoutType
  <1>4. Field \in FieldInfo
    BY <1>2, <1>3 DEF Field
  <1>5. Field.static \in BOOLEAN /\ Field.width \in {4, 8}
    BY <1>1, <1>4 DEF FieldInfo
  <1>6. slots \in Slots /\ offset \in Nat /\ static_offset \in Nat
    BY <1>1 DEF LayoutType
  <1>7. o \in Nat /\ o >= from /\ from \in Nat
    BY <1>5, <1>6, AlignUpIsAligned
  <1>8. Placed(next, o, Field.width) \in Slots
    BY <1>3, <1>5, <1>6, <1>7, PlacedIsSlots
  <1>9. /\ slots' = Placed(next, o, Field.width)
        /\ offset' = IF Field.static THEN offset ELSE o + Field.width
        /\ static_offset' = IF Field.static THEN o + Field.width ELSE static_offset
    BY DEF PlaceStatic, PlaceField
  <1>10. /\ DOMAIN slots \subseteq 1 .. next - 1
         /\ DOMAIN slots' = DOMAIN slots \cup {next}
         /\ \A i \in DOMAIN slots' :
              slots'[i] = IF i = next THEN [offset |-> o, size |-> Field.width]
                          ELSE slots[i]
    BY <1>1, <1>9 DEF LayoutType, Placed
  <1> HIDE DEF o
  <1>11. LayoutType'
    BY <1>1, <1>3, <1>5, <1>6, <1>7, <1>8, <1>9, <1>10 DEF LayoutType, OBJECT_HEADER_BYTES
  <1>12. Arranged(classes[at].fields, slots, offset, static_offset)'
    <2> DEFINE fs == Fields
    <2>1. /\ Arranged(fs, slots, offset, static_offset)
          /\ offset >= OBJECT_HEADER_BYTES
      BY DEF ModelInv, LayoutType, Fields
    <2>2. DOMAIN slots \subseteq DOMAIN fs /\ next \notin DOMAIN slots
      BY <1>2, <1>3, <1>10
    <2>3. Field = fs[next]
      BY DEF Field
    <2>4. IF fs[next].static
          THEN Arranged(fs, slots', offset, o + Field.width)
          ELSE Arranged(fs, slots', o + Field.width, static_offset)
      <3>1. /\ DOMAIN slots' = DOMAIN slots \cup {next}
            /\ slots'[next] = [offset |-> o, size |-> Field.width]
            /\ \A i \in DOMAIN slots : slots'[i] = slots[i]
        BY <1>10, <2>2
      <3>2. o = AlignUp(IF fs[next].static THEN static_offset ELSE offset, Field.width)
        BY <2>3 DEF o
      <3>3. fs \in Seq(FieldInfo) /\ next \in DOMAIN fs /\ slots' \in Slots
        BY <1>2, <1>3, <1>8, <1>9 DEF o
      <3> HIDE DEF fs
      <3> QED BY <1>5, <1>6, <2>1, <2>2, <3>1, <3>2, <3>3, PlacingArranged
    <2>5. Arranged(fs, slots', offset', static_offset')
      BY <2>3, <2>4, <1>5, <1>9
    <2>6. fs = classes'[at'].fields
      BY <1>1 DEF Fields
    <2> QED BY <2>5, <2>6 DEF Arranged, Ends, Apart
  <1> QED BY <1>11, <1>12

\* A finished class gets the next place.
LEMMA LayoutAppended ==
    ASSUME LayoutType, EndClass
    PROVE  /\ layouts' \in Seq(LayoutSet) /\ Len(layouts') = at
           /\ DOMAIN layouts' = DOMAIN layouts \cup {at} /\ at \notin DOMAIN layouts
           /\ layouts'[at] = Layout
           /\ \A c \in DOMAIN layouts : layouts'[c] = layouts[c]
  <1>1. layouts' = Append(layouts, Layout)
    BY DEF EndClass
  <1>2. /\ slots \in Slots /\ offset \in Nat /\ static_offset \in Nat
        /\ layouts \in Seq(LayoutSet) /\ Len(layouts) = at - 1 /\ at \in Nat \ {0}
    BY DEF LayoutType
  <1>3. Layout \in LayoutSet
    <2>1. AlignUp(offset, 8) \in Nat /\ AlignUp(static_offset, 8) \in Nat
      BY <1>2, AlignUpIsAligned
    <2> QED BY <1>2, <2>1 DEF Layout, LayoutSet, REFERENCE_BYTES
  <1> QED BY <1>1, <1>2, <1>3

\* What finishing a class keeps, and that its own fields are apart for good.
LEMMA EndClassStep ==
    ASSUME ModelInv, EndClass
    PROVE  /\ LayoutType' /\ FieldsApart'
           /\ Arranged(classes[at].fields, slots, offset, static_offset)'
  <1>1. /\ LayoutType /\ Laying /\ layouts' = Append(layouts, Layout)
        /\ model' = (IF at = Len(classes) THEN "ready" ELSE model)
        /\ at' = at + 1 /\ next' = 1 /\ offset' = OBJECT_HEADER_BYTES
        /\ static_offset' = 0 /\ slots' = <<>> /\ classes' = classes
    BY DEF ModelInv, EndClass
  <1>2. at \in DOMAIN classes /\ Fields \in Seq(FieldInfo)
    BY <1>1, CurrentFields
  <1>3. /\ slots \in Slots /\ offset \in Nat /\ static_offset \in Nat
        /\ layouts \in Seq(LayoutSet) /\ Len(layouts) = at - 1 /\ at \in Nat \ {0}
        /\ Len(classes) \in Nat
    BY <1>1 DEF LayoutType
  <1>4. /\ Layout.slots = slots
        /\ Layout.instance_size = AlignUp(offset, 8)
        /\ Layout.static_size = AlignUp(static_offset, 8)
    BY DEF Layout, REFERENCE_BYTES
  <1>6. /\ layouts' \in Seq(LayoutSet) /\ Len(layouts') = at
        /\ DOMAIN layouts' = DOMAIN layouts \cup {at} /\ at \notin DOMAIN layouts
        /\ layouts'[at] = Layout
        /\ \A c \in DOMAIN layouts : layouts'[c] = layouts[c]
    BY <1>1, LayoutAppended
  <1>7. LayoutType'
    <2>1. slots' \in Slots /\ DOMAIN slots' = {}
      BY <1>1, NoSlots
    <2>2. model' = "laying" => at' \in DOMAIN classes'
      BY <1>1, <1>2, <1>3
    <2>3. at' \in Nat \ {0} /\ Len(layouts') = at' - 1
      BY <1>1, <1>3, <1>6
    <2>4. offset' \in Nat /\ offset' >= OBJECT_HEADER_BYTES /\ static_offset' \in Nat
      BY <1>1 DEF OBJECT_HEADER_BYTES
    <2>5. classes' \in Seq(ClassFile) /\ next' \in Nat \ {0}
      BY <1>1 DEF LayoutType
    <2> QED BY <1>6, <2>1, <2>2, <2>3, <2>4, <2>5 DEF LayoutType
  <1>8. Arranged(classes[at].fields, slots, offset, static_offset)'
    BY <1>1, NoSlots DEF Arranged
  <1>9. FieldsApart'
    <2>1. ASSUME NEW c \in DOMAIN layouts, NEW i \in DOMAIN layouts'[c].slots
          PROVE  LET s == layouts'[c].slots[i] IN
                 /\ s.offset % s.size = 0
                 /\ IF classes[c].fields[i].static
                    THEN s.offset >= 0 /\ Ends(s) <= layouts'[c].static_size
                    ELSE s.offset >= OBJECT_HEADER_BYTES /\ Ends(s) <= layouts'[c].instance_size
                 /\ \A j \in DOMAIN layouts'[c].slots \ {i} :
                      classes[c].fields[i].static = classes[c].fields[j].static
                        => Apart(s, layouts'[c].slots[j])
      <3>1. layouts'[c] = layouts[c]
        BY <1>6
      <3>2. FieldsApart
        BY DEF ModelInv
      <3> QED BY <1>1, <3>1, <3>2 DEF FieldsApart, IsStatic
    <2>2. ASSUME NEW i \in DOMAIN slots
          PROVE  LET s == slots[i] IN
                 /\ s.offset % s.size = 0
                 /\ IF Fields[i].static
                    THEN s.offset >= 0 /\ Ends(s) <= Layout.static_size
                    ELSE s.offset >= OBJECT_HEADER_BYTES /\ Ends(s) <= Layout.instance_size
                 /\ \A j \in DOMAIN slots \ {i} :
                      Fields[i].static = Fields[j].static => Apart(s, slots[j])
      <3>1. Arranged(Fields, slots, offset, static_offset)
        BY DEF ModelInv, Fields
      <3>3. slots[i] \in Slot
        BY <1>3 DEF Slots
      <3>4. slots[i].offset >= 0
        BY <3>3 DEF Slot
      <3>5. IF Fields[i].static THEN Ends(slots[i]) <= AlignUp(static_offset, 8)
            ELSE Ends(slots[i]) <= AlignUp(offset, 8)
        BY <1>3, <3>1, ArrangedWithinRounded
      <3> QED BY <3>1, <3>4, <3>5, <1>4 DEF Arranged
    <2>3. classes' = classes /\ Fields = classes[at].fields
      BY <1>1 DEF Fields
    <2> QED BY <1>4, <1>6, <2>1, <2>2, <2>3 DEF FieldsApart, IsStatic, Ends, Apart
  <1> QED BY <1>7, <1>8, <1>9

-----------------------------------------------------------------------------
(* The heap.                                                               *)

\* What new and newarray ask for is a size, and there is one only when laid out.
LEMMA SizesAreNat ==
    ASSUME LayoutType
    PROVE  Sizes \subseteq Nat
  <1>1. \A c \in DOMAIN layouts : layouts[c] \in LayoutSet
    BY DEF LayoutType
  <1> QED BY <1>1, HeapAssumption DEF Sizes, LayoutSet, HeapAssumption

\* An allocation starts where the last one ended.
LEMMA AllocStep ==
    ASSUME LayoutType, HeapInv, Alloc
    PROVE  HeapInv'
  <1>1. PICK size \in Sizes :
          /\ Taken(size) <= HeapBytes - used
          /\ used' = used + Taken(size)
          /\ objects' = Append(objects, [start |-> used, size |-> size])
    BY DEF Alloc
  <1>2. size \in Nat /\ HeapBytes \in Nat
    BY SizesAreNat, HeapAssumption DEF HeapAssumption
  <1>3. Taken(size) \in Nat /\ Taken(size) >= size /\ Taken(size) % 8 = 0
    BY <1>2, AlignUpIsAligned DEF Taken
  <1>4. used \in Nat /\ used % 8 = 0 /\ objects \in Seq(Object)
    BY DEF HeapInv
  <1>5. used' \in Nat /\ used' % 8 = 0 /\ used' <= HeapBytes /\ used' >= used + size
    <2> DEFINE t == Taken(size)
    <2>1. /\ t \in Nat /\ t >= size /\ t % 8 = 0
          /\ t <= HeapBytes - used /\ used' = used + t
      BY <1>1, <1>3
    <2> HIDE DEF t
    <2>2. (used + t) % 8 = 0
      BY <2>1, <1>4
    <2>3. used' \in Nat /\ used' <= HeapBytes /\ used' >= used + size
      BY <2>1, <1>2, <1>4
    <2> QED BY <2>1, <2>2, <2>3
  <1> DEFINE n == Len(objects) + 1
  <1>6. /\ n \in Nat /\ DOMAIN objects = 1 .. n - 1 /\ DOMAIN objects' = 1 .. n
        /\ objects'[n] = [start |-> used, size |-> size]
        /\ \A i \in DOMAIN objects : objects'[i] = objects[i]
        /\ objects' \in Seq(Object)
    <2>1. [start |-> used, size |-> size] \in Object
      BY <1>2, <1>4 DEF Object
    <2> QED BY <1>1, <1>4, <2>1
  <1>7. \A i \in DOMAIN objects : objects[i].start \in Nat /\ objects[i].size \in Nat
    <2>1. \A i \in DOMAIN objects : objects[i] \in Object
      BY <1>4
    <2> QED BY <2>1 DEF Object
  <1> HIDE DEF n
  <1>8. ASSUME NEW i \in DOMAIN objects'
        PROVE  /\ objects'[i].start % 8 = 0
               /\ objects'[i].start + objects'[i].size <= used'
    <2>1. CASE i = n
      BY <2>1, <1>4, <1>5, <1>6
    <2>2. CASE i \in DOMAIN objects
      BY <2>2, <1>2, <1>4, <1>5, <1>6, <1>7 DEF HeapInv
    <2> QED BY <2>1, <2>2, <1>6
  <1>9. ASSUME NEW i \in DOMAIN objects', NEW j \in DOMAIN objects', i < j
        PROVE  objects'[i].start + objects'[i].size <= objects'[j].start
    <2>1. i \in DOMAIN objects
      BY <1>6, <1>9
    <2>2. CASE j = n
      BY <2>1, <2>2, <1>6 DEF HeapInv
    <2>3. CASE j \in DOMAIN objects
      BY <2>1, <2>3, <1>6, <1>9 DEF HeapInv
    <2> QED BY <2>2, <2>3, <1>6
  <1> QED BY <1>5, <1>6, <1>8, <1>9 DEF HeapInv

\* What is apart in the invariant's words is apart in the property's.
LEMMA HeapInvApart ==
    ASSUME HeapInv
    PROVE  ObjectsApart
  <1>1. \A i \in DOMAIN objects : objects[i] \in Object
    BY DEF HeapInv
  <1>2. \A i \in DOMAIN objects : objects[i].start \in Nat /\ objects[i].size \in Nat
    BY <1>1 DEF Object
  <1>3. \A i \in DOMAIN objects :
          /\ objects[i].start % 8 = 0
          /\ objects[i].start + objects[i].size <= used
    BY DEF HeapInv
  <1>4. \A i, j \in DOMAIN objects :
          i < j => objects[i].start + objects[i].size <= objects[j].start
    BY DEF HeapInv
  <1>5. used \in Nat /\ HeapBytes \in Nat /\ used <= HeapBytes
    BY HeapAssumption DEF HeapInv, HeapAssumption
  <1>6. \A i \in DOMAIN objects : objects[i].start + objects[i].size <= HeapBytes
    BY <1>2, <1>3, <1>5
  <1> QED BY <1>3, <1>4, <1>6 DEF ObjectsApart

-----------------------------------------------------------------------------
(* The invariant.                                                          *)

LEMMA ModelInvInit ==
    ASSUME ModelInit
    PROVE  ModelInv
  <1>1. LayoutType
    <2>1. classes \in Seq(ClassFile) /\ 1 \in DOMAIN classes
      BY DEF ModelInit
    <2>2. <<>> \in Slots /\ DOMAIN <<>> = {}
      BY NoSlots
    <2>3. <<>> \in Seq(LayoutSet) /\ Len(<<>>) = 0
      OBVIOUS
    <2> QED BY <2>1, <2>2, <2>3 DEF ModelInit, LayoutInit, LayoutType, OBJECT_HEADER_BYTES
  <1>2. Arranged(classes[at].fields, slots, offset, static_offset)
    BY NoSlots DEF ModelInit, LayoutInit
  <1>3. FieldsApart
    BY NoSlots DEF ModelInit, LayoutInit, FieldsApart
  <1>4. HeapInv
    BY HeapAssumption DEF ModelInit, LayoutInit, HeapInv, HeapAssumption
  <1> QED BY <1>1, <1>2, <1>3, <1>4 DEF ModelInv

LEMMA ModelInvStep ==
    ASSUME ModelInv, [ModelNext]_modelVars
    PROVE  ModelInv'
  <1> USE DEF ModelInv
  <1>1. CASE Refuse
    <2>1. /\ model' = "failed"
          /\ UNCHANGED <<classes, at, next, offset, static_offset, slots, layouts, used, objects>>
      BY <1>1 DEF Refuse, heapVars
    <2>2. LayoutType'
      BY <2>1 DEF LayoutType
    <2>3. Arranged(classes[at].fields, slots, offset, static_offset)'
      BY <2>1 DEF Arranged, Ends, Apart
    <2>4. FieldsApart' /\ HeapInv'
      BY <2>1, FieldsApartStays DEF HeapInv
    <2> QED BY <2>2, <2>3, <2>4
  <1>2. CASE OmitStatic
    <2>1. /\ next' = next + 1
          /\ UNCHANGED <<classes, at, offset, static_offset, slots, layouts, model, used, objects>>
      BY <1>2 DEF OmitStatic, heapVars
    <2>2. LayoutType'
      <3>1. DOMAIN slots' \subseteq 1 .. next' - 1 /\ next' \in Nat \ {0}
        BY <2>1 DEF LayoutType
      <3> QED BY <2>1, <3>1 DEF LayoutType
    <2>3. Arranged(classes[at].fields, slots, offset, static_offset)'
      BY <2>1 DEF Arranged, Ends, Apart
    <2>4. FieldsApart' /\ HeapInv'
      BY <2>1, FieldsApartStays DEF HeapInv
    <2> QED BY <2>2, <2>3, <2>4
  <1>3. CASE PlaceStatic \/ PlaceField
    <2>1. UNCHANGED <<classes, layouts, used, objects>>
      BY <1>3 DEF PlaceStatic, PlaceField, heapVars
    <2>2. FieldsApart' /\ HeapInv'
      BY <2>1, FieldsApartStays DEF HeapInv
    <2> QED BY <1>3, <2>2, PlaceStep
  <1>4. CASE EndClass
    <2>1. UNCHANGED <<used, objects>>
      BY <1>4 DEF EndClass, heapVars
    <2>2. HeapInv'
      BY <2>1 DEF HeapInv
    <2> QED BY <1>4, <2>2, EndClassStep
  <1>5. CASE Alloc
    <2>1. UNCHANGED <<classes, at, next, offset, static_offset, slots, layouts, model>>
      BY <1>5 DEF Alloc, layoutVars
    <2>2. LayoutType' /\ Arranged(classes[at].fields, slots, offset, static_offset)'
      BY <2>1 DEF LayoutType, Arranged, Ends, Apart
    <2>3. FieldsApart'
      BY <2>1, FieldsApartStays
    <2> QED BY <1>5, <2>2, <2>3, AllocStep
  <1>6. CASE UNCHANGED modelVars
    <2>1. UNCHANGED <<classes, at, next, offset, static_offset, slots, layouts, model,
                      used, objects>>
      BY <1>6 DEF modelVars, layoutVars, heapVars
    <2>2. LayoutType' /\ Arranged(classes[at].fields, slots, offset, static_offset)'
      BY <2>1 DEF LayoutType, Arranged, Ends, Apart
    <2>3. FieldsApart' /\ HeapInv'
      BY <2>1, FieldsApartStays DEF HeapInv
    <2> QED BY <2>2, <2>3
  <1> QED
    BY <1>1, <1>2, <1>3, <1>4, <1>5, <1>6
       DEF ModelNext, LayoutNext, RefuseSuperclass, RefuseField

LEMMA ModelInvApart ==
    ASSUME ModelInv
    PROVE  StorageApart
  BY HeapInvApart DEF ModelInv, StorageApart

\* Whatever classes are compiled, every field has bytes of its own within its
\* instance or the static storage, and every object bytes of its own within the
\* heap: what from_classes lays out and fvm_rt_alloc gives never overlaps.
THEOREM StorageAlwaysApart == ModelSpec => []StorageApart
  <1>1. ModelInit => ModelInv
    BY ModelInvInit
  <1>2. ModelInv /\ [ModelNext]_modelVars => ModelInv'
    BY ModelInvStep
  <1>3. ModelInv => StorageApart
    BY ModelInvApart
  <1> QED BY <1>1, <1>2, <1>3, PTL DEF ModelSpec

-----------------------------------------------------------------------------
\* How far the layout has come: a slot belongs to a field of its class.
ShapeInv ==
    /\ model \in {"laying", "ready", "failed"}
    /\ at <= Len(classes) + 1
    /\ model = "laying" => next <= Len(Fields) + 1
    /\ \A c \in DOMAIN layouts : DOMAIN layouts[c].slots \subseteq DOMAIN classes[c].fields

LEMMA ShapeInit == ModelInit => ShapeInv
  <1> SUFFICES ASSUME ModelInit PROVE ShapeInv
    OBVIOUS
  <1>1. classes \in Seq(ClassFile) /\ Len(classes) \in Nat /\ 1 \in DOMAIN classes
    BY DEF ModelInit
  <1>2. classes[1] \in ClassFile
    BY <1>1
  <1>3. Len(classes[1].fields) \in Nat
    BY <1>2 DEF ClassFile
  <1>4. DOMAIN layouts = {}
    BY DEF ModelInit, LayoutInit
  <1> QED BY <1>1, <1>3, <1>4 DEF ShapeInv, ModelInit, LayoutInit, Fields

LEMMA ShapeInvStep == ModelInv /\ ShapeInv /\ [ModelNext]_modelVars => ShapeInv'
  <1> SUFFICES ASSUME ModelInv, ShapeInv, [ModelNext]_modelVars PROVE ShapeInv'
    OBVIOUS
  <1>1. LayoutType
    BY DEF ModelInv
  <1>2. CASE OmitStatic \/ PlaceStatic \/ PlaceField
    <2>1. /\ UNCHANGED <<classes, at, layouts, model>> /\ next' = next + 1
          /\ Laying /\ next <= Len(Fields)
      BY <1>2 DEF OmitStatic, PlaceStatic, PlaceField
    <2>2. Len(Fields) \in Nat /\ next \in Nat
      BY <1>1, <2>1, CurrentFields DEF LayoutType
    <2>3. Fields' = Fields
      BY <2>1 DEF Fields
    <2> QED BY <2>1, <2>2, <2>3 DEF ShapeInv
  <1>3. CASE EndClass
    <2>1. /\ Laying /\ next > Len(Fields) /\ layouts' = Append(layouts, Layout)
          /\ model' = IF at = Len(classes) THEN "ready" ELSE model
          /\ at' = at + 1 /\ next' = 1 /\ classes' = classes
      BY <1>3 DEF EndClass
    <2>2. /\ at \in DOMAIN classes /\ Len(Fields) \in Nat /\ DOMAIN Fields = 1 .. Len(Fields)
          /\ Fields = classes[at].fields /\ model = "laying"
      BY <1>1, <2>1, CurrentFields DEF Fields, Laying
    <2>3. /\ classes \in Seq(ClassFile) /\ Len(classes) \in Nat /\ DOMAIN classes = 1 .. Len(classes)
          /\ at \in Nat /\ next \in Nat /\ layouts \in Seq(LayoutSet) /\ Len(layouts) = at - 1
          /\ DOMAIN slots \subseteq 1 .. next - 1
      BY <1>1 DEF LayoutType
    <2>4. DOMAIN slots \subseteq DOMAIN Fields
      BY <2>1, <2>2, <2>3 DEF ShapeInv
    <2>5. \A c \in DOMAIN layouts' :
            \/ c \in DOMAIN layouts /\ layouts'[c] = layouts[c]
            \/ c = at /\ layouts'[c] = Layout
      BY <1>1, <1>3, LayoutAppended
    <2>6. \A c \in DOMAIN layouts' :
            DOMAIN layouts'[c].slots \subseteq DOMAIN classes[c].fields
      <3>1. Layout.slots = slots
        BY DEF Layout
      <3> QED BY <2>2, <2>4, <2>5, <3>1 DEF ShapeInv
    <2>7. model' = "laying" => next' <= Len(Fields') + 1
      <3> SUFFICES ASSUME model' = "laying" PROVE 1 <= Len(classes[at + 1].fields) + 1
        BY <2>1 DEF Fields
      <3>1. at + 1 \in DOMAIN classes
        BY <2>1, <2>2, <2>3
      <3>2. classes[at + 1] \in ClassFile
        BY <2>3, <3>1
      <3>3. Len(classes[at + 1].fields) \in Nat
        BY <3>2 DEF ClassFile
      <3> QED BY <3>3
    <2> QED BY <2>1, <2>2, <2>3, <2>6, <2>7 DEF ShapeInv
  <1>4. CASE Refuse
    BY <1>4 DEF Refuse, ShapeInv
  <1>5. CASE Alloc \/ UNCHANGED modelVars
    BY <1>5 DEF Alloc, modelVars, layoutVars, ShapeInv, Fields
  <1> QED BY <1>2, <1>3, <1>4, <1>5 DEF ModelNext, LayoutNext, RefuseSuperclass, RefuseField

-----------------------------------------------------------------------------
(* The pipeline. *)

\* The JAR does not change, and the closure sees what its live code holds.
JarInv ==
    \E w : /\ IsJar(w)
           /\ methods = w.methods /\ mentions = w.mentions /\ classes = w.classes
           /\ prog = ProgramOf(w)

LEMMA PipelineJar == PipelineInit => JarInv
  <1> SUFFICES ASSUME PipelineInit PROVE JarInv
    OBVIOUS
  <1>1. PICK family \in DOMAIN Worlds :
          \E k \in DOMAIN Worlds[family] :
            LET w == Worlds[family][k] IN
            /\ prog = ProgramOf(w)
            /\ methods = w.methods /\ mentions = w.mentions
            /\ classes = w.classes /\ spelled = w.spelled
    BY DEF PipelineInit
  <1>2. PICK k \in DOMAIN Worlds[family] :
            /\ prog = ProgramOf(Worlds[family][k])
            /\ methods = Worlds[family][k].methods /\ mentions = Worlds[family][k].mentions
            /\ classes = Worlds[family][k].classes
    BY <1>1
  <1>3. IsJar(Worlds[family][k])
    BY WorldsAssumption DEF WorldsAssumption
  <1> QED BY <1>2, <1>3 DEF JarInv

\* What the steps of the pipeline read in the JAR.
LEMMA JarFacts ==
    ASSUME JarInv
    PROVE  /\ JarType /\ prog \in Program /\ Resolvable
           /\ classes \in Seq(ClassFile) \ {<<>>} /\ DOMAIN classes = Classes
           /\ \A c \in Classes : \A i, j \in DOMAIN classes[c].fields :
                classes[c].fields[i].name = classes[c].fields[j].name
                /\ classes[c].fields[i].type = classes[c].fields[j].type => i = j
           /\ \A c \in prog.initialized : <<c, Clinit>> \in Declared
           /\ \A m \in Declared : \A n \in Called(m) :
                \E i \in methods[m].code : i.kind = "call" /\ n = <<i.class, i.member>>
           /\ \A m \in Declared : \A c \in prog.uses[m] :
                c \in Classes /\ \E i \in methods[m].code : c = i.class
           /\ \A m \in Declared : \A i \in methods[m].code :
                i.live /\ i.kind = "call" => <<i.class, i.member>> \in Called(m)
  <1>1. PICK w : /\ IsJar(w)
                 /\ methods = w.methods /\ mentions = w.mentions /\ classes = w.classes
                 /\ prog = ProgramOf(w)
    BY DEF JarInv
  <1>2. JarType
    BY <1>1 DEF IsJar, JarType, Declared
  <1>3. /\ classes \in Seq(ClassFile) \ {<<>>} /\ DOMAIN classes = Classes
        /\ \A c \in Classes : \A i, j \in DOMAIN classes[c].fields :
             classes[c].fields[i].name = classes[c].fields[j].name
             /\ classes[c].fields[i].type = classes[c].fields[j].type => i = j
    BY <1>1 DEF IsJar
  <1>4. /\ prog.initialized = {c \in Classes : <<c, Clinit>> \in Declared}
        /\ prog.rejected = w.rejected \cup (Methods \ (External \cup Declared))
        /\ prog.calls = [m \in Methods |-> {<<i.class, i.member>> : i \in LiveOf(w, m, {"call"})}]
        /\ prog.uses = [m \in Methods |->
                          {i.class : i \in LiveOf(w, m, {"new", "static"})} \cap Classes]
        /\ prog = [initialized |-> prog.initialized, calls |-> prog.calls,
                   uses |-> prog.uses, rejected |-> prog.rejected]
    BY <1>1 DEF ProgramOf, Declared
  <1>5. \A m, ks : LiveOf(w, m, ks) = IF m \in Declared
                                      THEN {i \in methods[m].code : i.live /\ i.kind \in ks}
                                      ELSE {}
    BY <1>1 DEF LiveOf, Declared
  <1>6. \A m \in Declared : \A i \in methods[m].code :
          i.kind = "call" => <<i.class, i.member>> \in Methods
    BY <1>1 DEF IsJar, Declared
  <1>7. Declared \subseteq Methods
    BY <1>2 DEF JarType
  <1>8. prog \in Program
    <2>1. \A m \in Methods : {<<i.class, i.member>> : i \in LiveOf(w, m, {"call"})} \subseteq Methods
      BY <1>5, <1>6
    <2>2. prog.calls \in [Methods -> SUBSET Methods] /\ prog.uses \in [Methods -> SUBSET Classes]
      BY <1>4, <2>1
    <2>3. prog.rejected \subseteq Methods /\ prog.initialized \subseteq Classes
      BY <1>1, <1>4 DEF IsJar
    <2> QED BY <1>4, <2>2, <2>3 DEF Program
  <1>9. Resolvable
    <2>1. \A c \in Classes : <<c, Clinit>> \in Methods /\ <<c, Clinit>> \notin External
      BY ClosureAssumption DEF ClosureAssumption, External
    <2> QED BY <1>4, <2>1 DEF Resolvable
  <1>10. \A m \in Declared :
           /\ Called(m) = {<<i.class, i.member>> : i \in {i \in methods[m].code :
                                                           i.live /\ i.kind = "call"}}
           /\ prog.uses[m] = {i.class : i \in {i \in methods[m].code :
                                                 i.live /\ i.kind \in {"new", "static"}}} \cap Classes
    BY <1>4, <1>5, <1>7 DEF Called
  <1> QED BY <1>2, <1>3, <1>4, <1>8, <1>9, <1>10

LEMMA PipelineLaysOut ==
    ASSUME PipelineInit
    PROVE  ModelInit
  BY PipelineJar, JarFacts DEF PipelineInit, ModelInit

LEMMA PipelineStepsLayout ==
    ASSUME [PipelineNext]_pipelineVars
    PROVE  [ModelNext]_modelVars
  <1>1. CASE ReportStep \/ CompileStep \/ Emit
    BY <1>1 DEF ReportStep, CompileStep, Emit
  <1>2. CASE LayoutStep
    BY <1>2 DEF LayoutStep, ModelNext
  <1>3. CASE Run
    BY <1>3 DEF Run, ModelNext
  <1>4. CASE Stopped \/ UNCHANGED pipelineVars
    BY <1>4 DEF Stopped, pipelineVars
  <1> QED BY <1>1, <1>2, <1>3, <1>4 DEF PipelineNext

\* Neither the report, the closure and the link nor anything else in the
\* pipeline lets two fields or two objects of a program overlap, for any JARs.
THEOREM PipelineStorageApart == PipelineSpec => []StorageApart
  <1>1. PipelineInit => ModelInit
    BY PipelineLaysOut
  <1>2. [PipelineNext]_pipelineVars => [ModelNext]_modelVars
    BY PipelineStepsLayout
  <1>3. PipelineSpec => ModelSpec
    BY <1>1, <1>2, PTL DEF PipelineSpec, ModelSpec
  <1> QED BY <1>3, StorageAlwaysApart, PTL

-----------------------------------------------------------------------------
LEMMA PipelineStepsClosure ==
    ASSUME [PipelineNext]_pipelineVars
    PROVE  [Next]_vars
  <1>1. CASE ReportStep \/ LayoutStep \/ Emit \/ Run
    BY <1>1 DEF ReportStep, LayoutStep, Emit, Run
  <1>2. CASE CompileStep
    BY <1>2 DEF CompileStep, Next
  <1>3. CASE Stopped \/ UNCHANGED pipelineVars
    BY <1>3 DEF Stopped, pipelineVars
  <1> QED BY <1>1, <1>2, <1>3 DEF PipelineNext

\* From whatever JAR, the methods compiled are exactly those its entry needs, and
\* nothing later in the pipeline changes them.
THEOREM PipelineClosureExact == PipelineSpec => []ClosureIsExact
  <1>1. PipelineInit => ClosureInv
    BY ClosureInit DEF PipelineInit
  <1>2. ClosureInv /\ [PipelineNext]_pipelineVars => ClosureInv'
    BY PipelineStepsClosure, ClosureInvStep
  <1> QED BY <1>1, <1>2, ClosureInvExact, PTL DEF PipelineSpec

-----------------------------------------------------------------------------
(* What the parts tell each other.                                         *)

\* The compiler starts when the report is over, and finds in it what it needs.
ReportInv ==
    /\ scan \in {"scan", "lower"} => Start
    /\ scan # "done" => reported = {} /\ diagnostics = {}
    /\ scan = "done" =>
         /\ reported \subseteq graph.methods /\ diagnostics \subseteq graph.methods \ reported
         /\ diagnostics = {} => reported = graph.methods /\ graph.methods \cap prog.rejected = {}
         /\ Known \subseteq graph.methods
    /\ CleanReportCompiles

LEMMA PipelineStepsScan ==
    ASSUME [PipelineNext]_pipelineVars
    PROVE  (ScanNext \/ UNCHANGED scanVars) /\ UNCHANGED <<jarVars, classes, spelled, prog>>
  <1>1. CASE ReportStep
    BY <1>1 DEF ReportStep, vars, modelVars, linkVars
  <1>2. CASE CompileStep
    BY <1>2 DEF CompileStep, Lower, Reject, Lowered, Visit, Descend, Return, Ordered,
                modelVars, linkVars
  <1>3. CASE LayoutStep
    BY <1>3 DEF LayoutStep, LayoutNext, RefuseSuperclass, OmitStatic, PlaceStatic, RefuseField,
                PlaceField, EndClass, Refuse, vars, linkVars
  <1>4. CASE Emit
    BY <1>4 DEF Emit, vars, modelVars
  <1>5. CASE Run
    BY <1>5 DEF Run, Alloc, vars, linkVars
  <1>6. CASE Stopped \/ UNCHANGED pipelineVars
    BY <1>6 DEF Stopped, pipelineVars, vars, modelVars, linkVars
  <1> QED BY <1>1, <1>2, <1>3, <1>4, <1>5, <1>6 DEF PipelineNext

LEMMA JarInvStep == JarInv /\ [PipelineNext]_pipelineVars => JarInv'
  BY PipelineStepsScan DEF JarInv, jarVars

LEMMA PipelineScans == ScanInv /\ [PipelineNext]_pipelineVars => ScanInv'
  BY PipelineStepsScan, ScanInvStep

\* What a method of a finished report needs is in the report.
LEMMA ReportHolds ==
    ASSUME JarInv, ScanInv, scan \in {"lower", "done"}, NEW m \in graph.methods
    PROVE  /\ m[1] \in graph.classes
           /\ \A c \in graph.classes \cap prog.initialized : <<c, Clinit>> \in graph.methods
           /\ \A n \in Called(m) \ External : n \in graph.methods
           /\ prog.uses[m] \subseteq graph.classes
  <1>1. /\ pending = {} /\ m \in Declared
        /\ m[1] \in graph.classes /\ CodeClosed(m, graph.classes, graph.methods)
        /\ \A c \in graph.classes : ClassClosed(c, graph.classes, graph.methods)
    BY DEF ScanInv, ScanType, GraphClosed
  <1>2. \A c \in graph.classes \cap prog.initialized : <<c, Clinit>> \in graph.methods
    BY <1>1, JarFacts DEF ClassClosed
  <1>3. ASSUME NEW n \in Called(m) \ External
        PROVE  n \in graph.methods
    <2>1. PICK i \in methods[m].code : i.kind = "call" /\ n = <<i.class, i.member>>
      BY <1>1, JarFacts
    <2>2. n \in Methods
      <3>1. m \in Methods /\ prog.calls \in [Methods -> SUBSET Methods]
        BY <1>1, JarFacts DEF ScanInv, JarType, Program
      <3> QED BY <3>1 DEF Called
    <2>3. i.class \in Classes
      BY <2>1, <2>2 DEF External
    <2> QED BY <1>1, <2>1, <2>3 DEF CodeClosed
  <1>4. ASSUME NEW c \in prog.uses[m]
        PROVE  c \in graph.classes
    <2>1. PICK i \in methods[m].code : c = i.class /\ c \in Classes
      BY <1>1, JarFacts
    <2> QED BY <1>1, <2>1 DEF CodeClosed
  <1> QED BY <1>1, <1>2, <1>3, <1>4

\* The report is made of a finished graph.
LEMMA ReportMade ==
    ASSUME JarInv, ScanInv, ReportInv, Report, UNCHANGED vars
    PROVE  ReportInv'
  <1>1. /\ scan = "lower" /\ scan' = "done" /\ graph' = graph
        /\ IF Rejected = {}
           THEN reported' = graph.methods /\ diagnostics' = {}
           ELSE /\ reported' = {SortedMethods[i] : i \in 1 .. Least(Rejected) - 1} \cap graph.methods
                /\ diagnostics' = {SortedMethods[Least(Rejected)]}
    BY DEF Report
  <1>2. /\ prog' = prog /\ phase' = phase /\ Known' = Known /\ phase = "lower"
        /\ Known = Roots
    BY <1>1 DEF vars, Known, ReportInv, Start, Roots
  <1>3. Known' \subseteq graph'.methods
    <2>1. Entry \in graph.methods
      BY <1>1 DEF ScanInv, ScanType
    <2>2. Roots \subseteq graph.methods
      <3>1. Entry[1] \in graph.classes
        BY <1>1, <2>1, ReportHolds
      <3>2. \A c \in graph.classes \cap prog.initialized : <<c, Clinit>> \in graph.methods
        BY <1>1, <2>1, ReportHolds
      <3> QED BY <2>1, <3>1, <3>2 DEF Roots, Initializers
    <2> QED BY <1>1, <1>2, <2>2
  <1>4. graph.methods \subseteq Methods
    BY DEF ScanInv, ScanType, JarType
  <1>5. CASE Rejected = {}
    <2>1. graph.methods \cap prog.rejected = {}
      BY <1>4, <1>5, SortedAssumption DEF Rejected, SortedAssumption
    <2> QED BY <1>1, <1>2, <1>3, <1>5, <2>1 DEF ReportInv, CleanReportCompiles
  <1>6. CASE Rejected # {}
    <2> DEFINE k == Least(Rejected)
    <2>1. Rejected \subseteq DOMAIN SortedMethods /\ DOMAIN SortedMethods = 1 .. Len(SortedMethods)
          /\ Len(SortedMethods) \in Nat
      BY SortedAssumption DEF Rejected, SortedAssumption
    <2>2. k \in Rejected /\ k \in Nat
      BY <1>6, <2>1, LeastNatural
    <2>3. \A i \in Rejected : k <= i
      <3>1. Rejected \in SUBSET Nat
        BY <2>1
      <3> QED BY <1>6, <3>1, LeastNatural
    <2> HIDE DEF k
    <2>4. SortedMethods[k] \in graph.methods /\ SortedMethods[k] \in prog.rejected
      BY <2>2 DEF Rejected
    <2>5. SortedMethods[k] \notin {SortedMethods[i] : i \in 1 .. k - 1}
      <3> SUFFICES ASSUME NEW i \in 1 .. k - 1, SortedMethods[i] = SortedMethods[k]
                   PROVE  FALSE
        OBVIOUS
      <3>1. i \in DOMAIN SortedMethods
        BY <2>1, <2>2
      <3>2. i \in Rejected
        BY <3>1, <2>4 DEF Rejected
      <3> QED BY <3>2, <2>2, <2>3
    <2>6. /\ reported' = {SortedMethods[i] : i \in 1 .. k - 1} \cap graph.methods
          /\ diagnostics' = {SortedMethods[k]}
      BY <1>1, <1>6 DEF k
    <2>7. reported' \subseteq graph'.methods /\ diagnostics' \subseteq graph'.methods \ reported'
          /\ diagnostics' # {}
      BY <1>1, <2>4, <2>5, <2>6
    <2> QED BY <1>1, <1>2, <1>3, <2>7 DEF ReportInv, CleanReportCompiles
  <1> QED BY <1>5, <1>6

\* A round of the closure stays in the report.
LEMMA LoweringReported ==
    ASSUME JarInv, ScanInv, ReportInv, scan = "done", Lower
    PROVE  Known' \subseteq graph.methods
  <1>1. PICK m \in queue : /\ ~Fails(m)
                           /\ lowered' = lowered \cup {m}
                           /\ queue' = (queue \cup Called(m) \cup Initializers(ToSchedule(m)))
                                         \ lowered'
    BY DEF Lower, Pending
  <1>2. Known' = Known \cup Called(m) \cup Initializers(ToSchedule(m))
    BY <1>1 DEF Known
  <1>3. m \in graph.methods /\ Known \subseteq graph.methods
    BY DEF ReportInv, Known
  <1>4. Called(m) \subseteq graph.methods
    BY <1>1, <1>3, ReportHolds DEF Fails
  <1>5. ToSchedule(m) \subseteq graph.classes \cap prog.initialized
    <2>1. \A n \in Called(m) : n[1] \in graph.classes
      BY <1>4, ReportHolds
    <2>2. prog.uses[m] \subseteq graph.classes
      BY <1>3, ReportHolds
    <2> QED BY <2>1, <2>2 DEF ToSchedule, Scheduled, Referenced
  <1>6. Initializers(ToSchedule(m)) \subseteq graph.methods
    BY <1>3, <1>5, ReportHolds DEF Initializers
  <1> QED BY <1>2, <1>3, <1>4, <1>6

LEMMA ReportInvStep ==
    ASSUME JarInv, ScanInv, ReportInv, [PipelineNext]_pipelineVars
    PROVE  ReportInv'
  <1>1. CASE ReportStep
    <2>1. (ScanEntry \/ Scan \/ Scanned \/ Report) /\ UNCHANGED vars
      BY <1>1 DEF ReportStep, ScanNext
    <2>2. CASE Report
      BY <2>1, <2>2, ReportMade
    <2>3. CASE ScanEntry \/ Scan \/ Scanned
      <3>1. /\ scan = "scan" /\ scan' \in {"scan", "lower", "failed"}
            /\ reported' = reported /\ diagnostics' = diagnostics
        BY <2>3 DEF ScanEntry, Scan, Scanned, NoReport
      <3>2. Start' <=> Start
        BY <2>1 DEF Start, Initializers, vars
      <3> QED BY <3>1, <3>2 DEF ReportInv, CleanReportCompiles
    <2> QED BY <2>1, <2>2, <2>3
  <1>2. CASE CompileStep
    <2>1. /\ scan \in {"done", "failed"} /\ UNCHANGED <<scan, graph, reported, diagnostics>>
          /\ Lower \/ Reject \/ Lowered \/ Visit \/ Descend \/ Return \/ Ordered
      BY <1>2 DEF CompileStep, scanVars
    <2>2. prog' = prog /\ (\A m : Called(m)' = Called(m))
      BY <1>2, PipelineStepsScan DEF Called
    <2>3. scan = "done" => Known' \subseteq graph.methods
      <3>1. CASE Lower
        BY <3>1, LoweringReported
      <3>2. CASE ~Lower
        <4>1. Known' = Known
          BY <2>1, <3>2 DEF Known, Reject, Lowered, Visit, Descend, Return, Ordered, lowerVars
        <4> QED BY <4>1 DEF ReportInv
      <3> QED BY <3>1, <3>2
    <2>4. CleanReportCompiles'
      <3>1. CASE Reject
        <4>1. PICK m \in queue : Fails(m)
          BY <3>1 DEF Reject
        <4>2. queue' = queue
          BY <3>1 DEF Reject, lowerVars
        <4> SUFFICES ASSUME scan = "done", diagnostics = {}
                     PROVE  m \in graph.methods /\ Called(m) \cap External # {}
          BY <2>1, <2>2, <4>2 DEF CleanReportCompiles, External
        <4>3. m \in graph.methods
          BY DEF ReportInv, Known
        <4> QED BY <4>1, <4>3 DEF ReportInv, Fails
      <3>2. CASE ~Reject
        <4>1. phase' # "failed"
          BY <2>1, <3>2 DEF Lower, Lowered, Visit, Descend, Return, Ordered
        <4> QED BY <4>1 DEF CleanReportCompiles
      <3> QED BY <3>1, <3>2
    <2> QED BY <2>1, <2>2, <2>3, <2>4 DEF ReportInv
  <1>3. CASE LayoutStep \/ Emit \/ Run \/ Stopped \/ UNCHANGED pipelineVars
    <2>1. UNCHANGED <<vars, scanVars>>
      BY <1>3 DEF LayoutStep, Emit, Run, Stopped, pipelineVars
    <2> QED BY <2>1 DEF ReportInv, Start, Initializers, Known, CleanReportCompiles, Called, External,
                        vars, scanVars
  <1> QED BY <1>1, <1>2, <1>3 DEF PipelineNext

LEMMA ReportInvInit == PipelineInit => ReportInv
  BY DEF PipelineInit, ScanInit, Start, ReportInv, CleanReportCompiles

LEMMA ReportInvTrue ==
    ASSUME JarInv, ScanInv, ClosureInv, ReportInv
    PROVE  ReportIsTrue
  <1>1. ReportIsExact /\ CleanReportCompiles
    BY ScanInvExact DEF ReportInv
  <1>2. BinaryIsReported
    <2> SUFFICES ASSUME scan = "done", phase \in {"order", "done"}
                 PROVE  /\ lowered \subseteq graph.methods
                        /\ diagnostics = {} => lowered \subseteq reported
                        /\ \A m \in lowered : Referenced(m) \subseteq graph.classes
                        /\ \A m \in lowered : \A i \in Live(m) :
                             i.kind \in {"static", "field"} /\ i.class \in Classes =>
                               FieldNode(i) \in graph.fields
      BY DEF BinaryIsReported
    <2>1. lowered \subseteq graph.methods /\ Known \subseteq graph.methods
      BY DEF ReportInv, Known
    <2>2. diagnostics = {} => lowered \subseteq reported
      BY <2>1 DEF ReportInv
    <2>3. ASSUME NEW m \in lowered
          PROVE  Referenced(m) \subseteq graph.classes
      <3>1. Called(m) \subseteq graph.methods
        BY <2>1 DEF ClosureInv, Covered
      <3>2. \A n \in Called(m) : n[1] \in graph.classes
        BY <3>1, ReportHolds
      <3>3. prog.uses[m] \subseteq graph.classes
        BY <2>1, ReportHolds
      <3> QED BY <3>2, <3>3 DEF Referenced
    <2>4. ASSUME NEW m \in lowered, NEW i \in Live(m),
                 i.kind \in {"static", "field"}, i.class \in Classes
          PROVE  FieldNode(i) \in graph.fields
      <3>1. graph.fields = FieldsOf(graph.methods)
        BY DEF ScanInv, ScanType, GraphFields
      <3>2. i \in FieldUses(m)
        BY <2>4 DEF Live, FieldUses, Instrs
      <3> QED BY <2>1, <2>4, <3>1, <3>2 DEF FieldsOf
    <2> QED BY <2>1, <2>2, <2>3, <2>4
  <1> QED BY <1>1, <1>2 DEF ReportIsTrue

-----------------------------------------------------------------------------
(* The stages, and the link.                                               *)

\* Each stage waits for the one before it, and what it made stays.
StageInv ==
    /\ model # "laying" => phase = "done"
    /\ object \in {"none", "linked", "failed"}
    /\ object # "none" => model = "ready"
    /\ object = "linked" => symbols = Definitions /\ Emittable
    /\ IsFiniteSet(lowered)

\* What emit_objects reads.
linkInputs == <<methods, classes, spelled, lowered, layouts>>

LEMMA EmitReads ==
    ASSUME UNCHANGED linkInputs
    PROVE  Definitions' = Definitions /\ (Emittable' <=> Emittable)
  <1>1. /\ methods' = methods /\ classes' = classes /\ spelled' = spelled
        /\ lowered' = lowered /\ layouts' = layouts
    BY DEF linkInputs
  <1>2. Definitions' = Definitions
    BY <1>1 DEF Definitions, Symbol, Storage
  <1>3. \A i : CanEmit(i)' <=> CanEmit(i)
    BY <1>1 DEF CanEmit, SlotsOf, Last
  <1>4. Clash' <=> Clash
    BY <1>2 DEF Clash
  <1>5. \A m : Live(m)' = Live(m)
    BY <1>1 DEF Live
  <1>6. (\A m \in lowered : \A i \in Live(m) : CanEmit(i))'
          <=> \A m \in lowered : \A i \in Live(m) : CanEmit(i)
    BY <1>1, <1>3, <1>5
  <1>7. Emittable' <=> Emittable
    BY <1>4, <1>6 DEF Emittable
  <1> QED BY <1>2, <1>7

LEMMA StageInvStep ==
    ASSUME ShapeInv, StageInv, ReportInv, [PipelineNext]_pipelineVars
    PROVE  StageInv'
  <1>1. UNCHANGED <<methods, classes, spelled>>
    BY PipelineStepsScan DEF jarVars
  <1>2. CASE ReportStep \/ Stopped \/ UNCHANGED pipelineVars
    <2>1. UNCHANGED <<vars, modelVars, linkVars>>
      BY <1>2 DEF ReportStep, Stopped, pipelineVars
    <2>2. UNCHANGED linkInputs
      BY <1>1, <2>1 DEF linkInputs, vars, modelVars, layoutVars
    <2> QED BY <2>1, <2>2, EmitReads DEF StageInv, vars, modelVars, layoutVars, linkVars
  <1>3. CASE CompileStep
    <2>1. /\ phase \in {"lower", "order"} /\ UNCHANGED <<modelVars, linkVars>>
          /\ Lower \/ Reject \/ Lowered \/ Visit \/ Descend \/ Return \/ Ordered
      BY <1>3 DEF CompileStep, Lower, Reject, Lowered, Visit, Descend, Return, Ordered
    <2>2. model = "laying" /\ object = "none" /\ model' = model /\ object' = object
      BY <2>1 DEF StageInv, ShapeInv, modelVars, layoutVars, linkVars
    <2>3. IsFiniteSet(lowered')
      <3>1. CASE Lower
        <4>1. PICK m : lowered' = lowered \cup {m}
          BY <3>1 DEF Lower
        <4> QED BY <4>1, FS_AddElement DEF StageInv
      <3>2. CASE ~Lower
        <4>1. lowered' = lowered
          BY <2>1, <3>2 DEF Reject, Lowered, Visit, Descend, Return, Ordered, lowerVars
        <4> QED BY <4>1 DEF StageInv
      <3> QED BY <3>1, <3>2
    <2> QED BY <2>2, <2>3 DEF StageInv
  <1>4. CASE LayoutStep
    <2>1. phase = "done" /\ LayoutNext /\ UNCHANGED <<vars, linkVars>>
      BY <1>4 DEF LayoutStep
    <2>2. model = "laying"
      BY <2>1 DEF LayoutNext, RefuseSuperclass, OmitStatic, PlaceStatic, RefuseField, PlaceField,
                  EndClass, Laying
    <2>3. object = "none" /\ object' = object /\ phase' = phase /\ lowered' = lowered
      BY <2>1, <2>2 DEF StageInv, vars, linkVars
    <2> QED BY <2>1, <2>3 DEF StageInv
  <1>5. CASE Emit
    <2>1. /\ model = "ready" /\ UNCHANGED <<vars, modelVars, spelled>>
          /\ \/ Emittable /\ object' = "linked" /\ symbols' = Definitions
             \/ object' = "failed"
      BY <1>5 DEF Emit
    <2>2. UNCHANGED linkInputs
      BY <1>1, <2>1 DEF linkInputs, vars, modelVars, layoutVars
    <2> QED BY <2>1, <2>2, EmitReads DEF StageInv, vars, modelVars, layoutVars
  <1>6. CASE Run
    <2>1. UNCHANGED <<vars, layoutVars, linkVars>>
      BY <1>6 DEF Run, Alloc
    <2>2. UNCHANGED linkInputs
      BY <1>1, <2>1 DEF linkInputs, vars, layoutVars
    <2> QED BY <2>1, <2>2, EmitReads DEF StageInv, vars, layoutVars, linkVars
  <1> QED BY <1>2, <1>3, <1>4, <1>5, <1>6 DEF PipelineNext

LEMMA StageInvInit == PipelineInit => StageInv
  BY FS_EmptySet DEF PipelineInit, Start, LayoutInit, StageInv

\* No two definitions of a linked program have a symbol in common.
LEMMA SymbolsApart ==
    ASSUME StageInv, LayoutType, ~Clash,
           NEW d \in Definitions, NEW e \in Definitions, d[1] = e[1]
    PROVE  d = e
  <1> DEFINE L == {c \in DOMAIN layouts : layouts[c].static_size > 0}
             D == {<<Symbol(m), m>> : m \in lowered}
             E == {<<Storage(c), c>> : c \in L}
             N == {g[1] : g \in Definitions}
  <1>1. IsFiniteSet(D)
    <2>1. [m \in lowered |-> <<Symbol(m), m>>] \in Surjection(lowered, D)
      BY DEF Surjection
    <2> QED BY <2>1, FS_Surjection DEF StageInv
  <1>2. IsFiniteSet(E)
    <2>1. layouts \in Seq(LayoutSet) /\ Len(layouts) \in Nat
      BY DEF LayoutType
    <2>2. DOMAIN layouts = 1 .. Len(layouts)
      BY <2>1
    <2>3. IsFiniteSet(DOMAIN layouts)
      BY <2>1, <2>2, FS_Interval
    <2>4. IsFiniteSet(L)
      BY <2>3, FS_Subset
    <2>5. [c \in L |-> <<Storage(c), c>>] \in Surjection(L, E)
      BY DEF Surjection
    <2> QED BY <2>4, <2>5, FS_Surjection
  <1>3. Definitions = D \cup E
    BY DEF Definitions
  <1>4. IsFiniteSet(Definitions)
    BY <1>1, <1>2, <1>3, FS_Union
  <1> DEFINE f == [g \in Definitions |-> g[1]]
  <1>5. f \in Surjection(Definitions, N)
    BY DEF Surjection
  <1>6. Cardinality(N) = Cardinality(Definitions)
    BY DEF Clash
  <1>7. f \in Injection(Definitions, N)
    BY <1>4, <1>5, <1>6, FS_Surjection
  <1>8. \A g, h \in Definitions : f[g] = f[h] => g = h
    BY <1>7 DEF Injection, IsInjective
  <1> QED BY <1>8

-----------------------------------------------------------------------------
(* The invariant of the pipeline.                                          *)

PipelineInv ==
    /\ JarInv /\ ScanInv /\ ReportInv
    /\ ClosureInv /\ OrderInv /\ ScheduleInv
    /\ ModelInv /\ ShapeInv /\ StageInv

LEMMA PipelineInvInit == PipelineInit => PipelineInv
  <1> SUFFICES ASSUME PipelineInit PROVE PipelineInv
    OBVIOUS
  <1>1. JarInv /\ Start /\ ScanInit /\ ModelInit
    BY PipelineJar, PipelineLaysOut DEF PipelineInit
  <1>2. JarType /\ prog \in Program /\ Resolvable
    BY <1>1, JarFacts
  <1>3. ScanInv
    BY <1>1, <1>2, ScanInvInit
  <1>4. ClosureInv /\ OrderInv /\ ScheduleInv
    BY <1>1, <1>2, ClosureAssumption, ClosureInit, OrderInit, ScheduleInit
  <1> QED BY <1>1, <1>3, <1>4, ReportInvInit, StageInvInit, ModelInvInit, ShapeInit
          DEF PipelineInv

LEMMA PipelineInvStep == PipelineInv /\ [PipelineNext]_pipelineVars => PipelineInv'
  <1> SUFFICES ASSUME PipelineInv, [PipelineNext]_pipelineVars PROVE PipelineInv'
    OBVIOUS
  <1> USE DEF PipelineInv
  <1>1. [Next]_vars /\ [ModelNext]_modelVars
    BY PipelineStepsClosure, PipelineStepsLayout
  <1>2. JarInv' /\ ScanInv'
    BY JarInvStep, PipelineScans
  <1>3. ReportInv' /\ StageInv'
    BY ReportInvStep, StageInvStep
  <1>4. ClosureInv' /\ OrderInv' /\ ScheduleInv'
    BY <1>1, ClosureAssumption, ClosureInvStep, OrderInvStep, ScheduleInvStep
  <1>5. ModelInv' /\ ShapeInv'
    BY <1>1, ModelInvStep, ShapeInvStep
  <1> QED BY <1>2, <1>3, <1>4, <1>5

LEMMA PipelineInvTypes == PipelineInv => PipelineTypeOK
  <1> SUFFICES ASSUME PipelineInv PROVE PipelineTypeOK
    OBVIOUS
  <1> USE DEF PipelineInv
  <1>1. /\ scan \in {"scan", "lower", "done", "failed"}
        /\ graph.classes \subseteq Classes /\ graph.methods \subseteq Declared
        /\ pending \subseteq graph.methods
    BY DEF ScanInv, ScanType, GraphSet
  <1>2. reported \subseteq graph.methods /\ diagnostics \subseteq graph.methods \ reported
    BY DEF ReportInv
  <1>3. /\ phase \in {"lower", "order", "done", "failed"} /\ queue \cup lowered \subseteq Methods
        /\ visited \subseteq clinits /\ clinits \subseteq Classes
        /\ stack \in Seq([class : Classes, todo : SUBSET Classes]) /\ order \in Seq(Classes)
    BY DEF OrderInv, ClosureType, FrameSet, Program
  <1>4. /\ DOMAIN slots \subseteq 1 .. next - 1 /\ at \in Nat \ {0} /\ Len(layouts) = at - 1
        /\ layouts \in Seq(LayoutSet) /\ classes \in Seq(ClassFile)
    BY DEF ModelInv, LayoutType
  <1>5. model \in {"laying", "ready", "failed"} /\ at <= Len(classes) + 1
    BY DEF ShapeInv
  <1>6. DOMAIN layouts = 1 .. at - 1 /\ DOMAIN classes = 1 .. Len(classes) /\ Len(classes) \in Nat
    BY <1>4
  <1>7. DOMAIN layouts \subseteq Classes
    <2>1. 1 .. at - 1 \subseteq 1 .. Len(classes)
      BY <1>4, <1>5, <1>6
    <2> QED BY <2>1, <1>6, JarFacts
  <1>8. used \in 0 .. HeapBytes
    BY HeapAssumption DEF ModelInv, HeapInv, HeapAssumption
  <1>9. object \in {"none", "linked", "failed"}
    BY DEF StageInv
  <1>10. at \in 1 .. Len(classes) + 1
    BY <1>4, <1>5, <1>6
  <1> QED BY <1>1, <1>2, <1>3, <1>4, <1>5, <1>7, <1>8, <1>9, <1>10 DEF PipelineTypeOK

\* A symbol of a linked program has one meaning.
LEMMA OneMeaning ==
    ASSUME PipelineInv, object = "linked", NEW d \in Definitions
    PROVE  {e[2] : e \in {e \in symbols : e[1] = d[1]}} = {d[2]}
  <1>1. symbols = Definitions /\ ~Clash
    BY DEF PipelineInv, StageInv, Emittable
  <1>2. \A e \in Definitions : e[1] = d[1] => e = d
    BY <1>1, SymbolsApart DEF PipelineInv, ModelInv
  <1> QED BY <1>1, <1>2

\* A field that can be accessed has one slot, of its kind; it is the field's own if no
\* other of the class has the name.
LEMMA OneSlot ==
    ASSUME PipelineInv, NEW i, i.class \in DOMAIN layouts, SlotsOf(i) # {}
    PROVE  \E k \in DOMAIN layouts[i.class].slots : Meant(i, k)
  <1> DEFINE named == {k \in DOMAIN layouts[i.class].slots :
                         /\ classes[i.class].fields[k].name = i.member
                         /\ classes[i.class].fields[k].static = (i.kind = "static")}
  <1>1. SlotsOf(i) = Last(named)
    BY DEF SlotsOf
  <1>2. PICK k \in named : \A j \in named : j <= k
    BY <1>1 DEF Last
  <1>3. i.class \in Classes /\ DOMAIN layouts[i.class].slots \subseteq DOMAIN classes[i.class].fields
    BY PipelineInvTypes DEF PipelineInv, ShapeInv, PipelineTypeOK
  <1>4. DOMAIN classes[i.class].fields \subseteq Nat
    <2>1. classes[i.class] \in ClassFile
      BY <1>3, JarFacts DEF PipelineInv
    <2>2. classes[i.class].fields \in Seq(FieldInfo)
      BY <2>1 DEF ClassFile, FieldInfo
    <2> QED BY <2>2
  <1>5. SlotsOf(i) = {k}
    <2>1. k \in SlotsOf(i)
      BY <1>1, <1>2 DEF Last
    <2>2. ASSUME NEW j \in SlotsOf(i) PROVE j = k
      <3>1. j \in named /\ k <= j
        BY <1>1, <1>2 DEF Last
      <3>2. j <= k /\ j \in Nat /\ k \in Nat
        BY <3>1, <1>2, <1>3, <1>4
      <3> QED BY <3>1, <3>2
    <2> QED BY <2>1, <2>2
  <1>6. classes[i.class].fields[k].type = i.type \/ Overloaded(i)
    BY <1>2, <1>3 DEF Overloaded
  <1> QED BY <1>2, <1>5, <1>6 DEF Meant, IsStatic

\* The storage of a class exists if a field of it does.
LEMMA StorageExists ==
    ASSUME PipelineInv, NEW c \in DOMAIN layouts, NEW k \in DOMAIN layouts[c].slots,
           IsStatic(c, k)
    PROVE  layouts[c].static_size > 0
  <1>1. layouts[c] \in LayoutSet
    BY DEF PipelineInv, ModelInv, LayoutType
  <1>2. layouts[c].slots[k] \in Slot /\ layouts[c].static_size \in Nat
    BY <1>1 DEF LayoutSet, Slots
  <1>3. Ends(layouts[c].slots[k]) <= layouts[c].static_size
    BY DEF PipelineInv, ModelInv, FieldsApart
  <1> QED BY <1>2, <1>3 DEF Ends, Slot

\* The stub calls the initializers in their order and then main.
LEMMA StartupIs ==
    ASSUME PipelineInv
    PROVE  /\ Startup[Len(Startup)] = Symbol(Entry)
           /\ \A i \in DOMAIN order : Startup[i] = Symbol(<<order[i], Clinit>>)
  <1> DEFINE calls == [i \in DOMAIN order |-> Symbol(<<order[i], Clinit>>)]
             S == {Symbol(<<order[i], Clinit>>) : i \in DOMAIN order} \cup {Symbol(Entry)}
             n == Len(order)
             e == Symbol(Entry)
  <1>1. n \in Nat /\ DOMAIN order = 1 .. n
    BY DEF PipelineInv, OrderInv, ClosureType
  <1>2. calls \in [1 .. n -> S] /\ e \in S
    BY <1>1
  <1>3. \A i \in DOMAIN order : calls[i] = Symbol(<<order[i], Clinit>>)
    OBVIOUS
  <1>4. Startup = calls \o <<e>>
    BY DEF Startup
  <1> HIDE DEF calls, S, e, n
  <1>5. calls \in Seq(S) /\ Len(calls) = n /\ <<e>> \in Seq(S) /\ Len(<<e>>) = 1
    BY <1>1, <1>2
  <1>6. Len(Startup) = n + 1 /\ Startup[n + 1] = e /\ \A i \in 1 .. n : Startup[i] = calls[i]
    BY <1>1, <1>4, <1>5
  <1> QED BY <1>1, <1>3, <1>6 DEF e

LEMMA PipelineInvLinks == PipelineInv => LinksAsMeant
  <1> DEFINE meanings(s) == {d[2] : d \in {d \in symbols : d[1] = s}}
  <1> SUFFICES ASSUME PipelineInv, object = "linked"
               PROVE  /\ Startup[Len(Startup)] = Symbol(Entry)
                      /\ meanings(Symbol(Entry)) = {Entry}
                      /\ \A i \in DOMAIN order : meanings(Startup[i]) = {<<order[i], Clinit>>}
                      /\ \A m \in lowered : \A i \in Live(m) :
                           /\ i.kind = "call" =>
                                meanings(Symbol(<<i.class, i.member>>)) = {<<i.class, i.member>>}
                           /\ i.kind \in {"static", "field"} =>
                                \E k \in DOMAIN layouts[i.class].slots : Meant(i, k)
                           /\ i.kind = "static" => meanings(Storage(i.class)) = {i.class}
    BY DEF LinksAsMeant
  <1>1. phase = "done" /\ Emittable
    BY DEF PipelineInv, StageInv
  <1>2. \A d \in Definitions : meanings(d[1]) = {d[2]}
    BY OneMeaning
  <1> HIDE DEF meanings
  <1>3. \A m \in lowered : meanings(Symbol(m)) = {m}
    <2>1. \A m \in lowered : <<Symbol(m), m>> \in Definitions
      BY DEF Definitions
    <2> QED BY <1>2, <2>1
  <1>4. Known = lowered
    BY <1>1 DEF PipelineInv, ClosureInv, Known
  <1>5. Entry \in lowered
    BY <1>4 DEF PipelineInv, ClosureInv, Covered, Roots
  <1>6. \A i \in DOMAIN order : <<order[i], Clinit>> \in lowered
    <2>1. \A i \in DOMAIN order : order[i] \in clinits
      BY <1>1, OrderIsComplete DEF PipelineInv, InOrder
    <2> QED BY <1>4, <2>1 DEF PipelineInv, ClosureInv, Covered, Initializers
  <1>7. ASSUME NEW m \in lowered, NEW i \in Live(m)
        PROVE  /\ i.kind = "call" =>
                    meanings(Symbol(<<i.class, i.member>>)) = {<<i.class, i.member>>}
               /\ i.kind \in {"static", "field"} =>
                    \E k \in DOMAIN layouts[i.class].slots : Meant(i, k)
               /\ i.kind = "static" => meanings(Storage(i.class)) = {i.class}
    <2>1. CanEmit(i)
      BY <1>1 DEF Emittable
    <2>2. i.kind = "call" => <<i.class, i.member>> \in lowered
      BY <2>1 DEF CanEmit
    <2>3. i.kind \in {"static", "field"} => i.class \in DOMAIN layouts /\ SlotsOf(i) # {}
      BY <2>1 DEF CanEmit
    <2>4. i.kind \in {"static", "field"} =>
            \E k \in DOMAIN layouts[i.class].slots : Meant(i, k)
      BY <2>3, OneSlot
    <2>5. ASSUME i.kind = "static"
          PROVE  meanings(Storage(i.class)) = {i.class}
      <3>1. PICK k \in DOMAIN layouts[i.class].slots : IsStatic(i.class, k)
        BY <2>4, <2>5 DEF Meant
      <3>2. i.class \in DOMAIN layouts /\ layouts[i.class].static_size > 0
        BY <2>3, <2>5, <3>1, StorageExists
      <3>3. <<Storage(i.class), i.class>> \in Definitions
        BY <3>2 DEF Definitions
      <3> QED BY <1>2, <3>3
    <2> QED BY <1>3, <2>2, <2>4, <2>5
  <1> QED BY <1>3, <1>5, <1>6, <1>7, StartupIs

-----------------------------------------------------------------------------
LEMMA PipelineInvariant == PipelineSpec => []PipelineInv
  BY PipelineInvInit, PipelineInvStep, PTL DEF PipelineSpec

\* For every JAR: every initializer that was compiled runs, once, and after those
\* it uses directly unless they need it in turn (clinit_run_order).
THEOREM PipelineInitializersInOrder == PipelineSpec => []InitializersInOrder
  <1>1. PipelineInv => InitializersInOrder
    BY PipelineInvTypes, RunsOnce, OrderInvFirst DEF PipelineInv, InitializersInOrder
  <1> QED BY <1>1, PipelineInvariant, PTL

\* For every JAR the report is exact, what the compiler puts in the binary is in
\* it, and a report without a diagnostic means that only a call out of the JAR can
\* make the compilation fail (CompilerPipeline::run, lower_static_int_closure).
THEOREM PipelineReportIsTrue == PipelineSpec => []ReportIsTrue
  <1>1. PipelineInv => ReportIsTrue
    BY ReportInvTrue DEF PipelineInv
  <1> QED BY <1>1, PipelineInvariant, PTL

\* For every JAR, in a program that has been linked every call reaches the method
\* it names, however names are spelled in symbols (exported_symbol), and every field
\* access one slot of its class and kind, that of the field it names unless the class
\* has two of that name and kind (ClassLayout::field, ClassLayout::static_field).
THEOREM PipelineLinksAsMeant == PipelineSpec => []LinksAsMeant
  BY PipelineInvLinks, PipelineInvariant, PTL
=============================================================================
