-------------------------- MODULE CompilerPipelineMC --------------------------
(* Instances of CompilerPipeline for TLC: families of small JARs. *)
EXTENDS CompilerPipeline, TLC

MCClasses == {1, 2, 3}
main      == <<1, "main">>
help      == <<2, "help">>
area      == <<3, "area">>
gone      == <<2, "gone">>
twin      == <<2, "_clinit_">>
outside   == <<9, "println">>
init(c)   == <<c, Clinit>>

\* In the order of their names, as strings of bytes.
MCSorted  == <<init(1), main, init(2), twin, gone, help, init(3), area, outside>>
MCMethods == {MCSorted[i] : i \in DOMAIN MCSorted}

Access(kind, class, name, type, names) ==
    [kind |-> kind, class |-> class, member |-> name, type |-> type, names |-> names,
     live |-> TRUE]
Instr(kind, class, member) == Access(kind, class, member, "", {})
call(m)   == Instr("call", m[1], m[2])
static(c) == Access("static", c, "s", "4", {})
new(c)    == Instr("new", c, "")
dead(i)   == [i EXCEPT !.live = FALSE]

Method(code)  == [static |-> TRUE, descriptor |-> {}, code |-> code]
Typed(n, t, st, w) == [name |-> n, type |-> t, static |-> st, width |-> w]
FieldOf(n, st, w)  == Typed(n, ToString(w), st, w)
Class(fields)      == [super |-> "Object", fields |-> fields]
Plain              == [class  |-> [c \in MCClasses |-> <<ToString(c)>>],
                       member |-> [n \in {m[2] : m \in MCMethods} |->
                                     IF n \in {Clinit, twin[2]} THEN <<"", "clinit", "">> ELSE <<n>>]]
NoTypes       == [c \in MCClasses |-> {}]
OneStatic     == [c \in MCClasses |-> Class(<<FieldOf("s", TRUE, 4)>>)]

Small(S, n) == {s \in SUBSET S : Cardinality(s) <= n}

World(ms, types, cs, no, names) ==
    [methods |-> ms, mentions |-> types, classes |-> cs, rejected |-> no, spelled |-> names]

\* help is called by main or by the initializers of 1 and 2, and uses at most one
\* class, as each initializer does.
Helper == LET first == {init(1), init(2)}
              users == {help, init(1), init(2), init(3)}
          IN [k \in [main : {{}, {help}},
                     calls : [first -> {{}, {help}}], uses : [users -> Small(MCClasses, 1)]] |->
                LET ms == {main, help} \cup {init(c) : c \in MCClasses}
                    calls(m) == IF m = main THEN k.main
                                ELSE IF m \in first THEN k.calls[m] ELSE {}
                    uses(m)  == IF m = main THEN {} ELSE k.uses[m]
                IN World([m \in ms |-> Method({call(n) : n \in calls(m)}
                                              \cup {static(c) : c \in uses(m)})],
                         NoTypes, OneStatic, {}, Plain)]

\* Initializers that use any classes, and main that uses one.
Initializers3 ==
    [u \in [MCClasses -> SUBSET MCClasses] |->
       World(main :> Method({new(2)})
             @@ [m \in {init(c) : c \in MCClasses} |-> Method({new(c) : c \in u[m[1]]})],
             NoTypes, [c \in MCClasses |-> Class(<<>>)], {}, Plain)]

\* main holds at most two instructions of every kind, and help at most one.
Pool == {call(help), dead(call(help)), call(area), call(gone), call(outside),
         new(2), dead(new(3)), new(9), static(2), dead(static(3)),
         Access("field", 3, "f", "8", {2}), Access("static", 3, "f", "8", {2}),
         Instr("cast", 2, ""), dead(Instr("cast", 3, "")),
         Instr("array", 2, ""), dead(Instr("refused", 9, ""))}

Instructions ==
    [k \in [main : Small(Pool, 2),
            help : {{}, {call(help)}, {dead(static(3))}, {static(3)}},
            types : {<<{}, {}>>, <<{3, 9}, {}>>, <<{}, {3}>>},
            rejected : {{}, {init(2)}}] |->
       World((main :> Method(k.main)) @@ (init(2) :> Method({})) @@ (init(3) :> Method({}))
             @@ (help :> [Method(k.help) EXCEPT !.descriptor = k.types[2]])
             @@ (area :> [Method({}) EXCEPT !.static = FALSE]),
             [NoTypes EXCEPT ![2] = k.types[1]],
             [OneStatic EXCEPT ![3].fields = @ \o <<FieldOf("f", FALSE, 8)>>],
             k.rejected, Plain)]

\* Access to the fields that have storage.
AccessAll(c, fields) ==
    {Access(IF f.static THEN "static" ELSE "field", c, f.name, f.type, {}) :
        f \in {fields[i] : i \in {i \in DOMAIN fields : fields[i].width # 0}}}

\* Two or three fields, some of one name.
Overloads ==
    [k \in [name : {"a", "b"}, static : [1 .. 3 -> BOOLEAN], width : [1 .. 2 -> {0, 4, 8}]] |->
       LET fields == <<Typed("a", "first", k.static[1], k.width[1]),
                       Typed("a", "second", k.static[2], k.width[2]),
                       Typed(k.name, "third", k.static[3], 4)>> IN
       World(main :> Method({new(2)} \cup AccessAll(2, fields)),
             NoTypes, [OneStatic EXCEPT ![2].fields = fields], {}, Plain)]

\* Fields of every kind, placed in any order, and an access to each of them.
Names == <<"a", "b", "c", "d">>
Fields4 ==
    [fs \in UNION {[1 .. n -> [static : BOOLEAN, width : {0, 4, 8}]] : n \in 0 .. 3}
            \cup [1 .. 4 -> [static : BOOLEAN, width : {4, 8}]] |->
       LET fields == [i \in DOMAIN fs |-> FieldOf(Names[i], fs[i].static, fs[i].width)] IN
       World(main :> Method({new(2)} \cup AccessAll(2, fields)),
             NoTypes, [OneStatic EXCEPT ![2].fields = fields], {}, Plain)]

\* Superclasses, and names that differ only where symbols do not: 2 and 3 as a
\* class may be spelled alike, twin as an initializer, and "b_area" of 2 as area of "2_b".
Alike ==
    [k \in [super : {"Object", "other"}, two : {<<"1">>, <<"2">>},
            three : {<<"2">>, <<"3">>, <<"2", "b">>}, help : {<<"help">>, <<"b", "area">>},
            twin : BOOLEAN, area : BOOLEAN, statics : BOOLEAN] |->
       LET called == {help} \cup (IF k.twin THEN {twin} ELSE {}) \cup (IF k.area THEN {area} ELSE {})
       IN  World([m \in {main, init(2), init(3)} \cup called |->
                    Method(IF m = main THEN {call(n) : n \in called} \cup {new(3)} ELSE {})],
             NoTypes,
             [c \in MCClasses |->
                [Class(IF k.statics THEN <<FieldOf("s", TRUE, 4)>> ELSE <<>>)
                   EXCEPT !.super = IF c = 3 THEN k.super ELSE @]],
             {}, [Plain EXCEPT !.class[2] = k.two, !.class[3] = k.three,
                               !.member["help"] = k.help])]

MCWorlds   == <<Helper, Initializers3, Instructions, Overloads, Fields4, Alike>>
MCPrograms == UNION {{ProgramOf(MCWorlds[f][k]) : k \in DOMAIN MCWorlds[f]} : f \in DOMAIN MCWorlds}

\* An array of one boolean, and of one reference.
MCAllocSizes == {ARRAY_ELEMENTS_OFFSET + 1, ARRAY_ELEMENTS_OFFSET + REFERENCE_BYTES}
===============================================================================
