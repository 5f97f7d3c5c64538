--------------------------- MODULE CompilerPipeline ---------------------------
(***************************************************************************)
(* The compiler path from a JAR to a program that runs: the report         *)
(* (CompilerPipeline::run), the closure of main and the order of class     *)
(* initializers, the object model, the object file (emit_objects) and the  *)
(* runtime stub it is linked with (compile_entry), and the heap of the     *)
(* program.  The report and the compilation are functions of the JAR that  *)
(* share nothing; here the report comes first.                             *)
(*                                                                         *)
(* What lowering makes of a method, the input of CompileClosure, is what   *)
(* its live instructions hold.                                             *)
(***************************************************************************)
EXTENDS Reachability, ObjectModel

CONSTANTS
    Worlds          \* families of JARs: [methods, mentions, classes,
                    \*  rejected : the methods lowering refuses,
                    \*  spelled : the spelling of classes and members in symbols]

\* In a symbol every character but letters and digits is "_": a spelling is the
\* words between these.  The name of a method stands for its descriptor too.
Spelling == [class : [Classes -> Seq(STRING)], member : [{m[2] : m \in Methods} -> Seq(STRING)]]

\* A JAR of the classes and methods considered.  No two fields of a class file
\* have both their names and their types in common.
IsJar(w) ==
    /\ w.classes \in Seq(ClassFile) /\ w.classes # <<>> /\ DOMAIN w.classes = Classes
    /\ \A c \in Classes : \A i, j \in DOMAIN w.classes[c].fields :
         /\ w.classes[c].fields[i].name = w.classes[c].fields[j].name
         /\ w.classes[c].fields[i].type = w.classes[c].fields[j].type
         => i = j
    /\ w.mentions \in [Classes -> SUBSET Nat]
    /\ DOMAIN w.methods \subseteq Methods \ External
    /\ w.methods \in [DOMAIN w.methods -> MethodInfo]
    /\ \A m \in DOMAIN w.methods : \A i \in w.methods[m].code :
         i.kind = "call" => <<i.class, i.member>> \in Methods
    /\ w.rejected \subseteq Methods
    /\ w.spelled \in Spelling

ASSUME WorldsAssumption ==
    \A family \in DOMAIN Worlds : \A k \in DOMAIN Worlds[family] : IsJar(Worlds[family][k])

VARIABLES
    spelled,    \* the Spelling of the JAR's names
    symbols,    \* what the object file defines: pairs of a symbol and its meaning
    object      \* "none", "linked", or "failed"

linkVars     == <<spelled, symbols, object>>
pipelineVars == <<vars, jarVars, scanVars, modelVars, linkVars>>

-----------------------------------------------------------------------------
LiveOf(w, m, kinds) ==
    IF m \in DOMAIN w.methods
    THEN {i \in w.methods[m].code : i.live /\ i.kind \in kinds}
    ELSE {}

\* The program CompileClosure sees; a method of the JAR that is not declared
\* cannot be resolved.
ProgramOf(w) ==
    [initialized |-> {c \in Classes : <<c, Clinit>> \in DOMAIN w.methods},
     calls |-> [m \in Methods |-> {<<i.class, i.member>> : i \in LiveOf(w, m, {"call"})}],
     uses  |-> [m \in Methods |->
                  {i.class : i \in LiveOf(w, m, {"new", "static"})} \cap Classes],
     rejected |-> w.rejected \cup (Methods \ (External \cup DOMAIN w.methods))]

PipelineInit ==
    /\ \E family \in DOMAIN Worlds : \E k \in DOMAIN Worlds[family] :
         LET w == Worlds[family][k] IN
         /\ prog = ProgramOf(w)
         /\ methods = w.methods /\ mentions = w.mentions
         /\ classes = w.classes /\ spelled = w.spelled
    /\ Start
    /\ ScanInit
    /\ LayoutInit
    /\ symbols = {} /\ object = "none"

ReportStep == ScanNext /\ UNCHANGED <<vars, jarVars, modelVars, linkVars>>

CompileStep ==
    /\ scan \in {"done", "failed"}
    /\ Lower \/ Reject \/ Lowered \/ Visit \/ Descend \/ Return \/ Ordered
    /\ UNCHANGED <<jarVars, scanVars, modelVars, linkVars>>

LayoutStep ==
    phase = "done" /\ LayoutNext /\ UNCHANGED <<vars, jarVars, scanVars, linkVars>>

-----------------------------------------------------------------------------
(* emit_objects and the runtime stub.                                      *)

Live(m) == {i \in methods[m].code : i.live}

\* A class keeps its slots by the names of their fields, one map for each kind: of
\* two fields of one name and kind the later takes the earlier's entry, and the
\* type of an access is not looked at.  Mutant: one map for both kinds.
Last(ks) == {k \in ks : \A j \in ks : j <= k}

AnySlots(i) ==
    Last({k \in DOMAIN layouts[i.class].slots : classes[i.class].fields[k].name = i.member})

\* The field of an access, by its number.
SlotsOf(i) ==
    Last({k \in DOMAIN layouts[i.class].slots :
            LET f == classes[i.class].fields[k] IN
            f.name = i.member /\ f.static = (i.kind = "static")})

\* No arm of lower_instr takes a checkcast or an instanceof.
CanEmit(i) ==
    CASE i.kind = "new"                 -> i.class \in DOMAIN layouts
      [] i.kind = "cast"                -> FALSE
      [] i.kind \in {"static", "field"} -> i.class \in DOMAIN layouts /\ SlotsOf(i) # {}
      [] i.kind = "call"                -> <<i.class, i.member>> \in lowered
      [] OTHER                          -> TRUE

\* exported_symbol and static_storage_symbol: class and method, joined by a dot, are
\* flattened together.
Symbol(m)  == <<"fvm", "aot">> \o spelled.class[m[1]] \o spelled.member[m[2]]
Storage(c) == <<"fvm", "statics">> \o spelled.class[c]

Definitions ==
    {<<Symbol(m), m>> : m \in lowered}
    \cup {<<Storage(c), c>> : c \in {c \in DOMAIN layouts : layouts[c].static_size > 0}}

\* Defining a symbol again is an error of the backend.
Clash == Cardinality({d[1] : d \in Definitions}) # Cardinality(Definitions)

Emittable == ~Clash /\ \A m \in lowered : \A i \in Live(m) : CanEmit(i)

Emit ==
    /\ model = "ready" /\ object = "none"
    /\ IF Emittable THEN object' = "linked" /\ symbols' = Definitions
                    ELSE object' = "failed" /\ UNCHANGED symbols
    /\ UNCHANGED <<vars, jarVars, scanVars, modelVars, spelled>>

\* What main of the runtime stub calls, in order.
Startup == [i \in DOMAIN order |-> Symbol(<<order[i], Clinit>>)] \o <<Symbol(Entry)>>

\* The program runs and allocates.
Run ==
    /\ object = "linked"
    /\ Alloc
    /\ UNCHANGED <<vars, jarVars, scanVars, linkVars>>

Stopped ==
    /\ phase = "failed" \/ model = "failed" \/ object \in {"failed", "linked"}
    /\ UNCHANGED pipelineVars

PipelineNext == ReportStep \/ CompileStep \/ LayoutStep \/ Emit \/ Run \/ Stopped

PipelineSpec ==
    PipelineInit /\ [][PipelineNext]_pipelineVars /\ WF_pipelineVars(PipelineNext)

-----------------------------------------------------------------------------
\* Every variable stays in its type; the JAR is what it was.
PipelineTypeOK ==
    /\ scan \in {"scan", "lower", "done", "failed"}
    /\ graph.classes \subseteq Classes /\ graph.methods \subseteq Declared
    /\ pending \subseteq graph.methods /\ reported \subseteq graph.methods
    /\ diagnostics \subseteq graph.methods \ reported
    /\ phase \in {"lower", "order", "done", "failed"}
    /\ queue \cup lowered \subseteq Methods
    /\ visited \subseteq clinits /\ clinits \subseteq Classes
    /\ stack \in Seq([class : Classes, todo : SUBSET Classes]) /\ order \in Seq(Classes)
    /\ model \in {"laying", "ready", "failed"} /\ at \in 1 .. Len(classes) + 1
    /\ DOMAIN slots \subseteq 1 .. next - 1
    /\ DOMAIN layouts \subseteq Classes /\ used \in 0 .. HeapBytes
    /\ object \in {"none", "linked", "failed"}

\* Initializers run once each, after those they use.
InitializersInOrder == PipelineTypeOK /\ EachInitializerRunsOnce /\ DependenciesFirst

\* The two worklists agree: what the compiler puts in the binary is in the report,
\* methods, the classes whose code or storage it uses, and fields; a report without a
\* diagnostic lists every method of the binary as lowered.
BinaryIsReported ==
    scan = "done" /\ phase \in {"order", "done"} =>
      /\ lowered \subseteq graph.methods
      /\ diagnostics = {} => lowered \subseteq reported
      /\ \A m \in lowered : Referenced(m) \subseteq graph.classes
      /\ \A m \in lowered : \A i \in Live(m) :
           i.kind \in {"static", "field"} /\ i.class \in Classes =>
             FieldNode(i) \in graph.fields

\* After a report without a diagnostic only a call out of the JAR, which the report
\* passes over, makes the closure fail.
CleanReportCompiles ==
    scan = "done" /\ diagnostics = {} /\ phase = "failed" =>
      \E m \in queue : m \in graph.methods /\ Called(m) \cap External # {}

\* The report is exact, and tells what the compiler will do.
ReportIsTrue == ReportIsExact /\ BinaryIsReported /\ CleanReportCompiles

\* Another field of the class has the name and the kind, and another type.
Overloaded(i) ==
    \E k \in DOMAIN classes[i.class].fields :
      LET f == classes[i.class].fields[k] IN
      f.name = i.member /\ f.static = (i.kind = "static") /\ f.type # i.type

\* The slot an access takes is k, and k is of the field it means.
Meant(i, k) ==
    /\ SlotsOf(i) = {k} /\ IsStatic(i.class, k) = (i.kind = "static")
    /\ classes[i.class].fields[k].name = i.member
    /\ classes[i.class].fields[k].type = i.type \/ Overloaded(i)

\* In a linked program every call, of the stub too, reaches the method it names, and
\* every field access one slot of its own class and kind, in storage that exists, and
\* it is the slot of the field it names unless the class has two of that name and kind.
LinksAsMeant ==
    object = "linked" =>
      LET meanings(s) == {d[2] : d \in {d \in symbols : d[1] = s}} IN
      /\ Startup[Len(Startup)] = Symbol(Entry) /\ meanings(Symbol(Entry)) = {Entry}
      /\ \A i \in DOMAIN order : meanings(Startup[i]) = {<<order[i], Clinit>>}
      /\ \A m \in lowered : \A i \in Live(m) :
           /\ i.kind = "call" => meanings(Symbol(<<i.class, i.member>>)) = {<<i.class, i.member>>}
           /\ i.kind \in {"static", "field"} =>
                \E k \in DOMAIN layouts[i.class].slots : Meant(i, k)
           /\ i.kind = "static" => meanings(Storage(i.class)) = {i.class}
================================================================================
