------------------------------ MODULE Reachability ------------------------------
(***************************************************************************)
(* The report of the compiler: what can be reached from main, found by     *)
(* scanning bytecode (reachability.rs), and which of it can be lowered     *)
(* (CompilerPipeline::run).  It is a second worklist beside the one of     *)
(* CompileClosure, which scans lowered code, and the two must agree.       *)
(*                                                                         *)
(* The scan looks at every instruction of a method; the lowering only at   *)
(* those its blocks hold, the live ones.  Instruction operands are classes *)
(* and members; an instruction without a part in either is left out.       *)
(***************************************************************************)
EXTENDS CompileClosure

CONSTANT SortedMethods      \* Methods, in the order of their names

\* "array" is of references to the class, "cast" is checkcast or instanceof, and
\* "refused" any other instruction that calls, wide, a table switch or
\* Class.forName, all of which the scan refuses.  The access to a field also has the
\* field's type, its descriptor, and the classes that type names.
Instruction == [kind : {"call", "new", "array", "cast", "static", "field", "refused"},
                class : Nat, member : STRING, type : STRING, names : SUBSET Nat,
                live : BOOLEAN]

\* A field is a class, a name and a type.
FieldNode(i) == <<i.class, i.member, i.type>>

\* Of a method, with the classes its descriptor names.
MethodInfo == [static : BOOLEAN, descriptor : SUBSET Nat, code : SUBSET Instruction]

ASSUME SortedAssumption ==
    /\ SortedMethods \in Seq(Methods)
    /\ \A m \in Methods : \E i \in DOMAIN SortedMethods : SortedMethods[i] = m

VARIABLES
    methods,    \* the MethodInfo of each method the classes of the JAR declare
    mentions,   \* the classes the descriptors of the fields of each class name
    scan,       \* "scan", "lower", "done", or "failed": no report
    graph,      \* the reachable [classes, methods, fields]
    pending,    \* reachable methods to scan
    reported,   \* the methods the report lists as lowered
    diagnostics \* those it says cannot be: the first one, or none

jarVars  == <<methods, mentions>>
scanVars == <<scan, graph, pending, reported, diagnostics>>

-----------------------------------------------------------------------------
Declared == DOMAIN methods

\* find_method, and the check that the method is static; class initializers are.
CanEnqueue(m) == m \in Declared /\ methods[m].static

\* mark_class, and through the types of fields what it marks in turn: every
\* class of the JAR that cs lead to.
Marked(cs) ==
    {c \in Classes :
       \A S \in SUBSET Classes :
         (cs \cap Classes \subseteq S /\ \A d \in S : mentions[d] \cap Classes \subseteq S)
           => c \in S}

\* Mutant: a class is marked without its initializer.
WithoutInitializers(cs) == {}

WithInitializers(cs) == Initializers(cs) \cap Declared

\* The graph with the methods ms, classes cs and fields fs, and all they mark.
Grown(ms, cs, fs) ==
    LET marked == graph.classes
                  \cup Marked(cs \cup {m[1] : m \in ms} \cup UNION {methods[m].descriptor : m \in ms})
    IN  [classes |-> marked,
         methods |-> graph.methods \cup ms \cup WithInitializers(marked \ graph.classes),
         fields  |-> graph.fields \cup fs]

Grow(ms, cs, fs, done) ==
    /\ graph' = Grown(ms, cs, fs)
    /\ pending' = (pending \cup (graph'.methods \ graph.methods)) \ done

ScanInit ==
    /\ scan = "scan" /\ pending = {} /\ reported = {} /\ diagnostics = {}
    /\ graph = [classes |-> {}, methods |-> {}, fields |-> {}]

NoReport ==
    /\ scan' = "failed"
    /\ UNCHANGED <<graph, pending, reported, diagnostics>>

\* analyze_main: the first call of enqueue_method.
ScanEntry ==
    /\ scan = "scan" /\ graph.methods = {}
    /\ IF CanEnqueue(Entry)
       THEN /\ Grow({Entry}, {}, {}, {})
            /\ UNCHANGED <<scan, reported, diagnostics>>
       ELSE NoReport

Instrs(m, kinds) == {i \in methods[m].code : i.kind \in kinds}

\* Calls into the JAR; others are ignored.
AppCalls(m) == {<<i.class, i.member>> : i \in {i \in Instrs(m, {"call"}) : i.class \in Classes}}

\* Mutant: only accesses to fields of objects.
FieldUsesOfObjects(m) == Instrs(m, {"field"})

FieldUses(m) == Instrs(m, {"field", "static"})

\* The classes scan_method marks, those in the types of fields among them.
ScannedClasses(m) ==
    {i.class : i \in Instrs(m, {"new", "array", "cast"}) \cup FieldUses(m)}
    \cup methods[m].descriptor \cup UNION {i.names : i \in FieldUses(m)}

Unreadable(m) ==
    Instrs(m, {"refused"}) # {} \/ \E callee \in AppCalls(m) : ~CanEnqueue(callee)

\* One round of the loop: scan_method.
Scan ==
    /\ scan = "scan"
    /\ \E m \in pending :
         IF Unreadable(m) THEN NoReport
         ELSE /\ Grow(AppCalls(m), ScannedClasses(m),
                      {FieldNode(i) : i \in {i \in FieldUses(m) : i.class \in Classes}}, {m})
              /\ UNCHANGED <<scan, reported, diagnostics>>

Scanned ==
    /\ scan = "scan" /\ graph.methods # {} /\ pending = {}
    /\ scan' = "lower"
    /\ UNCHANGED <<graph, pending, reported, diagnostics>>

\* The positions of the methods that cannot be lowered.  Mutant: initializers
\* are not lowered.
RejectedButInitializers ==
    {i \in DOMAIN SortedMethods :
       SortedMethods[i] \in graph.methods \cap prog.rejected /\ SortedMethods[i][2] # Clinit}

Rejected == {i \in DOMAIN SortedMethods : SortedMethods[i] \in graph.methods \cap prog.rejected}

\* In the order of the graph, up to the first that cannot be lowered.
Report ==
    /\ scan = "lower"
    /\ LET upTo(n) == {SortedMethods[i] : i \in 1 .. n} \cap graph.methods IN
         IF Rejected = {}
         THEN reported' = graph.methods /\ diagnostics' = {}
         ELSE /\ reported' = upTo(Least(Rejected) - 1)
              /\ diagnostics' = {SortedMethods[Least(Rejected)]}
    /\ scan' = "done"
    /\ UNCHANGED <<graph, pending>>

ScanNext == ScanEntry \/ Scan \/ Scanned \/ Report

-----------------------------------------------------------------------------
\* What the report lists is closed: a class with the types of its fields and its
\* initializer, a method with what it calls, names and accesses.
ClosedReport(g) ==
    /\ \A c \in g.classes : /\ mentions[c] \cap Classes \subseteq g.classes
                            /\ <<c, Clinit>> \in Declared => <<c, Clinit>> \in g.methods
    /\ \A m \in g.methods :
         /\ m[1] \in g.classes
         /\ methods[m].descriptor \cap Classes \subseteq g.classes
         /\ \A i \in methods[m].code :
              /\ i.class \in Classes =>
                   /\ i.class \in g.classes
                   /\ i.kind = "call" => <<i.class, i.member>> \in g.methods
                   /\ i.kind \in {"static", "field"} => FieldNode(i) \in g.fields
              /\ i.kind \in {"static", "field"} => i.names \cap Classes \subseteq g.classes

\* The report is exactly what main needs: it is closed, and part of everything
\* that holds main and is closed.
ReportIsExact ==
    scan = "lower" =>
      /\ Entry \in graph.methods /\ ClosedReport(graph)
      /\ \A cs \in SUBSET graph.classes, ms \in SUBSET graph.methods :
           Entry \in ms /\ ClosedReport([graph EXCEPT !.classes = cs, !.methods = ms]) =>
             cs = graph.classes /\ ms = graph.methods
      /\ graph.fields = {FieldNode(i) :
                           i \in {i \in UNION {FieldUses(m) : m \in graph.methods} :
                                    i.class \in Classes}}
================================================================================
