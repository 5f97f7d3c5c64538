--------------------------- MODULE CompileClosure ---------------------------
(***************************************************************************)
(* lower_static_int_closure and clinit_run_order of                        *)
(* src/src/fvm_aot/compiler/static_int.rs: the methods the compiler path   *)
(* lowers for an entry method, and the order in which the class            *)
(* initializers among them run before it.                                  *)
(*                                                                         *)
(* A class is the number of its name in sorted order.  A method is its     *)
(* class and a name; what lowering makes of its body is the methods it     *)
(* calls and the classes it uses, in an order nothing here depends on.     *)
(***************************************************************************)
EXTENDS Naturals, Sequences, FiniteSets

CONSTANTS
    Classes,    \* the classes of the JAR
    Methods,    \* methods, those of other classes included
    Entry,      \* the method to compile
    Programs    \* the programs considered

Clinit == "<clinit>"
External == {m \in Methods : m[1] \notin Classes}

Program == [initialized : SUBSET Classes,          \* classes that declare <clinit>()V
            calls : [Methods -> SUBSET Methods],   \* static calls
            uses  : [Methods -> SUBSET Classes],   \* new, getstatic and putstatic
            rejected : SUBSET Methods]             \* what lowering cannot express

ASSUME ClosureAssumption ==
    /\ Classes \subseteq Nat
    /\ Methods \subseteq Nat \X STRING
    /\ \A c \in Classes : <<c, Clinit>> \in Methods
    /\ Entry \in Methods \ External
    /\ Programs \subseteq Program

VARIABLES
    prog,       \* the program; it does not change
    phase,      \* "lower", "order", "done" or "failed"
    queue,      \* methods to lower
    lowered,    \* methods lowered
    clinits,    \* classes whose <clinit> must run at startup
    visited,    \* classes visit_clinit has entered
    stack,      \* the calls of visit_clinit in progress: class, dependencies left
    order       \* classes in the order their <clinit> will run

vars == <<prog, phase, queue, lowered, clinits, visited, stack, order>>
lowerVars == <<queue, lowered, clinits>>
orderVars == <<visited, stack, order>>

-----------------------------------------------------------------------------
\* direct_static_calls, and referenced_app_classes: static-call targets, new
\* targets and owners of static fields.
Called(m)     == prog.calls[m]
Referenced(m) == {c[1] : c \in Called(m)} \cup prog.uses[m]

\* consider_class_init, for each of cs: the initializers newly scheduled.
Scheduled(cs) == {c \in cs : c \in prog.initialized /\ c \notin clinits}
Initializers(cs) == {<<c, Clinit>> : c \in cs}

\* Calling the entry is an active use of its class.
Start ==
    /\ phase = "lower"
    /\ clinits = {Entry[1]} \cap prog.initialized
    /\ queue = {Entry} \cup Initializers(clinits)
    /\ lowered = {}
    /\ visited = {} /\ stack = <<>> /\ order = <<>>

Init == prog \in Programs /\ Start

\* Mutant: only the classes of called methods are considered.
ToScheduleCalls(m) == Scheduled({c[1] : c \in Called(m)})

ToSchedule(m) == Scheduled(Referenced(m))

\* Methods still to lower.  Mutant: one met again is lowered again.
PendingAll(ms, done) == ms

Pending(ms, done) == ms \ done

\* A method that cannot be lowered, an entry that returns neither int nor void,
\* or a call out of the JAR, fails the whole compilation.
Fails(m) == m \in prog.rejected \/ Called(m) \cap External # {}

\* One round of the loop, the entry's first.
Lower ==
    /\ phase = "lower"
    /\ \E m \in queue :
         /\ lowered = {} => m = Entry
         /\ ~Fails(m)
         /\ lowered' = lowered \cup {m}
         /\ clinits' = clinits \cup ToSchedule(m)
         /\ queue' = Pending(queue \cup Called(m) \cup Initializers(ToSchedule(m)), lowered')
    /\ UNCHANGED <<prog, phase, orderVars>>

Reject ==
    /\ phase = "lower"
    /\ \E m \in queue : (lowered = {} => m = Entry) /\ Fails(m)
    /\ phase' = "failed"
    /\ UNCHANGED <<prog, lowerVars, orderVars>>

Lowered ==
    /\ phase = "lower" /\ queue = {}
    /\ phase' = "order"
    /\ UNCHANGED <<prog, lowerVars, orderVars>>

-----------------------------------------------------------------------------
Least(cs) == CHOOSE c \in cs : \A d \in cs : c <= d

\* The other initialized classes that the body of c's <clinit> itself refers to.
Dependencies(c) == (Referenced(<<c, Clinit>>) \cap clinits) \ {c}

Frame(c) == [class |-> c, todo |-> Dependencies(c)]
Top  == stack[Len(stack)]
Rest == SubSeq(stack, 1, Len(stack) - 1)

\* The loop of clinit_run_order calls visit_clinit for each class.
Visit ==
    /\ phase = "order" /\ stack = <<>> /\ clinits # visited
    /\ LET c == Least(clinits \ visited) IN
         visited' = visited \cup {c} /\ stack' = <<Frame(c)>>
    /\ UNCHANGED <<prog, phase, lowerVars, order>>

\* The next dependency, which returns at once if visited.
Descend ==
    /\ phase = "order" /\ stack # <<>> /\ Top.todo # {}
    /\ LET d == Least(Top.todo)
           top == [Top EXCEPT !.todo = @ \ {d}]
       IN /\ stack' = IF d \in visited THEN Append(Rest, top)
                      ELSE Append(Append(Rest, top), Frame(d))
          /\ visited' = visited \cup {d}
    /\ UNCHANGED <<prog, phase, lowerVars, order>>

\* Mutants: the class before its dependencies; a class dropped on the way back;
\* its index in place of the class.
ReturnIndex(c, cs) == Append(cs, Len(cs))
ReturnFirst(c, cs) == <<c>> \o cs
ReturnIfLast(c, cs) == IF Rest = <<>> THEN Append(cs, c) ELSE cs

Returned(c, cs) == Append(cs, c)

\* Post-order.
Return ==
    /\ phase = "order" /\ stack # <<>> /\ Top.todo = {}
    /\ order' = Returned(Top.class, order)
    /\ stack' = Rest
    /\ UNCHANGED <<prog, phase, lowerVars, visited>>

Ordered ==
    /\ phase = "order" /\ stack = <<>> /\ clinits = visited
    /\ phase' = "done"
    /\ UNCHANGED <<prog, lowerVars, orderVars>>

Finished == phase \in {"done", "failed"} /\ UNCHANGED vars

Next == Lower \/ Reject \/ Lowered \/ Visit \/ Descend \/ Return \/ Ordered \/ Finished

Spec == Init /\ [][Next]_vars /\ WF_vars(Next)

-----------------------------------------------------------------------------
\* Every variable stays in its type.
TypeOK ==
    /\ prog \in Programs
    /\ phase \in {"lower", "order", "done", "failed"}
    /\ queue \subseteq Methods /\ lowered \subseteq Methods
    /\ clinits \subseteq Classes /\ visited \subseteq Classes
    /\ stack \in Seq([class : Classes, todo : SUBSET Classes])
    /\ order \in Seq(Classes)

\* A set of methods with which everything its members call, and the initializer
\* of every class they use, is in the set.
Closed(ms) ==
    \A m \in ms : /\ Called(m) \subseteq ms
                  /\ Initializers(Referenced(m) \cap prog.initialized) \subseteq ms

Roots == {Entry} \cup Initializers({Entry[1]} \cap prog.initialized)

\* The compiled methods are exactly those the entry needs: nothing it can reach
\* is missing at link time, and nothing else is compiled.
ClosureIsExact ==
    phase \in {"order", "done"} =>
      /\ Roots \subseteq lowered /\ Closed(lowered)
      /\ \A ms \in SUBSET Methods : Roots \subseteq ms /\ Closed(ms) => lowered \subseteq ms

Position(c) == CHOOSE i \in 1 .. Len(order) : order[i] = c

\* Every initializer that was compiled runs, once.
EachInitializerRunsOnce ==
    phase = "done" =>
      /\ {order[i] : i \in 1 .. Len(order)} = {c \in Classes : <<c, Clinit>> \in lowered}
      /\ Len(order) = Cardinality(clinits)

\* The classes whose initializers run because c's does, through direct use.
DependsOn(c, d) ==
    \A cs \in SUBSET clinits :
      (c \in cs /\ \A e \in cs : Dependencies(e) \subseteq cs) => d \in cs

\* An initializer runs after those it uses directly, unless they need it in turn.
DependenciesFirst ==
    phase = "done" =>
      \A c \in clinits : \A d \in Dependencies(c) :
        DependsOn(d, c) \/ Position(d) < Position(c)

\* The recursion ends on every program, cyclic ones included.
CompilationEnds == <>(phase \in {"done", "failed"})

-----------------------------------------------------------------------------
\* The methods that run when m does, initializers aside.
Runs(m, n) ==
    \A ms \in SUBSET Methods : (m \in ms /\ \A k \in ms : Called(k) \subseteq ms) => n \in ms

\* What c's initializer uses when it runs, itself or in a method it calls.
ActivelyUsed(c) ==
    {d \in clinits \ {c} : \E m \in Methods : Runs(<<c, Clinit>>, m) /\ d \in Referenced(m)}

Needs(c, d) ==
    \A cs \in SUBSET clinits :
      (c \in cs /\ \A e \in cs : ActivelyUsed(e) \subseteq cs) => d \in cs

\* A class runs after every other initialized class it actively uses, cycles aside.
UsedClassesFirst ==
    phase = "done" =>
      \A c \in clinits : \A d \in ActivelyUsed(c) : Needs(d, c) \/ Position(d) < Position(c)
=============================================================================
