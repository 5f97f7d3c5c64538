-------------------------- MODULE ReachabilityProofs --------------------------
(***************************************************************************)
(* The two worklists over a JAR, for every program, cyclic or not.         *)
(*                                                                         *)
(* The methods compiled are exactly those the entry needs: ClosureIsExact. *)
(* The invariant is the worklist's: what is lowered or queued holds all    *)
(* that the lowered methods need (Covered), and is part of every set that  *)
(* the entry needs (Needed).  An empty queue turns the first into "the     *)
(* lowered methods are closed".                                            *)
(*                                                                         *)
(* The initializers run in an order that respects their uses:              *)
(* InitializersOrdered.  Its invariant is that of a depth-first search,    *)
(* OrderInv: a class on the stack leads to those above it (PathInv), and a *)
(* class in the order has what it uses before it, or on a cycle with it    *)
(* (OrderedInv).                                                           *)
(*                                                                         *)
(* The report is exactly what main needs: ReportIsExact.  The property     *)
(* speaks of the end of the scan.  To be inductive it needs what holds of  *)
(* the graph on the way: the classes are closed at every step, the code of *)
(* a method only once it has been scanned (GraphClosed), fields come from  *)
(* the scanned methods alone (GraphFields), and all of it is part of       *)
(* everything that holds main and is closed (GraphNeeded).                 *)
(***************************************************************************)
EXTENDS Reachability, TLAPS, FiniteSetTheorems, SequenceTheorems, WellFoundedInduction

-----------------------------------------------------------------------------
(* The closure and the order of initializers. *)

Known == lowered \cup queue

\* Nothing a lowered method needs, and no initializer scheduled, is forgotten.
Covered ==
    /\ Roots \subseteq Known
    /\ Initializers(clinits) \subseteq Known
    /\ \A m \in lowered : /\ Called(m) \subseteq Known
                          /\ Referenced(m) \cap prog.initialized \subseteq clinits

\* Nothing is lowered or queued without need.
Needed == \A ms \in SUBSET Methods : Roots \subseteq ms /\ Closed(ms) => Known \subseteq ms

ClosureInv ==
    /\ Covered
    /\ Needed
    /\ phase \in {"order", "done"} => queue = {}

\* One round of the worklist keeps the invariant: what m needs joins the queue.
LEMMA LowerStep == ClosureInv /\ Lower => ClosureInv'
<1> SUFFICES ASSUME ClosureInv, Lower PROVE ClosureInv'
  OBVIOUS
<1> USE DEF ClosureInv
<1>1. PICK m \in queue : /\ lowered' = lowered \cup {m}
                         /\ clinits' = clinits \cup ToSchedule(m)
                         /\ queue' = (queue \cup Called(m) \cup Initializers(ToSchedule(m)))
                                       \ lowered'
  BY DEF Lower, Pending
<1>2. prog' = prog /\ phase' = phase /\ phase = "lower"
  BY DEF Lower
<1>3. Known' = Known \cup Called(m) \cup Initializers(ToSchedule(m))
  BY <1>1 DEF Known
<1>4. /\ Roots' = Roots
      /\ \A n : Called(n)' = Called(n) /\ Referenced(n)' = Referenced(n)
      /\ \A ms : Closed(ms)' <=> Closed(ms)
  BY <1>2 DEF Roots, Called, Referenced, Closed
<1>5. Covered'
  <2>1. Roots' \subseteq Known'
    BY <1>3, <1>4 DEF Covered
  <2>2. Initializers(clinits') = Initializers(clinits) \cup Initializers(ToSchedule(m))
    BY <1>1 DEF Initializers
  <2>3. Initializers(clinits)' \subseteq Known'
    <3>1. Initializers(clinits)' = Initializers(clinits')
      BY DEF Initializers
    <3> QED BY <3>1, <2>2, <1>3 DEF Covered
  <2>4. Referenced(m) \cap prog.initialized \subseteq clinits'
    BY <1>1 DEF ToSchedule, Scheduled
  <2>5. ASSUME NEW n \in lowered'
        PROVE  Called(n) \subseteq Known' /\ Referenced(n) \cap prog.initialized \subseteq clinits'
    <3>1. CASE n = m
      BY <3>1, <2>4, <1>3
    <3>2. CASE n \in lowered
      BY <3>2, <1>1, <1>3 DEF Covered
    <3> QED BY <3>1, <3>2, <1>1
  <2> QED BY <2>1, <2>3, <2>5, <1>2, <1>4 DEF Covered
<1>6. Needed'
  <2> SUFFICES ASSUME NEW ms \in SUBSET Methods, Roots \subseteq ms, Closed(ms)
               PROVE  Known' \subseteq ms
    BY <1>4 DEF Needed
  <2>1. Known \subseteq ms
    BY DEF Needed
  <2>2. m \in ms
    BY <2>1 DEF Known
  <2>3. Called(m) \subseteq ms /\ Initializers(Referenced(m) \cap prog.initialized) \subseteq ms
    BY <2>2 DEF Closed
  <2>4. Initializers(ToSchedule(m)) \subseteq ms
    BY <2>3 DEF ToSchedule, Scheduled, Initializers
  <2> QED BY <1>3, <2>1, <2>3, <2>4
<1> QED BY <1>2, <1>5, <1>6

\* The other actions change neither the worklist nor the program, and the
\* worklist is left only when it is empty.
LEMMA OtherSteps ==
    ASSUME ClosureInv,
           Reject \/ Lowered \/ Visit \/ Descend \/ Return \/ Ordered \/ UNCHANGED vars
    PROVE  ClosureInv'
<1>1. UNCHANGED <<prog, lowerVars>>
  <2>1. CASE Reject   BY <2>1 DEF Reject
  <2>2. CASE Lowered  BY <2>2 DEF Lowered
  <2>3. CASE Visit    BY <2>3 DEF Visit
  <2>4. CASE Descend  BY <2>4 DEF Descend
  <2>5. CASE Return   BY <2>5 DEF Return
  <2>6. CASE Ordered  BY <2>6 DEF Ordered
  <2>7. CASE UNCHANGED vars  BY <2>7 DEF vars, lowerVars
  <2> QED BY <2>1, <2>2, <2>3, <2>4, <2>5, <2>6, <2>7
<1>2. /\ Known' = Known /\ Roots' = Roots /\ clinits' = clinits /\ lowered' = lowered
      /\ Initializers(clinits)' = Initializers(clinits)
      /\ \A n : Called(n)' = Called(n) /\ Referenced(n)' = Referenced(n)
      /\ \A ms : Closed(ms)' <=> Closed(ms)
  BY <1>1 DEF lowerVars, Known, Roots, Called, Referenced, Closed, Initializers
<1>3. Covered'
  BY <1>1, <1>2 DEF Covered, ClosureInv
<1>4. Needed'
  BY <1>2 DEF Needed, ClosureInv
<1>5. phase' \in {"order", "done"} => queue' = {}
  <2>1. queue' = queue /\ (phase \in {"order", "done"} => queue = {})
    BY <1>1 DEF lowerVars, ClosureInv
  <2>2. CASE Lowered
    BY <2>1, <2>2 DEF Lowered
  <2>3. ~Lowered => (phase' \in {"order", "done"} => phase \in {"order", "done"})
    <3>1. CASE Reject   BY <3>1 DEF Reject
    <3>2. CASE Visit    BY <3>2 DEF Visit
    <3>3. CASE Descend  BY <3>3 DEF Descend
    <3>4. CASE Return   BY <3>4 DEF Return
    <3>5. CASE Ordered  BY <3>5 DEF Ordered
    <3>6. CASE UNCHANGED vars  BY <3>6 DEF vars
    <3> QED BY <3>1, <3>2, <3>3, <3>4, <3>5, <3>6
  <2> QED BY <2>1, <2>2, <2>3
<1> QED BY <1>3, <1>4, <1>5 DEF ClosureInv

\* The entry and its class's initializer are queued to begin with.
LEMMA ClosureInit == Start => ClosureInv
<1> SUFFICES ASSUME Start PROVE ClosureInv
  OBVIOUS
<1>1. Known = Roots /\ lowered = {} /\ Initializers(clinits) \subseteq Known
  BY DEF Start, Known, Roots
<1> QED BY <1>1 DEF ClosureInv, Covered, Needed, Start

\* What one step of the worklist keeps.
LEMMA ClosureInvStep == ClosureInv /\ [Next]_vars => ClosureInv'
  BY LowerStep, OtherSteps DEF Next, Finished

\* When the worklist has run empty, the invariant is the property.
LEMMA ClosureInvExact == ClosureInv => ClosureIsExact
<1> SUFFICES ASSUME ClosureInv, phase \in {"order", "done"}
             PROVE  /\ Roots \subseteq lowered /\ Closed(lowered)
                    /\ \A ms \in SUBSET Methods :
                         Roots \subseteq ms /\ Closed(ms) => lowered \subseteq ms
  BY DEF ClosureIsExact
<1>1. Known = lowered
  BY DEF ClosureInv, Known
<1>2. Closed(lowered)
  <2> SUFFICES ASSUME NEW m \in lowered
               PROVE  /\ Called(m) \subseteq lowered
                      /\ Initializers(Referenced(m) \cap prog.initialized) \subseteq lowered
    BY DEF Closed
  <2>1. Initializers(Referenced(m) \cap prog.initialized) \subseteq Initializers(clinits)
    BY DEF ClosureInv, Covered, Initializers
  <2> QED BY <1>1, <2>1 DEF ClosureInv, Covered
<1> QED BY <1>1, <1>2 DEF ClosureInv, Covered, Needed

\* Whatever the program, when lowering is over the methods compiled are the
\* least set that holds the entry and, with a method, those it calls and the
\* initializers of the classes it uses (lower_static_int_closure).
THEOREM ExactClosure == Spec => []ClosureIsExact
  BY ClosureInit, ClosureInvStep, ClosureInvExact, PTL DEF Spec, Init

-----------------------------------------------------------------------------
(* The order of the initializers.  The stack of visit_clinit is a path of  *)
(* direct uses, so a class met again while it is on the stack needs the    *)
(* one that met it; any other class met again is in the order already.     *)

FrameSet == [class : Classes, todo : SUBSET Classes]

ClosureType ==
    /\ prog \in Program
    /\ phase \in {"lower", "order", "done", "failed"}
    /\ queue \subseteq Methods /\ lowered \subseteq Methods
    /\ clinits \subseteq prog.initialized /\ visited \subseteq clinits
    /\ stack \in Seq(FrameSet) /\ order \in Seq(Classes)

InOrder == {order[i] : i \in DOMAIN order}
OnStack == {stack[i].class : i \in DOMAIN stack}

\* Where a class stands: not met, on the stack, or in the order, once.
PlacesInv ==
    /\ visited = InOrder \cup OnStack /\ InOrder \cap OnStack = {}
    /\ \A i, j \in DOMAIN order : order[i] = order[j] => i = j
    /\ \A i, j \in DOMAIN stack : stack[i].class = stack[j].class => i = j
    /\ phase = "lower" => visited = {}
    /\ phase = "done" => stack = <<>> /\ visited = clinits

\* The stack is a path, and what a frame has no more to do has been met.
PathInv ==
    /\ \A i \in DOMAIN stack : /\ stack[i].todo \subseteq Dependencies(stack[i].class)
                               /\ Dependencies(stack[i].class) \ stack[i].todo \subseteq visited
    /\ \A i, j \in DOMAIN stack : i < j => DependsOn(stack[i].class, stack[j].class)

\* The property, of the initializers ordered so far.
OrderedInv ==
    \A i \in DOMAIN order : \A d \in Dependencies(order[i]) :
      DependsOn(d, order[i]) \/ \E j \in DOMAIN order : j < i /\ order[j] = d

OrderInv == ClosureType /\ PlacesInv /\ PathInv /\ OrderedInv

\* Sets of naturals have a least element.
LEMMA LeastNatural ==
    ASSUME NEW S \in SUBSET Nat, S # {}
    PROVE  Least(S) \in S /\ \A n \in S : Least(S) <= n
<1> DEFINE R == {p \in Nat \X Nat : p[1] < p[2]}
<1>1. IsWellFoundedOn(R, Nat)
  BY NatLessThanWellFounded DEF OpToRel
<1>2. PICK m \in S : \A n \in S : <<n, m>> \notin R
  <2> HIDE DEF R
  <2> QED BY <1>1, WFMin
<1>3. \A n \in S : m <= n
  <2> SUFFICES ASSUME NEW n \in S PROVE m <= n
    OBVIOUS
  <2>1. <<n, m>> \notin R
    BY <1>2
  <2>2. ~(n < m)
    BY <2>1
  <2> QED BY <2>2
<1> QED BY <1>3 DEF Least

\* A sequence's first m elements.
LEMMA Prefix ==
    ASSUME NEW S, NEW s \in Seq(S), NEW m \in Nat, m <= Len(s)
    PROVE  /\ SubSeq(s, 1, m) \in Seq(S) /\ Len(SubSeq(s, 1, m)) = m
           /\ \A i \in 1 .. m : SubSeq(s, 1, m)[i] = s[i]
  OBVIOUS

\* The frames under the top one.
LEMMA RestFrames ==
    ASSUME stack \in Seq(FrameSet), stack # <<>>
    PROVE  /\ Rest \in Seq(FrameSet) /\ Len(Rest) = Len(stack) - 1 /\ Len(Rest) \in Nat
           /\ \A i \in 1 .. Len(stack) - 1 : Rest[i] = stack[i]
<1> DEFINE m == Len(stack) - 1
<1>1. m \in Nat /\ m <= Len(stack)
  OBVIOUS
<1>2. Rest = SubSeq(stack, 1, m)
  BY DEF Rest
<1> HIDE DEF m
<1>3. /\ SubSeq(stack, 1, m) \in Seq(FrameSet) /\ Len(SubSeq(stack, 1, m)) = m
      /\ \A i \in 1 .. m : SubSeq(stack, 1, m)[i] = stack[i]
  BY <1>1, Prefix
<1> QED BY <1>1, <1>2, <1>3 DEF m

\* Dependence goes on through a direct use.
LEMMA DependsOnStep ==
    ASSUME NEW b, NEW c, NEW d, d \in Dependencies(c), DependsOn(b, c) \/ b = c
    PROVE  DependsOn(b, d)
  BY DEF DependsOn

\* The lowering leaves the stack and the order as they are, empty.
LEMMA LoweringKeepsOrder ==
    ASSUME OrderInv, Lower \/ Reject \/ Lowered
    PROVE  PlacesInv' /\ PathInv' /\ OrderedInv'
<1>1. /\ phase = "lower" /\ phase' \in {"lower", "failed", "order"}
      /\ visited' = visited /\ stack' = stack /\ order' = order /\ visited = {}
  BY DEF OrderInv, PlacesInv, Lower, Reject, Lowered, orderVars
<1>2. DOMAIN stack = {} /\ DOMAIN order = {}
  BY <1>1 DEF OrderInv, PlacesInv, InOrder, OnStack
<1> QED BY <1>1, <1>2 DEF OrderInv, PlacesInv, PathInv, OrderedInv, InOrder, OnStack

\* What lowering does to the types.
LEMMA LoweringTypes ==
    ASSUME ClosureType, Lower \/ Reject \/ Lowered, ClosureAssumption
    PROVE  ClosureType'
<1> USE DEF ClosureType
<1>1. CASE Lower
  <2>1. PICK m \in queue : /\ ~Fails(m)
                           /\ lowered' = lowered \cup {m}
                           /\ clinits' = clinits \cup ToSchedule(m)
                           /\ queue' = (queue \cup Called(m) \cup Initializers(ToSchedule(m)))
                                         \ lowered'
    BY <1>1 DEF Lower, Pending
  <2>2. m \in Methods /\ Called(m) \subseteq Methods
    BY <2>1 DEF Called, Program
  <2>3. ToSchedule(m) \subseteq prog.initialized /\ prog.initialized \subseteq Classes
    BY DEF ToSchedule, Scheduled, Program
  <2>4. Initializers(ToSchedule(m)) \subseteq Methods
    BY <2>3, ClosureAssumption DEF Initializers, ClosureAssumption
  <2> QED BY <1>1, <2>1, <2>2, <2>3, <2>4 DEF Lower, orderVars
<1>2. CASE Reject \/ Lowered
  BY <1>2 DEF Reject, Lowered, lowerVars, orderVars
<1> QED BY <1>1, <1>2

\* The closure stays as it is while the order is found.
LEMMA OrderingKeepsClosure ==
    ASSUME Visit \/ Descend \/ Return \/ Ordered \/ UNCHANGED vars
    PROVE  /\ UNCHANGED <<prog, queue, lowered, clinits>>
           /\ \A c : Dependencies(c)' = Dependencies(c)
           /\ \A b, c : DependsOn(b, c)' <=> DependsOn(b, c)
<1>1. UNCHANGED <<prog, queue, lowered, clinits>>
  BY DEF Visit, Descend, Return, Ordered, vars, lowerVars
<1>2. \A c : Dependencies(c)' = Dependencies(c)
  BY <1>1 DEF Dependencies, Referenced, Called
<1> QED BY <1>1, <1>2 DEF DependsOn

\* Classes are numbers, and so are those left to do.
LEMMA OrderSets ==
    ASSUME ClosureType, ClosureAssumption
    PROVE  /\ clinits \subseteq Nat /\ clinits \subseteq Classes
           /\ \A c : Dependencies(c) \subseteq clinits /\ c \notin Dependencies(c)
           /\ \A c \in Classes : Frame(c) \in FrameSet
BY DEF ClosureType, ClosureAssumption, Program, Dependencies, Frame, FrameSet

\* The loop of clinit_run_order takes the next class that is not in the order.
LEMMA VisitStep ==
    ASSUME OrderInv, Visit, ClosureAssumption
    PROVE  OrderInv'
<1> DEFINE c == Least(clinits \ visited)
<1>1. /\ stack = <<>> /\ visited' = visited \cup {c} /\ stack' = <<Frame(c)>>
      /\ order' = order /\ phase' = phase /\ phase = "order"
      /\ clinits \ visited # {} /\ UNCHANGED <<prog, queue, lowered, clinits>>
  BY DEF Visit, lowerVars, OrderInv, ClosureType
<1>2. c \in clinits \ visited /\ c \in Classes /\ Frame(c) \in FrameSet
  <2>1. clinits \ visited \in SUBSET Nat
    BY OrderSets DEF OrderInv
  <2>2. c \in clinits \ visited
    BY <1>1, <2>1, LeastNatural
  <2> QED BY <2>2, OrderSets DEF OrderInv
<1>3. /\ DOMAIN stack = {} /\ DOMAIN stack' = {1} /\ stack'[1] = Frame(c)
      /\ stack' \in Seq(FrameSet)
  <2> HIDE DEF c
  <2> QED BY <1>1, <1>2
<1> HIDE DEF c
<1>4. OnStack = {} /\ OnStack' = {c} /\ InOrder' = InOrder
  BY <1>1, <1>3 DEF OnStack, InOrder, Frame
<1>5. /\ \A e : Dependencies(e)' = Dependencies(e)
      /\ \A b, e : DependsOn(b, e)' <=> DependsOn(b, e)
  BY OrderingKeepsClosure
<1>6. ClosureType'
  BY <1>1, <1>2, <1>3 DEF OrderInv, ClosureType
<1>7. PlacesInv'
  BY <1>1, <1>2, <1>3, <1>4 DEF OrderInv, PlacesInv
<1>8. PathInv'
  <2>1. \A i \in DOMAIN stack' : stack'[i].todo = Dependencies(stack'[i].class)
    BY <1>3 DEF Frame
  <2> QED BY <1>3, <1>5, <2>1 DEF PathInv
<1>9. OrderedInv'
  BY <1>1, <1>5 DEF OrderInv, OrderedInv
<1> QED BY <1>6, <1>7, <1>8, <1>9 DEF OrderInv

\* visit_clinit looks at the next class that the one on top uses.
LEMMA DescendStep ==
    ASSUME OrderInv, Descend, ClosureAssumption
    PROVE  OrderInv'
<1> DEFINE d   == Least(Top.todo)
           top == [Top EXCEPT !.todo = @ \ {d}]
           n   == Len(stack)
           under == Append(Rest, top)
<1>1. /\ stack # <<>> /\ Top.todo # {} /\ visited' = visited \cup {d}
      /\ stack' = IF d \in visited THEN under ELSE Append(under, Frame(d))
      /\ order' = order /\ phase' = phase /\ phase = "order"
      /\ UNCHANGED <<prog, queue, lowered, clinits>>
  BY DEF Descend, lowerVars
<1>2. /\ stack \in Seq(FrameSet) /\ n \in Nat /\ n > 0 /\ DOMAIN stack = 1 .. n
      /\ Top = stack[n] /\ Top \in FrameSet
  BY <1>1 DEF OrderInv, ClosureType, Top
<1>3. Top.todo \subseteq Classes /\ Classes \subseteq Nat
  BY <1>2, ClosureAssumption DEF FrameSet, ClosureAssumption
<1>4. d \in Top.todo
  BY <1>1, <1>3, LeastNatural
<1> HIDE DEF d
<1>5. top \in FrameSet /\ top.class = Top.class /\ top.todo = Top.todo \ {d}
  BY <1>2 DEF FrameSet
<1>6. /\ under \in Seq(FrameSet) /\ Len(under) = n /\ under[n] = top
      /\ \A i \in 1 .. n - 1 : under[i] = stack[i]
  <2> HIDE DEF top
  <2>1. /\ Rest \in Seq(FrameSet) /\ Len(Rest) = n - 1 /\ Len(Rest) \in Nat
        /\ \A i \in 1 .. n - 1 : Rest[i] = stack[i]
    BY <1>1, <1>2, RestFrames
  <2> QED BY <2>1, <1>2, <1>5
<1>7. /\ \A i \in 1 .. n : under[i].class = stack[i].class
      /\ \A i \in 1 .. n : under[i].todo = stack[i].todo \ {d} \/ under[i].todo = stack[i].todo
  <2> HIDE DEF top, under
  <2> SUFFICES ASSUME NEW i \in 1 .. n
               PROVE  /\ under[i].class = stack[i].class
                      /\ under[i].todo = stack[i].todo \ {d} \/ under[i].todo = stack[i].todo
    OBVIOUS
  <2>1. CASE i = n  BY <2>1, <1>2, <1>5, <1>6
  <2>2. CASE i # n  BY <2>2, <1>2, <1>6
  <2> QED BY <2>1, <2>2
<1> HIDE DEF top, under
<1>8. /\ \A e : Dependencies(e)' = Dependencies(e)
      /\ \A b, e : DependsOn(b, e)' <=> DependsOn(b, e)
  BY OrderingKeepsClosure
<1>9. \A i \in 1 .. n : /\ stack[i].class \in Classes
                        /\ under[i].todo \subseteq Dependencies(stack[i].class)
                        /\ Dependencies(stack[i].class) \ under[i].todo \subseteq visited \cup {d}
  <2> SUFFICES ASSUME NEW i \in 1 .. n
               PROVE  /\ stack[i].class \in Classes
                      /\ under[i].todo \subseteq Dependencies(stack[i].class)
                      /\ Dependencies(stack[i].class) \ under[i].todo \subseteq visited \cup {d}
    OBVIOUS
  <2>1. stack[i] \in FrameSet
    BY <1>2
  <2>2. stack[i].class \in Classes
    BY <2>1 DEF FrameSet
  <2>3. /\ stack[i].todo \subseteq Dependencies(stack[i].class)
        /\ Dependencies(stack[i].class) \ stack[i].todo \subseteq visited
    BY <1>2 DEF OrderInv, PathInv
  <2> QED BY <2>2, <2>3, <1>7
<1>10. d \in Dependencies(Top.class) /\ d \in clinits /\ d \in Classes
  <2>1. Top.todo \subseteq Dependencies(Top.class)
    BY <1>2 DEF OrderInv, PathInv
  <2> QED BY <2>1, <1>4, OrderSets DEF OrderInv
<1>11. /\ visited = InOrder \cup OnStack /\ InOrder \cap OnStack = {}
       /\ \A i, j \in 1 .. n : stack[i].class = stack[j].class => i = j
       /\ \A i, j \in 1 .. n : i < j => DependsOn(stack[i].class, stack[j].class)
       /\ OnStack = {stack[i].class : i \in 1 .. n}
  BY <1>2 DEF OrderInv, PlacesInv, PathInv, OnStack
<1>12. InOrder' = InOrder /\ OrderedInv'
  BY <1>1, <1>8 DEF InOrder, OrderInv, OrderedInv
<1>13. CASE d \in visited
  <2>1. stack' = under /\ visited' = visited /\ DOMAIN stack' = 1 .. n
    BY <1>1, <1>2, <1>6, <1>13
  <2>2. OnStack' = OnStack
    BY <2>1, <1>7, <1>11 DEF OnStack
  <2>3. ClosureType'
    BY <1>1, <1>6, <2>1 DEF OrderInv, ClosureType
  <2>4. PlacesInv'
    BY <1>1, <1>7, <1>11, <1>12, <2>1, <2>2 DEF OrderInv, PlacesInv
  <2>5. PathInv'
    BY <1>7, <1>8, <1>9, <1>11, <1>13, <2>1 DEF PathInv
  <2> QED BY <1>12, <2>3, <2>4, <2>5 DEF OrderInv
<1>14. CASE d \notin visited
  <2>1. Frame(d) \in FrameSet /\ Frame(d).class = d /\ Frame(d).todo = Dependencies(d)
    BY <1>10, OrderSets DEF OrderInv, Frame
  <2>2. /\ stack' \in Seq(FrameSet) /\ DOMAIN stack' = 1 .. n + 1
        /\ stack'[n + 1] = Frame(d) /\ \A i \in 1 .. n : stack'[i] = under[i]
    <3>1. stack' = Append(under, Frame(d))
      BY <1>1, <1>14
    <3> HIDE DEF n
    <3> QED BY <3>1, <1>2, <1>6, <2>1
  <2> HIDE DEF n
  <2>3. OnStack' = OnStack \cup {d}
    <3>1. OnStack' = {stack'[i].class : i \in 1 .. n + 1}
      BY <2>2 DEF OnStack
    <3>2. \A i \in 1 .. n : stack'[i].class = stack[i].class
      BY <2>2, <1>7
    <3>3. \A i \in 1 .. n + 1 : i \in 1 .. n \/ i = n + 1
      BY <1>2
    <3>4. 1 .. n \subseteq 1 .. n + 1 /\ n + 1 \in 1 .. n + 1
      BY <1>2
    <3>5. OnStack' \subseteq OnStack \cup {d}
      BY <3>1, <3>2, <3>3, <2>1, <2>2, <1>11
    <3>6. OnStack \cup {d} \subseteq OnStack'
      BY <3>1, <3>2, <3>4, <2>1, <2>2, <1>11
    <3> QED BY <3>5, <3>6
  <2>4. ClosureType'
    BY <1>1, <1>10, <2>2 DEF OrderInv, ClosureType
  <2>5. \A i, j \in 1 .. n + 1 : stack'[i].class = stack'[j].class => i = j
    <3>1. \A i \in 1 .. n : stack'[i].class \in visited /\ stack'[i].class = stack[i].class
      BY <2>2, <1>7, <1>11
    <3> QED BY <3>1, <2>1, <2>2, <1>2, <1>11, <1>14
  <2>6. PlacesInv'
    <3>1. /\ visited' = InOrder' \cup OnStack' /\ InOrder' \cap OnStack' = {}
      BY <1>1, <1>11, <1>12, <1>14, <2>3
    <3>2. \A i, j \in DOMAIN stack' : stack'[i].class = stack'[j].class => i = j
      BY <2>2, <2>5
    <3> QED BY <1>1, <3>1, <3>2 DEF OrderInv, PlacesInv
  <2>7. \A i \in 1 .. n + 1 : /\ stack'[i].todo \subseteq Dependencies(stack'[i].class)
                              /\ Dependencies(stack'[i].class) \ stack'[i].todo \subseteq visited'
    <3> SUFFICES ASSUME NEW i \in 1 .. n + 1
                 PROVE  /\ stack'[i].todo \subseteq Dependencies(stack'[i].class)
                        /\ Dependencies(stack'[i].class) \ stack'[i].todo \subseteq visited'
      OBVIOUS
    <3>1. CASE i = n + 1
      BY <3>1, <2>1, <2>2
    <3>2. CASE i \in 1 .. n
      BY <3>2, <2>2, <1>1, <1>7, <1>9
    <3> QED BY <3>1, <3>2, <1>2
  <2>8. \A i, j \in 1 .. n + 1 : i < j => DependsOn(stack'[i].class, stack'[j].class)
    <3> SUFFICES ASSUME NEW i \in 1 .. n + 1, NEW j \in 1 .. n + 1, i < j
                 PROVE  DependsOn(stack'[i].class, stack'[j].class)
      OBVIOUS
    <3>1. i \in 1 .. n /\ stack'[i].class = stack[i].class
      BY <1>2, <1>7, <2>2
    <3>2. CASE j = n + 1
      <4>1. DependsOn(stack[i].class, Top.class) \/ stack[i].class = Top.class
        BY <1>2, <1>11, <3>1
      <4>2. DependsOn(stack[i].class, d)
        BY <4>1, <1>10, DependsOnStep
      <4> QED BY <3>1, <3>2, <4>2, <2>1, <2>2
    <3>3. CASE j \in 1 .. n
      BY <3>1, <3>3, <1>7, <1>11, <2>2
    <3> QED BY <3>2, <3>3, <1>2
  <2>9. PathInv'
    BY <1>8, <2>2, <2>7, <2>8 DEF PathInv
  <2> QED BY <1>12, <2>4, <2>6, <2>9 DEF OrderInv
<1> QED BY <1>13, <1>14

\* visit_clinit puts a class in the order when the classes it uses have been met.
LEMMA ReturnStep ==
    ASSUME OrderInv, Return, ClosureAssumption
    PROVE  OrderInv'
<1> DEFINE c == Top.class
           n == Len(stack)
           k == Len(order)
<1>1. /\ stack # <<>> /\ Top.todo = {} /\ visited' = visited /\ stack' = Rest
      /\ order' = Append(order, c) /\ phase' = phase /\ phase = "order"
      /\ UNCHANGED <<prog, queue, lowered, clinits>>
  BY DEF Return, Returned, lowerVars
<1>2. /\ stack \in Seq(FrameSet) /\ n \in Nat /\ n > 0 /\ DOMAIN stack = 1 .. n
      /\ Top = stack[n] /\ Top \in FrameSet
  BY <1>1 DEF OrderInv, ClosureType, Top
<1>3. c \in Classes
  BY <1>2 DEF FrameSet
<1>4. /\ Rest \in Seq(FrameSet) /\ DOMAIN Rest = 1 .. n - 1
      /\ \A i \in 1 .. n - 1 : Rest[i] = stack[i]
  BY <1>1, <1>2, RestFrames
<1>5. /\ order \in Seq(Classes) /\ k \in Nat /\ DOMAIN order = 1 .. k
  BY DEF OrderInv, ClosureType
<1>6. /\ order' \in Seq(Classes) /\ DOMAIN order' = 1 .. k + 1 /\ order'[k + 1] = c
      /\ \A i \in 1 .. k : order'[i] = order[i]
  <2> HIDE DEF c
  <2> QED BY <1>1, <1>3, <1>5
<1>7. /\ visited = InOrder \cup OnStack /\ InOrder \cap OnStack = {}
      /\ \A i, j \in 1 .. k : order[i] = order[j] => i = j
      /\ \A i, j \in 1 .. n : stack[i].class = stack[j].class => i = j
      /\ \A i, j \in 1 .. n : i < j => DependsOn(stack[i].class, stack[j].class)
      /\ OnStack = {stack[i].class : i \in 1 .. n} /\ InOrder = {order[i] : i \in 1 .. k}
  BY <1>2, <1>5 DEF OrderInv, PlacesInv, PathInv, OnStack, InOrder
<1>8. c = stack[n].class
  BY <1>2
<1>9. c \in OnStack /\ c \notin InOrder
  <2> HIDE DEF c
  <2>1. n \in 1 .. n
    BY <1>2
  <2>2. c \in {stack[i].class : i \in 1 .. n}
    BY <2>1, <1>8
  <2> QED BY <2>2, <1>7
<1>10. Dependencies(c) \subseteq visited
  BY <1>1, <1>2 DEF OrderInv, PathInv
<1>11. /\ \A e : Dependencies(e)' = Dependencies(e)
       /\ \A b, e : DependsOn(b, e)' <=> DependsOn(b, e)
  BY OrderingKeepsClosure
<1> HIDE DEF c, k
<1>12. InOrder' = InOrder \cup {c}
  <2>1. InOrder' = {order'[i] : i \in 1 .. k + 1}
    BY <1>6 DEF InOrder
  <2> QED BY <2>1, <1>5, <1>6, <1>7
<1> HIDE DEF n
<1>13. OnStack' = OnStack \ {c}
  <2>1. OnStack' = {Rest[i].class : i \in 1 .. n - 1}
    BY <1>1, <1>4 DEF OnStack
  <2>2. OnStack' = {stack[i].class : i \in 1 .. n - 1}
    BY <2>1, <1>4
  <2>3. \A i \in 1 .. n - 1 : stack[i].class # c
    BY <1>2, <1>7, <1>8
  <2> QED BY <2>2, <2>3, <1>2, <1>7, <1>8
<1>14. ClosureType'
  BY <1>1, <1>4, <1>6 DEF OrderInv, ClosureType
<1>15. PlacesInv'
  <2>1. /\ visited' = InOrder' \cup OnStack' /\ InOrder' \cap OnStack' = {}
    <3>1. visited = InOrder \cup OnStack /\ InOrder \cap OnStack = {} /\ visited' = visited
      BY <1>1, <1>7
    <3> QED BY <3>1, <1>9, <1>12, <1>13
  <2>2. \A i, j \in DOMAIN order' : order'[i] = order'[j] => i = j
    <3> SUFFICES ASSUME NEW i \in 1 .. k + 1, NEW j \in 1 .. k + 1, order'[i] = order'[j]
                 PROVE  i = j
      BY <1>6
    <3>1. \A e \in 1 .. k : order'[e] # c
      BY <1>6, <1>7, <1>9
    <3>2. CASE i = k + 1 \/ j = k + 1
      BY <3>1, <3>2, <1>5, <1>6
    <3>3. CASE i \in 1 .. k /\ j \in 1 .. k
      BY <3>3, <1>6, <1>7
    <3> QED BY <3>2, <3>3, <1>5
  <2>3. \A i, j \in DOMAIN stack' : stack'[i].class = stack'[j].class => i = j
    BY <1>1, <1>2, <1>4, <1>7
  <2> QED BY <1>1, <2>1, <2>2, <2>3 DEF PlacesInv
<1>16. PathInv'
  <2>1. \A i \in 1 .. n - 1 : i \in DOMAIN stack /\ stack'[i] = stack[i]
    BY <1>1, <1>2, <1>4
  <2>2. \A i \in 1 .. n - 1 :
          /\ stack[i].todo \subseteq Dependencies(stack[i].class)
          /\ Dependencies(stack[i].class) \ stack[i].todo \subseteq visited
    BY <2>1 DEF OrderInv, PathInv
  <2>3. \A i, j \in 1 .. n - 1 : i < j => DependsOn(stack[i].class, stack[j].class)
    BY <1>2, <1>7
  <2> QED BY <1>1, <1>4, <1>11, <2>1, <2>2, <2>3 DEF PathInv
<1>17. \A d \in Dependencies(c) : DependsOn(d, c) \/ \E j \in 1 .. k : order[j] = d
  <2> SUFFICES ASSUME NEW d \in Dependencies(c), d \notin InOrder
               PROVE  DependsOn(d, c)
    BY <1>7
  <2>1. PICK i \in 1 .. n : stack[i].class = d
    BY <1>7, <1>10
  <2>2. d # c
    BY DEF Dependencies
  <2>3. i < n
    BY <2>1, <2>2, <1>2, <1>8
  <2> QED BY <2>1, <2>3, <1>2, <1>7, <1>8
<1>18. OrderedInv'
  <2> SUFFICES ASSUME NEW i \in 1 .. k + 1
               PROVE  \A d \in Dependencies(order'[i]) :
                        DependsOn(d, order'[i]) \/ \E j \in 1 .. k + 1 : j < i /\ order'[j] = d
    BY <1>6, <1>11 DEF OrderedInv
  <2>1. CASE i = k + 1
    BY <2>1, <1>5, <1>6, <1>17
  <2>2. CASE i \in 1 .. k
    <3>1. \A d \in Dependencies(order[i]) :
            DependsOn(d, order[i]) \/ \E j \in 1 .. k : j < i /\ order[j] = d
      BY <2>2, <1>5 DEF OrderInv, OrderedInv
    <3> QED BY <3>1, <2>2, <1>5, <1>6
  <2> QED BY <2>1, <2>2, <1>5
<1> QED BY <1>14, <1>15, <1>16, <1>18 DEF OrderInv

\* Ordered and a stuttering step leave the order as it is.
LEMMA OrderRest ==
    ASSUME OrderInv, Ordered \/ UNCHANGED vars
    PROVE  OrderInv'
<1>1. /\ UNCHANGED <<prog, queue, lowered, clinits, visited, stack, order>>
      /\ phase' = phase \/ (phase' = "done" /\ stack = <<>> /\ clinits = visited)
  BY DEF Ordered, vars, lowerVars, orderVars
<1>2. /\ \A e : Dependencies(e)' = Dependencies(e)
      /\ \A b, e : DependsOn(b, e)' <=> DependsOn(b, e)
  BY OrderingKeepsClosure
<1>3. InOrder' = InOrder /\ OnStack' = OnStack
  BY <1>1 DEF InOrder, OnStack
<1>4. ClosureType'
  BY <1>1 DEF OrderInv, ClosureType
<1>5. PlacesInv'
  BY <1>1, <1>3 DEF OrderInv, PlacesInv
<1>6. PathInv'
  BY <1>1, <1>2 DEF OrderInv, PathInv
<1>7. OrderedInv'
  BY <1>1, <1>2 DEF OrderInv, OrderedInv
<1> QED BY <1>4, <1>5, <1>6, <1>7 DEF OrderInv

\* What one step keeps.
LEMMA OrderInvStep == ClosureAssumption /\ OrderInv /\ [Next]_vars => OrderInv'
<1> SUFFICES ASSUME ClosureAssumption, OrderInv, [Next]_vars PROVE OrderInv'
  OBVIOUS
<1>1. CASE Lower \/ Reject \/ Lowered
  BY <1>1, LoweringTypes, LoweringKeepsOrder DEF OrderInv
<1>2. CASE Visit    BY <1>2, VisitStep
<1>3. CASE Descend  BY <1>3, DescendStep
<1>4. CASE Return   BY <1>4, ReturnStep
<1>5. CASE Ordered \/ UNCHANGED vars  BY <1>5, OrderRest
<1> QED BY <1>1, <1>2, <1>3, <1>4, <1>5 DEF Next, Finished

\* No class is met to begin with.
LEMMA OrderInit == ClosureAssumption /\ prog \in Program /\ Start => OrderInv
<1> SUFFICES ASSUME ClosureAssumption, prog \in Program, Start PROVE OrderInv
  OBVIOUS
<1>1. /\ phase = "lower" /\ lowered = {} /\ visited = {} /\ stack = <<>> /\ order = <<>>
      /\ clinits = {Entry[1]} \cap prog.initialized
      /\ queue = {Entry} \cup Initializers(clinits)
  BY DEF Start
<1>2. Initializers(clinits) \subseteq Methods
  BY <1>1, ClosureAssumption DEF ClosureAssumption, Initializers, Program
<1>3. ClosureType
  <2>1. queue \subseteq Methods
    BY <1>1, <1>2, ClosureAssumption DEF ClosureAssumption
  <2>2. stack \in Seq(FrameSet) /\ order \in Seq(Classes)
    BY <1>1
  <2> QED BY <1>1, <2>1, <2>2 DEF ClosureType
<1>4. DOMAIN stack = {} /\ DOMAIN order = {}
  BY <1>1
<1> QED BY <1>1, <1>3, <1>4 DEF OrderInv, PlacesInv, PathInv, OrderedInv, InOrder, OnStack

\* Where a class is in the order.
LEMMA PositionIs ==
    ASSUME OrderInv, NEW i \in DOMAIN order
    PROVE  Position(order[i]) = i
<1>1. DOMAIN order = 1 .. Len(order)
  BY DEF OrderInv, ClosureType
<1>2. \A j \in 1 .. Len(order) : order[j] = order[i] => j = i
  BY <1>1 DEF OrderInv, PlacesInv
<1> QED BY <1>1, <1>2 DEF Position

\* In the end every scheduled class has been put in the order.
LEMMA OrderIsComplete ==
    ASSUME OrderInv, phase = "done"
    PROVE  InOrder = clinits
<1>1. OnStack = {}
  BY DEF OrderInv, PlacesInv, OnStack
<1> QED BY <1>1 DEF OrderInv, PlacesInv

LEMMA OrderInvFirst == OrderInv => DependenciesFirst
<1> SUFFICES ASSUME OrderInv, phase = "done", NEW c \in clinits, NEW d \in Dependencies(c)
             PROVE  DependsOn(d, c) \/ Position(d) < Position(c)
  BY DEF DependenciesFirst
<1>1. PICK i \in DOMAIN order : order[i] = c
  BY OrderIsComplete DEF InOrder
<1>2. CASE DependsOn(d, c)
  BY <1>2
<1>3. CASE \E j \in DOMAIN order : j < i /\ order[j] = d
  <2>1. PICK j \in DOMAIN order : j < i /\ order[j] = d
    BY <1>3
  <2>2. Position(order[i]) = i /\ Position(order[j]) = j
    BY PositionIs
  <2> QED BY <1>1, <2>1, <2>2
<1> QED BY <1>1, <1>2, <1>3 DEF OrderInv, OrderedInv

\* A class initializer that is not declared cannot be resolved.
Resolvable == \A c \in Classes \ prog.initialized : <<c, Clinit>> \in prog.rejected

\* Nothing that was lowered is refused, and an initializer is compiled only when
\* it is scheduled, by name too.
ScheduleInv ==
    /\ Resolvable
    /\ lowered \cap prog.rejected = {}
    /\ \A c \in prog.initialized : <<c, Clinit>> \in Known => c \in clinits

LEMMA ScheduleInit == Resolvable /\ Start => ScheduleInv
<1> SUFFICES ASSUME Resolvable, Start PROVE ScheduleInv
  OBVIOUS
<1>1. /\ lowered = {} /\ clinits = {Entry[1]} \cap prog.initialized
      /\ Known = {Entry} \cup Initializers(clinits)
  BY DEF Start, Known
<1>2. ASSUME NEW c \in prog.initialized, <<c, Clinit>> \in Known PROVE c \in clinits
  <2>1. CASE <<c, Clinit>> = Entry
    BY <2>1, <1>1
  <2>2. CASE <<c, Clinit>> \in Initializers(clinits)
    BY <2>2 DEF Initializers
  <2> QED BY <1>1, <1>2, <2>1, <2>2
<1> QED BY <1>1, <1>2 DEF ScheduleInv

LEMMA ScheduleInvStep == ScheduleInv /\ [Next]_vars => ScheduleInv'
<1> SUFFICES ASSUME ScheduleInv, [Next]_vars PROVE ScheduleInv'
  OBVIOUS
<1>1. CASE Lower
  <2>1. PICK m \in queue : /\ ~Fails(m)
                           /\ lowered' = lowered \cup {m}
                           /\ clinits' = clinits \cup ToSchedule(m)
                           /\ queue' = (queue \cup Called(m) \cup Initializers(ToSchedule(m)))
                                         \ lowered'
    BY <1>1 DEF Lower, Pending
  <2>2. prog' = prog
    BY <1>1 DEF Lower
  <2>3. Known' = Known \cup Called(m) \cup Initializers(ToSchedule(m))
    BY <2>1 DEF Known
  <2>4. m \notin prog.rejected
    BY <2>1 DEF Fails
  <2>5. ASSUME NEW c \in prog.initialized, <<c, Clinit>> \in Known' PROVE c \in clinits'
    <3>1. CASE <<c, Clinit>> \in Known
      BY <3>1, <2>1 DEF ScheduleInv
    <3>2. CASE <<c, Clinit>> \in Called(m)
      <4>1. c \in Referenced(m)
        BY <3>2 DEF Referenced
      <4> QED BY <4>1, <2>1 DEF ToSchedule, Scheduled
    <3>3. CASE <<c, Clinit>> \in Initializers(ToSchedule(m))
      <4>1. c \in ToSchedule(m)
        BY <3>3 DEF Initializers
      <4> QED BY <4>1, <2>1
    <3> QED BY <2>3, <2>5, <3>1, <3>2, <3>3
  <2> QED BY <2>1, <2>2, <2>4, <2>5 DEF ScheduleInv, Resolvable
<1>2. CASE Reject \/ Lowered \/ Visit \/ Descend \/ Return \/ Ordered \/ UNCHANGED vars
  <2>1. UNCHANGED <<prog, lowerVars>>
    BY <1>2 DEF Reject, Lowered, Visit, Descend, Return, Ordered, vars, lowerVars
  <2> QED BY <2>1 DEF ScheduleInv, Resolvable, Known, lowerVars
<1> QED BY <1>1, <1>2 DEF Next, Finished

LEMMA RunsOnce ==
    ASSUME ClosureInv, OrderInv, ScheduleInv
    PROVE  EachInitializerRunsOnce
<1> SUFFICES ASSUME phase = "done"
             PROVE  /\ {order[i] : i \in 1 .. Len(order)}
                         = {c \in Classes : <<c, Clinit>> \in lowered}
                    /\ Len(order) = Cardinality(clinits)
  BY DEF EachInitializerRunsOnce
<1> DEFINE k == Len(order)
<1>1. /\ order \in [1 .. k -> Classes] /\ k \in Nat /\ DOMAIN order = 1 .. k
      /\ clinits \subseteq prog.initialized /\ prog.initialized \subseteq Classes
  BY DEF OrderInv, ClosureType, Program
<1>2. InOrder = clinits /\ InOrder = {order[i] : i \in 1 .. k}
  BY <1>1, OrderIsComplete DEF InOrder
<1>3. clinits = {c \in Classes : <<c, Clinit>> \in lowered}
  <2>1. Known = lowered
    BY DEF Known, ClosureInv
  <2>2. \A c \in clinits : <<c, Clinit>> \in lowered
    BY <2>1 DEF ClosureInv, Covered, Initializers
  <2>3. ASSUME NEW c \in Classes, <<c, Clinit>> \in lowered PROVE c \in clinits
    BY <2>1, <2>3 DEF ScheduleInv, Resolvable
  <2> QED BY <1>1, <2>2, <2>3
<1>4. k = Cardinality(clinits)
  <2>1. order \in Surjection(1 .. k, clinits)
    BY <1>1, <1>2 DEF Surjection
  <2>2. order \in Injection(1 .. k, clinits)
    BY <1>1, <1>2 DEF Injection, IsInjective, OrderInv, PlacesInv
  <2>3. IsFiniteSet(1 .. k) /\ Cardinality(1 .. k) = k
    <3> HIDE DEF k
    <3>1. k \in Int /\ 1 \in Int /\ k >= 0
      BY <1>1
    <3>2. IsFiniteSet(1 .. k) /\ Cardinality(1 .. k) = IF 1 > k THEN 0 ELSE k - 1 + 1
      BY <3>1, FS_Interval
    <3> QED BY <3>1, <3>2
  <2> QED BY <2>1, <2>2, <2>3, FS_Surjection
<1> QED BY <1>2, <1>3, <1>4

\* On every program whose undeclared initializers cannot be resolved: each
\* initializer that was compiled runs, once, and after those it uses directly
\* unless they need it in turn (clinit_run_order, visit_clinit).
THEOREM InitializersOrdered ==
    Init /\ Resolvable /\ [][Next]_vars => [](EachInitializerRunsOnce /\ DependenciesFirst)
<1>1. Init /\ Resolvable => ClosureInv /\ OrderInv /\ ScheduleInv
  BY ClosureAssumption, ClosureInit, OrderInit, ScheduleInit DEF Init, ClosureAssumption
<1>2. ClosureInv /\ OrderInv /\ ScheduleInv /\ [Next]_vars
        => (ClosureInv /\ OrderInv /\ ScheduleInv)'
  BY ClosureAssumption, ClosureInvStep, OrderInvStep, ScheduleInvStep
<1>3. ClosureInv /\ OrderInv /\ ScheduleInv => EachInitializerRunsOnce /\ DependenciesFirst
  BY RunsOnce, OrderInvFirst
<1> QED BY <1>1, <1>2, <1>3, PTL

-----------------------------------------------------------------------------
(* The report. *)

GraphSet == [classes : SUBSET Classes, methods : SUBSET Methods,
             fields : SUBSET (Nat \X STRING \X STRING)]

\* The JAR does not change.
JarType ==
    /\ Declared \subseteq Methods \ External
    /\ methods \in [Declared -> MethodInfo]
    /\ mentions \in [Classes -> SUBSET Nat]

\* What is closed when the class c is, but for the methods of the report.
ClassClosed(c, cs, ms) ==
    /\ mentions[c] \cap Classes \subseteq cs
    /\ <<c, Clinit>> \in Declared => <<c, Clinit>> \in ms

\* What is closed when the code and the descriptor of m are.
CodeClosed(m, cs, ms) ==
    /\ methods[m].descriptor \cap Classes \subseteq cs
    /\ \A i \in methods[m].code :
         /\ i.class \in Classes =>
              /\ i.class \in cs
              /\ i.kind = "call" => <<i.class, i.member>> \in ms
         /\ i.kind \in {"static", "field"} => i.names \cap Classes \subseteq cs

AllClosed(cs, ms) ==
    /\ \A c \in cs : ClassClosed(c, cs, ms)
    /\ \A m \in ms : m[1] \in cs /\ CodeClosed(m, cs, ms)

\* The fields that the code of ms accesses.
FieldsOf(ms) ==
    {FieldNode(i) :
       i \in {i \in UNION {FieldUses(m) : m \in ms} : i.class \in Classes}}

GraphClosed ==
    /\ \A c \in graph.classes : ClassClosed(c, graph.classes, graph.methods)
    /\ \A m \in graph.methods : m[1] \in graph.classes
    /\ \A m \in graph.methods \ pending : CodeClosed(m, graph.classes, graph.methods)

GraphFields == graph.fields = FieldsOf(graph.methods \ pending)

GraphNeeded ==
    \A cs \in SUBSET Classes, ms \in SUBSET Declared :
      Entry \in ms /\ AllClosed(cs, ms) =>
        graph.classes \subseteq cs /\ graph.methods \subseteq ms

ScanType ==
    /\ scan \in {"scan", "lower", "done", "failed"}
    /\ graph \in GraphSet /\ graph.methods \subseteq Declared
    /\ pending \subseteq graph.methods
    /\ graph.methods = {} => graph.classes = {}
    /\ graph.methods # {} => Entry \in graph.methods
    /\ scan \in {"lower", "done"} => Entry \in graph.methods /\ pending = {}

ScanInv == JarType /\ ScanType /\ GraphClosed /\ GraphFields /\ GraphNeeded

-----------------------------------------------------------------------------
\* What mark_class marks: the least set that holds cs and is closed.
LEMMA MarkedLeast ==
    ASSUME NEW cs
    PROVE  /\ Marked(cs) \subseteq Classes /\ cs \cap Classes \subseteq Marked(cs)
           /\ \A c \in Marked(cs) : mentions[c] \cap Classes \subseteq Marked(cs)
           /\ \A S \in SUBSET Classes :
                (cs \cap Classes \subseteq S /\ \A d \in S : mentions[d] \cap Classes \subseteq S)
                  => Marked(cs) \subseteq S
<1>1. Marked(cs) \subseteq Classes /\ cs \cap Classes \subseteq Marked(cs)
  BY DEF Marked
<1>2. ASSUME NEW c \in Marked(cs), NEW d \in mentions[c] \cap Classes
      PROVE  d \in Marked(cs)
  <2> SUFFICES ASSUME NEW S \in SUBSET Classes, cs \cap Classes \subseteq S,
                      \A e \in S : mentions[e] \cap Classes \subseteq S
               PROVE  d \in S
    BY DEF Marked
  <2>1. c \in S
    BY DEF Marked
  <2> QED BY <2>1
<1>3. ASSUME NEW S \in SUBSET Classes, cs \cap Classes \subseteq S,
             \A d \in S : mentions[d] \cap Classes \subseteq S
      PROVE  Marked(cs) \subseteq S
  BY <1>3 DEF Marked
<1> QED BY <1>1, <1>2, <1>3

\* The graph and the worklist after they have grown.
LEMMA GrownParts ==
    ASSUME NEW ms, NEW cs, NEW fs, NEW done, Grow(ms, cs, fs, done)
    PROVE  LET X == cs \cup {m[1] : m \in ms} \cup UNION {methods[m].descriptor : m \in ms}
           IN  /\ graph'.classes = graph.classes \cup Marked(X)
               /\ graph'.methods = graph.methods \cup ms
                                   \cup WithInitializers(Marked(X) \ graph.classes)
               /\ graph'.fields = graph.fields \cup fs
               /\ graph' = [classes |-> graph'.classes, methods |-> graph'.methods,
                            fields |-> graph'.fields]
               /\ pending' = (pending \cup (graph'.methods \ graph.methods)) \ done
<1> DEFINE X == cs \cup {m[1] : m \in ms} \cup UNION {methods[m].descriptor : m \in ms}
           marked == graph.classes \cup Marked(X)
<1>1. /\ graph' = [classes |-> marked,
                   methods |-> graph.methods \cup ms \cup WithInitializers(marked \ graph.classes),
                   fields  |-> graph.fields \cup fs]
      /\ pending' = (pending \cup (graph'.methods \ graph.methods)) \ done
  BY DEF Grow, Grown
<1>2. marked \ graph.classes = Marked(X) \ graph.classes
  OBVIOUS
<1> QED BY <1>1, <1>2

\* That ms, cs and fs are what the methods done hold, and that they are needed.
Justified(ms, cs, fs, done) ==
    /\ ms \subseteq Declared /\ done \subseteq graph.methods
    /\ fs \subseteq Nat \X STRING \X STRING /\ fs = FieldsOf(done)
    /\ Entry \in graph.methods \cup ms
    /\ \A m \in done :
         /\ methods[m].descriptor \subseteq cs
         /\ \A i \in methods[m].code :
              /\ i.class \in Classes =>
                   /\ i.class \in cs \cup {n[1] : n \in ms}
                   /\ i.kind = "call" => <<i.class, i.member>> \in ms
              /\ i.kind \in {"static", "field"} => i.names \subseteq cs
    /\ \A cs2 \in SUBSET Classes, ms2 \in SUBSET Declared :
         Entry \in ms2 /\ AllClosed(cs2, ms2) /\ graph.methods \subseteq ms2 =>
           cs \cap Classes \subseteq cs2 /\ ms \subseteq ms2

\* Growing by what ms, cs and fs mark keeps the invariant.
LEMMA GrowKeeps ==
    ASSUME ScanInv, NEW ms, NEW cs, NEW fs, NEW done, Justified(ms, cs, fs, done),
           Grow(ms, cs, fs, done), UNCHANGED <<jarVars, scan>>, scan = "scan"
    PROVE  ScanInv'
<1> USE DEF Justified
<1> DEFINE X == cs \cup {m[1] : m \in ms} \cup UNION {methods[m].descriptor : m \in ms}
           new == WithInitializers(Marked(X) \ graph.classes)
<1>1. /\ graph'.classes = graph.classes \cup Marked(X)
      /\ graph'.methods = graph.methods \cup ms \cup new
      /\ graph'.fields = graph.fields \cup fs
      /\ graph' = [classes |-> graph'.classes, methods |-> graph'.methods,
                   fields |-> graph'.fields]
      /\ pending' = (pending \cup (graph'.methods \ graph.methods)) \ done
  BY GrownParts
<1>2. /\ Marked(X) \subseteq Classes /\ X \cap Classes \subseteq Marked(X)
      /\ \A c \in Marked(X) : mentions[c] \cap Classes \subseteq Marked(X)
      /\ \A S \in SUBSET Classes :
           (X \cap Classes \subseteq S /\ \A d \in S : mentions[d] \cap Classes \subseteq S)
             => Marked(X) \subseteq S
  BY MarkedLeast
<1>3. \A n : n \in new <=> \E c \in Marked(X) \ graph.classes : n = <<c, Clinit>> /\ n \in Declared
  BY DEF WithInitializers, Initializers
<1> HIDE DEF X, new
<1>4. /\ ms \subseteq graph'.methods /\ {m[1] : m \in ms} \subseteq X /\ cs \subseteq X
      /\ \A m \in ms : methods[m].descriptor \subseteq X
  BY <1>1 DEF X
<1>5. /\ methods' = methods /\ mentions' = mentions /\ Declared' = Declared /\ scan' = scan
      /\ \A c, cs2, ms2 : ClassClosed(c, cs2, ms2)' <=> ClassClosed(c, cs2, ms2)
      /\ \A m, cs2, ms2 : CodeClosed(m, cs2, ms2)' <=> CodeClosed(m, cs2, ms2)
      /\ \A cs2, ms2 : AllClosed(cs2, ms2)' <=> AllClosed(cs2, ms2)
      /\ \A ms2 : FieldsOf(ms2)' = FieldsOf(ms2)
  BY DEF jarVars, Declared, ClassClosed, CodeClosed, AllClosed, FieldsOf, FieldUses, Instrs
<1>6. /\ graph \in GraphSet /\ graph.methods \subseteq Declared /\ pending \subseteq graph.methods
      /\ Declared \subseteq Methods \ External
  BY DEF ScanInv, ScanType, JarType
<1>7. \A m \in Declared : m[1] \in Classes
  BY <1>6 DEF External
<1>8. JarType'
  BY <1>5 DEF ScanInv, JarType
<1>9. ScanType'
  <2>1. new \subseteq Declared
    BY <1>3
  <2>2. graph'.methods \subseteq Declared /\ graph'.classes \subseteq Classes
    BY <1>1, <1>2, <1>6, <2>1 DEF GraphSet
  <2>3. graph'.fields \subseteq Nat \X STRING \X STRING
    BY <1>1, <1>6 DEF GraphSet
  <2>4. graph' \in GraphSet
    BY <1>1, <1>6, <2>2, <2>3 DEF GraphSet
  <2>5. pending' \subseteq graph'.methods /\ Entry \in graph'.methods
    BY <1>1, <1>6
  <2> QED BY <1>5, <2>2, <2>4, <2>5 DEF ScanType
<1>10. ASSUME NEW c \in graph'.classes
       PROVE  ClassClosed(c, graph'.classes, graph'.methods)
  <2>1. CASE c \in graph.classes
    <3>1. ClassClosed(c, graph.classes, graph.methods)
      BY <2>1 DEF ScanInv, GraphClosed
    <3> QED BY <3>1, <1>1 DEF ClassClosed
  <2>2. CASE c \in Marked(X) \ graph.classes
    <3>1. mentions[c] \cap Classes \subseteq graph'.classes
      BY <2>2, <1>1, <1>2
    <3>2. <<c, Clinit>> \in Declared => <<c, Clinit>> \in graph'.methods
      BY <2>2, <1>1, <1>3
    <3> QED BY <3>1, <3>2 DEF ClassClosed
  <2> QED BY <2>1, <2>2, <1>1
<1>11. ASSUME NEW m \in graph'.methods
       PROVE  m[1] \in graph'.classes
  <2>1. CASE m \in graph.methods
    BY <2>1, <1>1 DEF ScanInv, GraphClosed
  <2>2. CASE m \in ms
    BY <2>2, <1>1, <1>2, <1>4, <1>7
  <2>3. CASE m \in new
    BY <2>3, <1>1, <1>3
  <2> QED BY <2>1, <2>2, <2>3, <1>1
<1>12. graph'.methods \ pending' = (graph.methods \ pending) \cup done
  BY <1>1
<1>13. ASSUME NEW m \in graph'.methods \ pending'
       PROVE  CodeClosed(m, graph'.classes, graph'.methods)
  <2>1. CASE m \in graph.methods \ pending
    <3>1. CodeClosed(m, graph.classes, graph.methods)
      BY <2>1 DEF ScanInv, GraphClosed
    <3> QED BY <3>1, <1>1 DEF CodeClosed
  <2>2. CASE m \in done
    <3>1. methods[m].descriptor \cap Classes \subseteq graph'.classes
      BY <2>2, <1>1, <1>2, <1>4
    <3>2. ASSUME NEW i \in methods[m].code, i.class \in Classes
          PROVE  /\ i.class \in graph'.classes
                 /\ i.kind = "call" => <<i.class, i.member>> \in graph'.methods
      BY <2>2, <3>2, <1>1, <1>2, <1>4
    <3>3. ASSUME NEW i \in methods[m].code, i.kind \in {"static", "field"}
          PROVE  i.names \cap Classes \subseteq graph'.classes
      <4>1. i.names \subseteq cs
        BY <2>2, <3>3
      <4> QED BY <4>1, <1>1, <1>2, <1>4
    <3> QED BY <3>1, <3>2, <3>3 DEF CodeClosed
  <2> QED BY <2>1, <2>2, <1>12
<1>14. GraphClosed'
  BY <1>5, <1>10, <1>11, <1>13 DEF GraphClosed
<1>15. GraphFields'
  <2>1. FieldsOf((graph.methods \ pending) \cup done)
          = FieldsOf(graph.methods \ pending) \cup FieldsOf(done)
    BY DEF FieldsOf
  <2>2. graph'.fields = FieldsOf(graph'.methods \ pending')
    BY <2>1, <1>1, <1>12 DEF ScanInv, GraphFields
  <2> QED BY <2>2, <1>5 DEF GraphFields
<1>16. ASSUME NEW cs2 \in SUBSET Classes, NEW ms2 \in SUBSET Declared,
              Entry \in ms2, AllClosed(cs2, ms2)
       PROVE  graph'.classes \subseteq cs2 /\ graph'.methods \subseteq ms2
  <2>1. graph.classes \subseteq cs2 /\ graph.methods \subseteq ms2
    BY <1>16 DEF ScanInv, GraphNeeded
  <2>2. cs \cap Classes \subseteq cs2 /\ ms \subseteq ms2
    BY <1>16, <2>1
  <2>3. \A m \in ms : m[1] \in cs2 /\ methods[m].descriptor \cap Classes \subseteq cs2
    BY <1>16, <2>2 DEF AllClosed, CodeClosed
  <2>4. X \cap Classes \subseteq cs2
    BY <2>2, <2>3 DEF X
  <2>5. \A d \in cs2 : mentions[d] \cap Classes \subseteq cs2
    BY <1>16 DEF AllClosed, ClassClosed
  <2>6. Marked(X) \subseteq cs2
    BY <2>4, <2>5, <1>2
  <2>7. ASSUME NEW n \in new PROVE n \in ms2
    <3>1. PICK c \in Marked(X) \ graph.classes : n = <<c, Clinit>> /\ n \in Declared
      BY <1>3
    <3>2. ClassClosed(c, cs2, ms2)
      BY <3>1, <2>6, <1>16 DEF AllClosed
    <3> QED BY <3>1, <3>2 DEF ClassClosed
  <2> QED BY <1>1, <2>1, <2>2, <2>6, <2>7
<1>17. GraphNeeded'
  BY <1>5, <1>16 DEF GraphNeeded
<1> QED BY <1>8, <1>9, <1>14, <1>15, <1>17 DEF ScanInv

LEMMA GraphStays ==
    ASSUME ScanInv, UNCHANGED <<jarVars, graph, pending>>
    PROVE  JarType' /\ GraphClosed' /\ GraphFields' /\ GraphNeeded'
<1>1. /\ methods' = methods /\ mentions' = mentions /\ Declared' = Declared
      /\ graph' = graph /\ pending' = pending
      /\ \A c, cs2, ms2 : ClassClosed(c, cs2, ms2)' <=> ClassClosed(c, cs2, ms2)
      /\ \A m, cs2, ms2 : CodeClosed(m, cs2, ms2)' <=> CodeClosed(m, cs2, ms2)
      /\ \A cs2, ms2 : AllClosed(cs2, ms2)' <=> AllClosed(cs2, ms2)
      /\ \A ms2 : FieldsOf(ms2)' = FieldsOf(ms2)
  BY DEF jarVars, Declared, ClassClosed, CodeClosed, AllClosed, FieldsOf, FieldUses, Instrs
<1> QED BY <1>1 DEF ScanInv, JarType, GraphClosed, GraphFields, GraphNeeded

LEMMA NoReportStep ==
    ASSUME ScanInv, NoReport, UNCHANGED jarVars
    PROVE  ScanInv'
<1>1. scan' = "failed" /\ UNCHANGED <<jarVars, graph, pending>>
  BY DEF NoReport
<1>2. ScanType'
  BY <1>1 DEF ScanInv, ScanType, jarVars, Declared
<1> QED BY <1>1, <1>2, GraphStays DEF ScanInv

\* The first call of enqueue_method.
LEMMA ScanEntryStep ==
    ASSUME ScanInv, ScanEntry, UNCHANGED jarVars
    PROVE  ScanInv'
<1>1. CASE CanEnqueue(Entry)
  <2>1. /\ Grow({Entry}, {}, {}, {}) /\ scan' = scan /\ scan = "scan"
        /\ graph.methods = {} /\ Entry \in Declared
    BY <1>1 DEF ScanEntry, CanEnqueue
  <2>2. Justified({Entry}, {}, {}, {})
    BY <2>1 DEF Justified, FieldsOf
  <2> QED BY <2>1, <2>2, GrowKeeps
<1>2. CASE ~CanEnqueue(Entry)
  BY <1>2, NoReportStep DEF ScanEntry
<1> QED BY <1>1, <1>2

\* scan_method, for the next method of the worklist.
LEMMA ScanStep ==
    ASSUME ScanInv, Scan, UNCHANGED jarVars
    PROVE  ScanInv'
<1>1. PICK m \in pending :
        IF Unreadable(m) THEN NoReport
        ELSE /\ Grow(AppCalls(m), ScannedClasses(m),
                     {FieldNode(i) : i \in {i \in FieldUses(m) : i.class \in Classes}}, {m})
             /\ UNCHANGED <<scan, reported, diagnostics>>
  BY DEF Scan
<1>2. CASE Unreadable(m)
  BY <1>1, <1>2, NoReportStep
<1>3. CASE ~Unreadable(m)
  <2> DEFINE ms == AppCalls(m)
             cs == ScannedClasses(m)
             fs == {FieldNode(i) : i \in {i \in FieldUses(m) : i.class \in Classes}}
  <2>1. Grow(ms, cs, fs, {m}) /\ UNCHANGED <<jarVars, scan>> /\ scan = "scan"
    BY <1>1, <1>3 DEF Scan
  <2>2. m \in graph.methods /\ m \in Declared /\ methods[m] \in MethodInfo
        /\ Entry \in graph.methods
    BY DEF ScanInv, ScanType, JarType
  <2>3. ms \subseteq Declared /\ Instrs(m, {"refused"}) = {}
    BY <1>3 DEF Unreadable, CanEnqueue
  <2>4. \A i \in methods[m].code : i \in Instruction /\ i.kind # "refused"
    BY <2>2, <2>3 DEF MethodInfo, Instrs
  <2>5. fs \subseteq Nat \X STRING \X STRING
    BY <2>4 DEF FieldUses, Instrs, Instruction, FieldNode
  <2>6. fs = FieldsOf({m})
    BY DEF FieldsOf
  <2>7. ASSUME NEW i \in methods[m].code, i.class \in Classes
        PROVE  /\ i.class \in cs \cup {n[1] : n \in ms}
               /\ i.kind = "call" => <<i.class, i.member>> \in ms
    <3>1. CASE i.kind = "call"
      <4>1. <<i.class, i.member>> \in ms
        BY <3>1, <2>7 DEF AppCalls, Instrs
      <4> QED BY <4>1
    <3>2. CASE i.kind \in {"new", "array", "cast"}
      BY <3>2 DEF ScannedClasses, Instrs
    <3>3. CASE i.kind \in {"static", "field"}
      BY <3>3 DEF ScannedClasses, FieldUses, Instrs
    <3> QED BY <3>1, <3>2, <3>3, <2>4 DEF Instruction
  <2>8. ASSUME NEW cs2 \in SUBSET Classes, NEW ms2 \in SUBSET Declared,
               AllClosed(cs2, ms2), graph.methods \subseteq ms2
        PROVE  cs \cap Classes \subseteq cs2 /\ ms \subseteq ms2
    <3>1. CodeClosed(m, cs2, ms2)
      BY <2>2, <2>8 DEF AllClosed
    <3>2. \A i \in Instrs(m, {"new", "array", "cast"}) \cup FieldUses(m) :
            i.class \in Classes => i.class \in cs2
      BY <3>1 DEF CodeClosed, FieldUses, Instrs
    <3>3. \A i \in FieldUses(m) : i.names \cap Classes \subseteq cs2
      BY <3>1 DEF CodeClosed, FieldUses, Instrs
    <3>4. cs \cap Classes \subseteq cs2
      BY <3>1, <3>2, <3>3 DEF ScannedClasses, CodeClosed
    <3>5. ms \subseteq ms2
      BY <3>1 DEF CodeClosed, AppCalls, Instrs
    <3> QED BY <3>4, <3>5
  <2>9. methods[m].descriptor \subseteq cs
    BY DEF ScannedClasses
  <2>10. ASSUME NEW i \in methods[m].code, i.kind \in {"static", "field"}
         PROVE  i.names \subseteq cs
    <3>1. i \in FieldUses(m)
      BY <2>10 DEF FieldUses, Instrs
    <3> QED BY <3>1 DEF ScannedClasses
  <2>11. Justified(ms, cs, fs, {m})
    <3> HIDE DEF ms, cs, fs
    <3> QED BY <2>2, <2>3, <2>5, <2>6, <2>7, <2>8, <2>9, <2>10 DEF Justified
  <2> HIDE DEF ms, cs, fs
  <2> QED BY <2>1, <2>11, GrowKeeps
<1> QED BY <1>2, <1>3

\* One step of the scan and of the report.
LEMMA ScanInvStep ==
    ASSUME ScanInv, ScanNext \/ UNCHANGED scanVars, UNCHANGED jarVars
    PROVE  ScanInv'
<1>1. CASE ScanEntry  BY <1>1, ScanEntryStep
<1>2. CASE Scan       BY <1>2, ScanStep
<1>3. CASE Scanned \/ Report \/ UNCHANGED scanVars
  <2>1. /\ UNCHANGED <<jarVars, graph, pending>>
        /\ \/ scan' = scan
           \/ scan = "scan" /\ scan' = "lower" /\ graph.methods # {} /\ pending = {}
           \/ scan = "lower" /\ scan' = "done"
    BY <1>3 DEF Scanned, Report, scanVars
  <2>2. ScanType'
    BY <2>1 DEF ScanInv, ScanType, jarVars, Declared
  <2> QED BY <2>1, <2>2, GraphStays DEF ScanInv
<1> QED BY <1>1, <1>2, <1>3 DEF ScanNext

LEMMA ScanInvInit == JarType /\ ScanInit => ScanInv
<1> SUFFICES ASSUME JarType, ScanInit PROVE ScanInv
  OBVIOUS
<1>1. /\ scan = "scan" /\ pending = {}
      /\ graph = [classes |-> {}, methods |-> {}, fields |-> {}]
  BY DEF ScanInit
<1>2. ScanType
  BY <1>1 DEF ScanType, GraphSet
<1>3. GraphFields
  BY <1>1 DEF GraphFields, FieldsOf
<1> QED BY <1>1, <1>2, <1>3 DEF ScanInv, GraphClosed, GraphNeeded

\* When the worklist has run empty, the invariant is the property.
LEMMA ScanInvExact == ScanInv => ReportIsExact
<1> SUFFICES ASSUME ScanInv, scan = "lower"
             PROVE  /\ Entry \in graph.methods /\ ClosedReport(graph)
                    /\ \A cs \in SUBSET graph.classes, ms \in SUBSET graph.methods :
                         Entry \in ms
                           /\ ClosedReport([graph EXCEPT !.classes = cs, !.methods = ms]) =>
                             cs = graph.classes /\ ms = graph.methods
                    /\ graph.fields =
                         {FieldNode(i) :
                            i \in {i \in UNION {FieldUses(m) : m \in graph.methods} :
                                     i.class \in Classes}}
  BY DEF ReportIsExact
<1>1. /\ Entry \in graph.methods /\ pending = {} /\ graph \in GraphSet
      /\ graph.methods \subseteq Declared /\ graph.classes \subseteq Classes
  BY DEF ScanInv, ScanType, GraphSet
<1>2. graph.fields = FieldsOf(graph.methods)
  BY <1>1 DEF ScanInv, GraphFields
<1>3. ASSUME NEW m \in graph.methods, NEW i \in methods[m].code, i.class \in Classes,
             i.kind \in {"static", "field"}
      PROVE  FieldNode(i) \in graph.fields
  BY <1>2, <1>3 DEF FieldsOf, FieldUses, Instrs
<1>4. ClosedReport(graph)
  <2>1. \A c \in graph.classes : ClassClosed(c, graph.classes, graph.methods)
    BY DEF ScanInv, GraphClosed
  <2>2. \A m \in graph.methods :
          m[1] \in graph.classes /\ CodeClosed(m, graph.classes, graph.methods)
    BY <1>1 DEF ScanInv, GraphClosed
  <2> QED BY <1>3, <2>1, <2>2 DEF ClosedReport, ClassClosed, CodeClosed
<1>5. ASSUME NEW cs \in SUBSET graph.classes, NEW ms \in SUBSET graph.methods, Entry \in ms,
             ClosedReport([graph EXCEPT !.classes = cs, !.methods = ms])
      PROVE  cs = graph.classes /\ ms = graph.methods
  <2> DEFINE g == [graph EXCEPT !.classes = cs, !.methods = ms]
  <2>1. g.classes = cs /\ g.methods = ms
    BY <1>1 DEF GraphSet
  <2>2. ClosedReport(g)
    BY <1>5
  <2> HIDE DEF g
  <2>3. AllClosed(cs, ms)
    BY <2>1, <2>2 DEF ClosedReport, AllClosed, ClassClosed, CodeClosed
  <2> QED BY <2>3, <1>1, <1>5 DEF ScanInv, GraphNeeded
<1> QED BY <1>1, <1>2, <1>4, <1>5 DEF FieldsOf

\* For every JAR, what the report lists is exactly what main needs: with a class
\* the types of its fields and its initializer, with a method all that it names
\* (ReachabilityAnalyzer::run).
THEOREM ReportExact ==
    JarType /\ ScanInit /\ [][ScanNext /\ UNCHANGED jarVars]_<<jarVars, scanVars>>
      => []ReportIsExact
<1>1. ScanInv /\ [ScanNext /\ UNCHANGED jarVars]_<<jarVars, scanVars>> => ScanInv'
  BY ScanInvStep DEF scanVars
<1> QED BY <1>1, ScanInvInit, ScanInvExact, PTL
=============================================================================
