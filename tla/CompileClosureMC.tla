--------------------------- MODULE CompileClosureMC ---------------------------
(* Instances of CompileClosure for TLC. *)
EXTENDS CompileClosure, TLC

MCClasses == {1, 2, 3}
main      == <<1, "main">>
helper    == <<3, "helper">>
outside   == <<9, "println">>
MCMethods == {main, helper, outside, <<1, Clinit>>, <<2, Clinit>>, <<3, Clinit>>}

Small(S, n) == {s \in SUBSET S : Cardinality(s) <= n}

\* helper is called by main or by the initializers of 1 and 2, and uses at most
\* one class, as each initializer does; helper may be rejected, main may call out of the JAR.
OneUse ==
    LET with(f) == [m \in MCMethods |-> IF m \in DOMAIN f THEN f[m] ELSE {}]
        first   == {<<1, Clinit>>, <<2, Clinit>>}
        users   == {helper, <<1, Clinit>>, <<2, Clinit>>, <<3, Clinit>>}
    IN {[initialized |-> i, calls |-> with(c @@ (main :> k)), uses |-> with(u), rejected |-> r] :
          i \in {{2, 3}, {1, 2, 3}},
          c \in [first -> {{}, {helper}}],
          k \in {{}, {helper}, {helper, outside}},
          u \in [users -> Small(MCClasses, 1)],
          r \in {{}, {helper}}}

\* Initializers that use any classes, and no other method that matters.
Initializers3 ==
    LET own == {<<c, Clinit>> : c \in MCClasses}
        all(u) == [m \in MCMethods |-> IF m \in own THEN u[m] ELSE {2}]
    IN {[initialized |-> MCClasses, calls |-> [m \in MCMethods |-> {}], uses |-> all(u),
         rejected |-> {}] :
          u \in [own -> SUBSET MCClasses]}

MCPrograms == OneUse \cup Initializers3
=============================================================================
