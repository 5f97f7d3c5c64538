--------------------------- MODULE ArtifactStoreMC ---------------------------
(* Instances of ArtifactStore for TLC. *)
EXTENDS ArtifactStore, TLC

CONSTANTS p1, p2, s1, s2

MCProcs == {p1, p2}
MCNames == {s1, s2}
Alike   == Permutations(MCProcs)

Build(f)      == [op |-> "build", force |-> f]
Run(s, n, o)  == [op |-> "run", from |-> s, iterations |-> n, once |-> o, record |-> TRUE]
Snapshot(s, v) == [op |-> "snapshot", name |-> s, verify |-> v]
Inspect(j)    == [op |-> "inspect", verify |-> TRUE, json |-> j]

\* A run that serves, one that records nothing, a benchmark of two iterations.
AllCommands ==
    {Build(TRUE), Inspect(FALSE), Inspect(TRUE), Snapshot(s1, TRUE), Snapshot(s2, FALSE),
     Run(NoName, 1, FALSE), [Run(s1, 2, FALSE) EXCEPT !.record = FALSE]}
=============================================================================
