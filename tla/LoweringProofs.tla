---------------------------- MODULE LoweringProofs ----------------------------
(***************************************************************************)
(* Whatever the method, a block's frame only holds values in scope in it;  *)
(* and code without dead instructions is never refused for its order, nor  *)
(* for anything that the verifier requires but types.                      *)
(*                                                                         *)
(* WalkInv is the invariant of the depth-first walk that orders the        *)
(* blocks: what was found is closed under successors, and every block but  *)
(* the entry has a predecessor after it in postorder.  LowerInv is that of *)
(* the lowering of the blocks in that order: Sane of any code, and of      *)
(* straight code Sound too, which has the blocks lowered well-formed and   *)
(* every value defined once.  The entries that edges capture and the code  *)
(* of a concatenation are recursive functions: what holds of them is       *)
(* proved of the least argument for which it could fail.                   *)
(***************************************************************************)
EXTENDS Lowering, TLAPS, FiniteSetTheorems, SequenceTheorems, WellFoundedInduction

-----------------------------------------------------------------------------
(* Numbers and sequences. *)

Least(S) == CHOOSE n \in S : \A m \in S : n <= m

\* A set of naturals that is not empty has a least.
LEMMA LeastNatural ==
    ASSUME NEW S \in SUBSET Nat, S # {}
    PROVE  Least(S) \in S /\ \A n \in S : Least(S) <= n
<1> DEFINE R == {p \in Nat \X Nat : p[1] < p[2]}
<1>1. IsWellFoundedOn(R, Nat)
  BY NatLessThanWellFounded DEF OpToRel
<1>2. PICK m \in S : \A n \in S : <<n, m>> \notin R
  <2> HIDE DEF R
  <2> QED BY <1>1, WFMin
<1>3. \A n \in S : m <= n
  <2> SUFFICES ASSUME NEW n \in S PROVE m <= n
    OBVIOUS
  <2>1. <<n, m>> \notin R
    BY <1>2
  <2>2. ~(n < m)
    BY <2>1
  <2> QED BY <2>2
<1> QED BY <1>3 DEF Least

IsSeq(s) == s \in Seq(ToSet(s))

\* Whatever it is a sequence of, it is a sequence.
LEMMA SeqOver ==
    ASSUME NEW S, NEW s \in Seq(S)
    PROVE  /\ IsSeq(s) /\ Len(s) \in Nat /\ DOMAIN s = 1 .. Len(s)
           /\ ToSet(s) \subseteq S /\ \A k \in 1 .. Len(s) : s[k] \in S
<1>1. Len(s) \in Nat /\ DOMAIN s = 1 .. Len(s) /\ s \in [1 .. Len(s) -> S]
  BY LenProperties
<1>2. s \in [1 .. Len(s) -> ToSet(s)]
  BY <1>1 DEF ToSet
<1>3. s \in Seq(ToSet(s))
  BY <1>1, <1>2, SeqDef
<1> QED BY <1>1, <1>3 DEF IsSeq, ToSet

\* A function on the first numbers is a sequence.
LEMMA SeqMade ==
    ASSUME NEW n \in Nat, NEW s, DOMAIN s = 1 .. n, s = [k \in 1 .. n |-> s[k]]
    PROVE  IsSeq(s) /\ Len(s) = n
<1>1. s \in [1 .. n -> ToSet(s)]
  BY DEF ToSet
<1>2. s \in Seq(ToSet(s))
  BY <1>1, SeqDef
<1> QED BY <1>1, <1>2, LenProperties DEF IsSeq

\* A sequence's elements, by position.
LEMMA SeqIs ==
    ASSUME NEW s, IsSeq(s)
    PROVE  /\ s \in Seq(ToSet(s)) /\ Len(s) \in Nat /\ DOMAIN s = 1 .. Len(s)
           /\ \A k \in 1 .. Len(s) : s[k] \in ToSet(s)
           /\ \A x \in ToSet(s) : \E k \in 1 .. Len(s) : x = s[k]
BY LenProperties DEF IsSeq, ToSet

\* The empty sequence.
LEMMA SeqEmpty == IsSeq(<<>>) /\ Len(<<>>) = 0 /\ ToSet(<<>>) = {} /\ DOMAIN <<>> = {}
<1>1. <<>> \in Seq({}) /\ Len(<<>>) = 0
  BY EmptySeq
<1>2. DOMAIN <<>> = {}
  BY <1>1, LenProperties
<1> QED BY <1>1, <1>2, SeqOver DEF ToSet

\* What a concatenation is made of.
LEMMA Joined ==
    ASSUME NEW s, NEW t, IsSeq(s), IsSeq(t)
    PROVE  /\ IsSeq(s \o t) /\ Len(s \o t) = Len(s) + Len(t)
           /\ DOMAIN (s \o t) = 1 .. Len(s) + Len(t)
           /\ \A k \in 1 .. Len(s) : (s \o t)[k] = s[k]
           /\ \A k \in 1 .. Len(t) : (s \o t)[Len(s) + k] = t[k]
           /\ \A k \in 1 .. Len(s) + Len(t) :
                IF k <= Len(s) THEN (s \o t)[k] = s[k]
                ELSE k - Len(s) \in 1 .. Len(t) /\ (s \o t)[k] = t[k - Len(s)]
           /\ ToSet(s \o t) = ToSet(s) \cup ToSet(t)
<1> DEFINE S == ToSet(s) \cup ToSet(t)
           u == s \o t
<1>1. s \in Seq(S) /\ t \in Seq(S)
  BY SeqMonotonic DEF IsSeq
<1>2. /\ Len(s) \in Nat /\ Len(t) \in Nat /\ DOMAIN s = 1 .. Len(s) /\ DOMAIN t = 1 .. Len(t)
  BY <1>1, LenProperties
<1>3. /\ u \in Seq(S) /\ Len(u) = Len(s) + Len(t)
      /\ \A k \in 1 .. Len(s) + Len(t) : u[k] = IF k <= Len(s) THEN s[k] ELSE t[k - Len(s)]
  <2> HIDE DEF S
  <2> QED BY <1>1, ConcatProperties
<1>4. IsSeq(u) /\ DOMAIN u = 1 .. Len(s) + Len(t) /\ ToSet(u) \subseteq S
  BY <1>3, SeqOver
<1> HIDE DEF u
<1>5. \A k \in 1 .. Len(s) : u[k] = s[k]
  BY <1>2, <1>3
<1>6. \A k \in 1 .. Len(t) : u[Len(s) + k] = t[k]
  BY <1>2, <1>3
<1>7. \A k \in 1 .. Len(s) + Len(t) : ~(k <= Len(s)) => k - Len(s) \in 1 .. Len(t)
  BY <1>2
<1>8. S \subseteq ToSet(u)
  <2>1. \A k \in 1 .. Len(s) : k \in DOMAIN u
    BY <1>2, <1>4
  <2>2. \A k \in 1 .. Len(t) : Len(s) + k \in DOMAIN u
    BY <1>2, <1>4
  <2>3. ToSet(s) \subseteq ToSet(u)
    BY <1>2, <1>5, <2>1 DEF ToSet
  <2>4. ToSet(t) \subseteq ToSet(u)
    BY <1>2, <1>6, <2>2 DEF ToSet
  <2> QED BY <2>3, <2>4
<1> QED BY <1>3, <1>4, <1>5, <1>6, <1>7, <1>8 DEF u

\* What a sequence with one more element is made of.
LEMMA Appended ==
    ASSUME NEW s, NEW x, IsSeq(s)
    PROVE  /\ IsSeq(Append(s, x)) /\ Len(Append(s, x)) = Len(s) + 1 /\ Append(s, x) # <<>>
           /\ DOMAIN Append(s, x) = 1 .. Len(s) + 1
           /\ \A k \in 1 .. Len(s) : Append(s, x)[k] = s[k]
           /\ Append(s, x)[Len(s) + 1] = x
           /\ ToSet(Append(s, x)) = ToSet(s) \cup {x}
<1> DEFINE S == ToSet(s) \cup {x}
           u == Append(s, x)
<1>1. s \in Seq(S) /\ x \in S
  BY SeqMonotonic DEF IsSeq
<1>2. Len(s) \in Nat /\ DOMAIN s = 1 .. Len(s)
  BY <1>1, LenProperties
<1>3. /\ u \in Seq(S) /\ Len(u) = Len(s) + 1 /\ u # <<>>
      /\ \A k \in 1 .. Len(s) : u[k] = s[k]
      /\ u[Len(s) + 1] = x
  <2> HIDE DEF S
  <2> QED BY <1>1, AppendProperties
<1>4. IsSeq(u) /\ DOMAIN u = 1 .. Len(s) + 1 /\ ToSet(u) \subseteq S
  BY <1>3, SeqOver
<1> HIDE DEF u
<1>5. S \subseteq ToSet(u)
  <2>1. Len(s) + 1 \in DOMAIN u /\ \A k \in 1 .. Len(s) : k \in DOMAIN u
    BY <1>2, <1>4
  <2> QED BY <1>2, <1>3, <2>1 DEF ToSet
<1> QED BY <1>3, <1>4, <1>5 DEF u

\* The same of a sequence that is another with one more element.
IsLonger(s, x, u) ==
    /\ IsSeq(u) /\ Len(u) = Len(s) + 1 /\ u # <<>> /\ DOMAIN u = 1 .. Len(s) + 1
    /\ \A k \in 1 .. Len(s) : u[k] = s[k]
    /\ u[Len(s) + 1] = x
    /\ ToSet(u) = ToSet(s) \cup {x}

\* Appending makes it so.
LEMMA Longer == \A s, x : IsSeq(s) => IsLonger(s, x, Append(s, x))
<1> SUFFICES ASSUME NEW s, NEW x, IsSeq(s)
             PROVE  IsLonger(s, x, Append(s, x))
  OBVIOUS
<1> DEFINE u == Append(s, x)
<1>1. /\ IsSeq(u) /\ Len(u) = Len(s) + 1 /\ u # <<>> /\ DOMAIN u = 1 .. Len(s) + 1
      /\ \A k \in 1 .. Len(s) : u[k] = s[k]
      /\ u[Len(s) + 1] = x
      /\ ToSet(u) = ToSet(s) \cup {x}
  BY Appended
<1> HIDE DEF u
<1>2. IsLonger(s, x, u)
  BY <1>1 DEF IsLonger
<1> QED BY <1>2 DEF u

\* What a part of a sequence is made of.
LEMMA Part ==
    ASSUME NEW s, IsSeq(s), NEW m \in Nat \ {0}, NEW n \in Int, n <= Len(s)
    PROVE  /\ IsSeq(SubSeq(s, m, n))
           /\ Len(SubSeq(s, m, n)) = IF m <= n THEN n - m + 1 ELSE 0
           /\ DOMAIN SubSeq(s, m, n) = 1 .. Len(SubSeq(s, m, n))
           /\ \A k \in 1 .. Len(SubSeq(s, m, n)) :
                m + k - 1 \in 1 .. Len(s) /\ SubSeq(s, m, n)[k] = s[m + k - 1]
           /\ ToSet(SubSeq(s, m, n)) \subseteq ToSet(s)
<1> DEFINE u == SubSeq(s, m, n)
<1>1. Len(s) \in Nat /\ \A k \in 1 .. Len(s) : s[k] \in ToSet(s)
  BY SeqIs
<1>2. \A k \in m .. n : s[k] \in ToSet(s)
  BY <1>1
<1>3. /\ u \in Seq(ToSet(s)) /\ Len(u) = IF m <= n THEN n - m + 1 ELSE 0
      /\ \A k \in 1 .. n - m + 1 : u[k] = s[m + k - 1]
  BY <1>1, <1>2, SubSeqProperties
<1>4. IsSeq(u) /\ DOMAIN u = 1 .. Len(u) /\ ToSet(u) \subseteq ToSet(s)
  BY <1>3, SeqOver
<1> HIDE DEF u
<1>5. \A k \in 1 .. Len(u) : m + k - 1 \in 1 .. Len(s) /\ u[k] = s[m + k - 1]
  BY <1>1, <1>3
<1> QED BY <1>3, <1>4, <1>5 DEF u

-----------------------------------------------------------------------------
(* The plan of a method's blocks. *)

\* Where the block at b ends: before the next leader, or with the code.
EndsAt(c, b) ==
    /\ End(c, b) \in Leaders(c) \cup {Len(c) + 1}
    /\ End(c, b) \in Nat /\ End(c, b) > b /\ End(c, b) <= Len(c) + 1
    /\ \A d \in Leaders(c) : d > b => End(c, b) <= d

\* What a plan gives: blocks that start and end in the code, and lead to blocks, never to the
\* entry.
Planned(c) ==
    /\ IsSeq(c) /\ Len(c) > 0 /\ \A i \in DOMAIN c : IsInstruction(c[i])
    /\ \A i \in DOMAIN c : c[i].op \in Opcodes
    /\ c[Len(c)].op \notin Normal
    /\ 1 \in Leaders(c) /\ Leaders(c) \subseteq DOMAIN c
    /\ \A b \in Leaders(c) : EndsAt(c, b)
    /\ \A b \in Leaders(c) : Successors(c, b) \in Seq(Leaders(c))
    /\ \A b \in Leaders(c) : 1 \notin ToSet(Successors(c, b))

\* Every target of an instruction is a leader, and so is what follows a conditional.
LEMMA TargetsLead ==
    ASSUME NEW c, NEW i \in DOMAIN c
    PROVE  ToSet(c[i].to) \subseteq Leaders(c) /\ (c[i].op \in Conditional => i + 1 \in Leaders(c))
BY DEF Leaders, Targets, Follows

\* A block of code whose leaders are instructions ends at the next leader or with the code.
LEMMA EndOfBlock ==
    ASSUME NEW c, IsSeq(c), Leaders(c) \subseteq DOMAIN c, NEW b \in Leaders(c)
    PROVE  EndsAt(c, b)
<1> DEFINE S == {e \in Leaders(c) \cup {Len(c) + 1} : e > b}
<1>1. Len(c) \in Nat /\ DOMAIN c = 1 .. Len(c)
  BY SeqIs
<1>2. S \in SUBSET Nat /\ Len(c) + 1 \in S
  BY <1>1
<1>3. Least(S) \in S /\ \A n \in S : Least(S) <= n
  <2> HIDE DEF S
  <2> QED BY <1>2, LeastNatural
<1>4. /\ Least(S) \in Leaders(c) \cup {Len(c) + 1} /\ Least(S) > b
      /\ \A d \in Leaders(c) : d > b => Least(S) <= d
  <2>1. \A d \in Leaders(c) : d > b => d \in S
    OBVIOUS
  <2>2. Least(S) \in Leaders(c) \cup {Len(c) + 1} /\ Least(S) > b
    <3> DEFINE m == Least(S)
    <3>1. m \in S
      BY <1>3
    <3> HIDE DEF m
    <3> QED BY <3>1 DEF m
  <2> HIDE DEF S
  <2> QED BY <1>3, <2>1, <2>2
<1> HIDE DEF S
<1>5. /\ End(c, b) \in Leaders(c) \cup {Len(c) + 1} /\ End(c, b) > b
      /\ \A d \in Leaders(c) : d > b => End(c, b) <= d
  BY <1>4 DEF End
<1> QED BY <1>1, <1>5 DEF EndsAt

\* A method that can be planned has a plan.
LEMMA PlanMade ==
    ASSUME IsMethod(method), ~Unplanned
    PROVE  Planned(code)
<1> DEFINE c == code
<1>1. ~Planless(c) /\ IsSeq(c) /\ (\A i \in DOMAIN c : IsInstruction(c[i]))
  BY DEF Unplanned, IsMethod, IsSeq, ToSet, code
<1>2. \A b \in Leaders(c) : 1 \notin ToSet(Successors(c, b))
  BY DEF Unplanned
<1> HIDE DEF c
<1>3. Len(c) \in Nat /\ DOMAIN c = 1 .. Len(c)
  BY <1>1, SeqIs
<1>4. /\ \A i \in DOMAIN c : c[i].op \in Opcodes
      /\ Targets(c) \cup Follows(c) \subseteq DOMAIN c
      /\ c[Len(c)].op \notin Normal /\ c # <<>>
  BY <1>1 DEF Planless
<1>5. Len(c) > 0
  BY <1>1, <1>3, <1>4, EmptySeq DEF IsSeq
<1>6. 1 \in Leaders(c) /\ Leaders(c) \subseteq DOMAIN c
  BY <1>3, <1>4, <1>5 DEF Leaders
<1>7. \A b \in Leaders(c) : EndsAt(c, b)
  BY <1>1, <1>6, EndOfBlock
<1>8. ASSUME NEW b \in Leaders(c) PROVE Successors(c, b) \in Seq(Leaders(c))
  <2> DEFINE last == End(c, b) - 1
             i == c[last]
  <2>1. last \in 1 .. Len(c) /\ last + 1 = End(c, b)
    BY <1>3, <1>6, <1>7 DEF EndsAt
  <2>2. IsInstruction(i) /\ i.op \in Opcodes /\ i \in ToSet(c)
    BY <1>1, <1>3, <1>4, <2>1 DEF ToSet
  <2>3. ToSet(i.to) \subseteq Leaders(c) /\ (i.op \in Conditional => last + 1 \in Leaders(c))
    BY <1>3, <2>1, TargetsLead
  <2>4. i.op \in Normal => last + 1 \in Leaders(c)
    <3>1. last = Len(c) => i.op \notin Normal
      BY <1>4
    <3>2. last + 1 \in Leaders(c) \cup {Len(c) + 1}
      BY <1>7, <2>1 DEF EndsAt
    <3> QED BY <1>3, <2>1, <3>1, <3>2
  <2>5. i.to \in Seq(Leaders(c))
    BY <2>2, <2>3, SeqMonotonic DEF IsInstruction
  <2>6. Successors(c, b) = CASE i.op \in Returns -> <<>>
                              [] i.op \in Conditional -> Append(i.to, last + 1)
                              [] i.op \in {"goto", "switch"} -> i.to
                              [] OTHER -> <<last + 1>>
    BY DEF Successors
  <2>7. <<>> \in Seq(Leaders(c))
    BY EmptySeq
  <2> HIDE DEF i, last
  <2>8. CASE i.op \in Conditional
    <3>1. Append(i.to, last + 1) \in Seq(Leaders(c))
      BY <2>3, <2>5, <2>8, AppendProperties
    <3>2. i.op \notin Returns /\ i.op \notin {"goto", "switch"}
      BY <2>8 DEF Conditional, Returns, BranchOperands
    <3> QED BY <2>6, <2>8, <3>1, <3>2
  <2>9. CASE i.op \notin Conditional
    <3>1. i.op \in Returns \/ i.op \in {"goto", "switch"} \/ i.op \in Normal
      BY <2>2, <2>9 DEF Opcodes
    <3>2. CASE i.op \in Returns
      <4>1. i.op \notin {"goto", "switch"}
        BY <3>2 DEF Returns
      <4> QED BY <2>6, <2>7, <2>9, <3>2, <4>1
    <3>3. CASE i.op \notin Returns /\ i.op \in {"goto", "switch"}
      BY <2>5, <2>6, <2>9, <3>3
    <3>4. CASE i.op \notin Returns /\ i.op \notin {"goto", "switch"}
      <4>1. <<last + 1>> \in Seq(Leaders(c))
        BY <2>4, <3>1, <3>4
      <4> QED BY <2>6, <2>9, <3>4, <4>1
    <3> QED BY <3>2, <3>3, <3>4
  <2> QED BY <2>8, <2>9
<1>9. Planned(c)
  BY <1>1, <1>2, <1>4, <1>5, <1>6, <1>7, <1>8 DEF Planned
<1> QED BY <1>9 DEF c

-----------------------------------------------------------------------------
(* The walk of the blocks. *)

OnPath(p) == {p[i][1] : i \in DOMAIN p}

\* The path leads through blocks, each with the next of its successors to visit; what was found is
\* on the path, or was left.
WalkShape(c, p, v, o) ==
    /\ IsSeq(p) /\ \A i \in DOMAIN p : p[i][1] \in Leaders(c) /\ p[i][2] \in Nat \ {0}
    /\ IsSeq(o) /\ ToSet(o) \subseteq Leaders(c)
    /\ v = ToSet(o) \cup OnPath(p)

\* No block is found twice.
WalkOnce(p, o) ==
    /\ \A i, j \in DOMAIN p : p[i][1] = p[j][1] => i = j
    /\ \A i, j \in DOMAIN o : o[i] = o[j] => i = j
    /\ \A i \in DOMAIN p : p[i][1] \notin ToSet(o)

\* The entry is entered first, and left last.
WalkRoot(p, o) ==
    /\ p # <<>> => p[1][1] = 1
    /\ p = <<>> => o # <<>> /\ o[Len(o)] = 1

\* The successors visited were found; those of a block that was left, all of them.
WalkClosed(c, p, v, o) ==
    /\ \A b \in ToSet(o) : ToSet(Successors(c, b)) \subseteq v
    /\ \A i \in DOMAIN p : \A k \in DOMAIN Successors(c, p[i][1]) :
         k < p[i][2] => Successors(c, p[i][1])[k] \in v

\* A block on the path is a successor of the one before it; one that was left, of one left after
\* it or still on the path.
WalkReached(c, p, o) ==
    /\ \A i \in DOMAIN p : i # 1 => p[i][1] \in ToSet(Successors(c, p[i - 1][1]))
    /\ \A i \in DOMAIN o :
         \/ o[i] = 1
         \/ \E j \in DOMAIN o : i < j /\ o[i] \in ToSet(Successors(c, o[j]))
         \/ \E b \in OnPath(p) : o[i] \in ToSet(Successors(c, b))

WalkInv(c, p, v, o) ==
    /\ WalkShape(c, p, v, o) /\ WalkOnce(p, o) /\ WalkRoot(p, o)
    /\ WalkClosed(c, p, v, o) /\ WalkReached(c, p, o)

\* The walk starts at the entry.
LEMMA WalkBegins ==
    ASSUME NEW c, Planned(c)
    PROVE  WalkInv(c, <<<<1, 1>>>>, {1}, <<>>)
<1> DEFINE p == <<<<1, 1>>>>
<1>1. IsSeq(p) /\ Len(p) = 1 /\ DOMAIN p = {1} /\ p[1] = <<1, 1>> /\ p # <<>>
  <2> DEFINE start == <<1, 1>>
  <2>1. p = Append(<<>>, start)
    OBVIOUS
  <2> HIDE DEF start, p
  <2>2. IsSeq(p) /\ Len(p) = 0 + 1 /\ DOMAIN p = 1 .. 0 + 1 /\ p[0 + 1] = start /\ p # <<>>
    BY <2>1, Appended, SeqEmpty
  <2> QED BY <2>2 DEF start
<1>2. 1 \in Leaders(c)
  BY DEF Planned
<1> HIDE DEF p
<1>3. p[1][1] = 1 /\ p[1][2] = 1
  BY <1>1
<1>4. OnPath(p) = {1}
  BY <1>1, <1>3 DEF OnPath
<1>5. WalkShape(c, p, {1}, <<>>)
  BY <1>1, <1>2, <1>3, <1>4, SeqEmpty DEF WalkShape
<1>6. WalkOnce(p, <<>>) /\ WalkRoot(p, <<>>)
  BY <1>1, <1>3, SeqEmpty DEF WalkOnce, WalkRoot
<1>7. WalkClosed(c, p, {1}, <<>>)
  <2>1. Successors(c, 1) \in Seq(Leaders(c))
    BY <1>2 DEF Planned
  <2>2. DOMAIN Successors(c, 1) = 1 .. Len(Successors(c, 1)) /\ Len(Successors(c, 1)) \in Nat
    BY <2>1, SeqOver
  <2>3. \A k \in DOMAIN Successors(c, 1) : ~(k < 1)
    BY <2>2
  <2> QED BY <1>1, <1>3, <2>3, SeqEmpty DEF WalkClosed
<1>8. WalkReached(c, p, <<>>)
  BY <1>1, SeqEmpty DEF WalkReached
<1>9. WalkInv(c, p, {1}, <<>>)
  BY <1>5, <1>6, <1>7, <1>8 DEF WalkInv
<1> QED BY <1>9 DEF p

\* The path with its last block, whose next successor is the child, gone on to the one after it.
Onward(p, block, child, q) ==
    /\ block = p[Len(p)][1] /\ child = p[Len(p)][2]
    /\ \E on : on[1] = block /\ on[2] = child + 1 /\ q = Append(SubSeq(p, 1, Len(p) - 1), on)

\* The last block of the path goes on to its next successor.
LEMMA Advanced ==
    ASSUME NEW c, Planned(c), NEW p, NEW v, NEW o, WalkInv(c, p, v, o), p # <<>>,
           NEW block, NEW child, NEW q, Onward(p, block, child, q),
           child <= Len(Successors(c, block)),
           NEW w, v \subseteq w, Successors(c, block)[child] \in w
    PROVE  /\ IsSeq(q) /\ q # <<>> /\ Len(q) = Len(p) /\ DOMAIN q = DOMAIN p
           /\ Len(p) \in Nat \ {0} /\ DOMAIN p = 1 .. Len(p)
           /\ \A i \in DOMAIN p : q[i][1] = p[i][1] /\ q[i][2] \in Nat \ {0}
           /\ q[Len(q)][1] = block /\ block \in Leaders(c)
           /\ OnPath(q) = OnPath(p)
           /\ Successors(c, block)[child] \in ToSet(Successors(c, block))
           /\ ToSet(Successors(c, block)) \subseteq Leaders(c)
           /\ WalkOnce(q, o) /\ WalkRoot(q, o) /\ WalkClosed(c, q, w, o) /\ WalkReached(c, q, o)
<1> DEFINE n == Len(p)
           front == SubSeq(p, 1, n - 1)
<1> USE DEF WalkInv
<1>1. n \in Nat \ {0} /\ DOMAIN p = 1 .. n /\ IsSeq(p)
  <2>1. IsSeq(p)
    BY DEF WalkShape
  <2>2. n \in Nat /\ DOMAIN p = 1 .. n
    BY <2>1, SeqIs
  <2>3. n # 0
    BY <2>1, <2>2, EmptySeq DEF IsSeq
  <2> QED BY <2>1, <2>2, <2>3
<1>2. /\ IsSeq(front) /\ Len(front) = n - 1
      /\ \A i \in 1 .. n - 1 : front[i] = p[i]
  <2>1. /\ IsSeq(front) /\ Len(front) = IF 1 <= n - 1 THEN n - 1 - 1 + 1 ELSE 0
        /\ \A i \in 1 .. Len(front) : front[i] = p[1 + i - 1]
    BY <1>1, Part
  <2>2. Len(front) = n - 1
    BY <1>1, <2>1
  <2>3. ASSUME NEW i \in 1 .. n - 1 PROVE front[i] = p[i]
    <3>1. 1 + i - 1 = i
      OBVIOUS
    <3> HIDE DEF front, n
    <3> QED BY <2>1, <2>2, <3>1
  <2> QED BY <2>1, <2>2, <2>3
<1> HIDE DEF n, front
<1>3. PICK on : on[1] = block /\ on[2] = child + 1 /\ q = Append(front, on)
  BY DEF Onward, front, n
<1>4. /\ IsSeq(q) /\ Len(q) = n /\ q # <<>> /\ DOMAIN q = 1 .. n
      /\ \A i \in 1 .. n - 1 : q[i] = p[i]
      /\ q[n] = on
  <2>1. /\ IsSeq(q) /\ Len(q) = Len(front) + 1 /\ q # <<>> /\ DOMAIN q = 1 .. Len(front) + 1
        /\ \A i \in 1 .. Len(front) : q[i] = front[i]
        /\ q[Len(front) + 1] = on
    BY <1>2, <1>3, Appended
  <2>2. Len(front) = n - 1 /\ Len(front) + 1 = n
    BY <1>1, <1>2
  <2> QED BY <1>2, <2>1, <2>2
<1>5. block = p[n][1] /\ child = p[n][2] /\ block \in Leaders(c) /\ child \in Nat \ {0}
  <2>1. n \in DOMAIN p
    BY <1>1
  <2>2. block = p[n][1] /\ child = p[n][2]
    BY DEF n, Onward
  <2> QED BY <2>1, <2>2 DEF WalkShape
<1>6. \A i \in DOMAIN p : q[i][1] = p[i][1] /\ q[i][2] \in Nat \ {0} /\ (i # n => q[i] = p[i])
  <2> SUFFICES ASSUME NEW i \in DOMAIN p
               PROVE  q[i][1] = p[i][1] /\ q[i][2] \in Nat \ {0} /\ (i # n => q[i] = p[i])
    OBVIOUS
  <2>1. CASE i = n
    BY <1>3, <1>4, <1>5, <2>1
  <2>2. CASE i # n
    <3>1. i \in 1 .. n - 1
      BY <1>1, <2>2
    <3>2. p[i][2] \in Nat \ {0}
      BY DEF WalkShape
    <3> QED BY <1>4, <3>1, <3>2
  <2> QED BY <2>1, <2>2
<1>7. q[n][1] = block /\ q[n][2] = child + 1
  BY <1>3, <1>4
<1>8. OnPath(q) = OnPath(p)
  <2>1. DOMAIN q = DOMAIN p /\ \A i \in DOMAIN p : q[i][1] = p[i][1]
    BY <1>1, <1>4, <1>6
  <2> QED BY <2>1, Zenon DEF OnPath
<1>9. /\ Successors(c, block)[child] \in ToSet(Successors(c, block))
      /\ ToSet(Successors(c, block)) \subseteq Leaders(c)
  <2>1. Successors(c, block) \in Seq(Leaders(c))
    BY <1>5 DEF Planned
  <2>2. /\ DOMAIN Successors(c, block) = 1 .. Len(Successors(c, block))
        /\ Len(Successors(c, block)) \in Nat /\ ToSet(Successors(c, block)) \subseteq Leaders(c)
    BY <2>1, SeqOver
  <2>3. child \in DOMAIN Successors(c, block)
    BY <1>5, <2>2
  <2> QED BY <2>2, <2>3 DEF ToSet
<1>10. WalkOnce(q, o)
  BY <1>1, <1>4, <1>6 DEF WalkOnce
<1>11. WalkRoot(q, o)
  <2>1. 1 \in DOMAIN p
    BY <1>1
  <2> QED BY <1>4, <1>6, <2>1 DEF WalkRoot
<1>12. WalkClosed(c, q, w, o)
  <2>1. \A b \in ToSet(o) : ToSet(Successors(c, b)) \subseteq w
    BY DEF WalkClosed
  <2>2. ASSUME NEW i \in DOMAIN q, NEW k \in DOMAIN Successors(c, q[i][1]), k < q[i][2]
        PROVE  Successors(c, q[i][1])[k] \in w
    <3>1. i \in DOMAIN p /\ q[i][1] = p[i][1]
      BY <1>1, <1>4, <1>6, <2>2
    <3>2. k < p[i][2] => Successors(c, q[i][1])[k] \in w
      BY <2>2, <3>1 DEF WalkClosed
    <3>3. CASE i # n
      BY <1>6, <2>2, <3>1, <3>2, <3>3
    <3>4. CASE i = n
      <4>1. Successors(c, block) \in Seq(Leaders(c))
        BY <1>5 DEF Planned
      <4>2. k \in Nat
        <5>1. k \in DOMAIN Successors(c, block)
          BY <1>7, <2>2, <3>4
        <5> QED BY <4>1, <5>1, SeqOver
      <4>3. k < child \/ k = child
        BY <1>5, <1>7, <2>2, <3>4, <4>2
      <4> QED BY <1>5, <1>7, <3>2, <3>4, <4>3
    <3> QED BY <3>3, <3>4
  <2> QED BY <2>1, <2>2 DEF WalkClosed
<1>13. WalkReached(c, q, o)
  <2>1. ASSUME NEW i \in DOMAIN q, i # 1 PROVE q[i][1] \in ToSet(Successors(c, q[i - 1][1]))
    <3>1. i \in DOMAIN p /\ i - 1 \in DOMAIN p
      BY <1>1, <1>4, <2>1
    <3> QED BY <1>6, <2>1, <3>1 DEF WalkReached
  <2> QED BY <1>8, <2>1 DEF WalkReached
<1> QED
  BY <1>1, <1>4, <1>5, <1>6, <1>7, <1>8, <1>9, <1>10, <1>11, <1>12, <1>13 DEF n

\* A successor found before is passed over.
LEMMA WalkStays ==
    ASSUME NEW c, Planned(c), NEW p, NEW v, NEW o, WalkInv(c, p, v, o), p # <<>>,
           NEW block, NEW child, NEW q, Onward(p, block, child, q),
           child <= Len(Successors(c, block)), Successors(c, block)[child] \in v
    PROVE  WalkInv(c, q, v, o)
<1>1. /\ IsSeq(q) /\ DOMAIN q = DOMAIN p
      /\ \A i \in DOMAIN p : q[i][1] = p[i][1] /\ q[i][2] \in Nat \ {0}
      /\ OnPath(q) = OnPath(p)
      /\ WalkOnce(q, o) /\ WalkRoot(q, o) /\ WalkClosed(c, q, v, o) /\ WalkReached(c, q, o)
  BY Advanced
<1>2. WalkShape(c, q, v, o)
  BY <1>1 DEF WalkInv, WalkShape
<1> QED BY <1>1, <1>2 DEF WalkInv

\* A block on the path, and its first successor.
StartsOn(at, b) == at[1] = b /\ at[2] = 1

\* A successor not found before is the next block of the path.
LEMMA WalkEnters ==
    ASSUME NEW c, Planned(c), NEW p, NEW v, NEW o, WalkInv(c, p, v, o), p # <<>>,
           NEW block, NEW child, NEW q, Onward(p, block, child, q),
           child <= Len(Successors(c, block)),
           NEW b, b = Successors(c, block)[child], b \notin v, NEW at, StartsOn(at, b)
    PROVE  WalkInv(c, Append(q, at), v \cup {b}, o)
<1> DEFINE w == v \cup {b}
           r == Append(q, at)
           n == Len(p)
<1>1. /\ IsSeq(q) /\ Len(q) = n /\ DOMAIN q = DOMAIN p
      /\ n \in Nat \ {0} /\ DOMAIN p = 1 .. n
      /\ \A i \in DOMAIN p : q[i][1] = p[i][1] /\ q[i][2] \in Nat \ {0}
      /\ q[n][1] = block /\ q # <<>>
      /\ OnPath(q) = OnPath(p)
      /\ b \in ToSet(Successors(c, block)) /\ ToSet(Successors(c, block)) \subseteq Leaders(c)
      /\ WalkOnce(q, o) /\ WalkRoot(q, o) /\ WalkClosed(c, q, w, o) /\ WalkReached(c, q, o)
  BY Advanced
<1>2. /\ IsSeq(r) /\ Len(r) = n + 1 /\ DOMAIN r = 1 .. n + 1 /\ r # <<>>
      /\ \A i \in 1 .. n : r[i] = q[i]
      /\ r[n + 1] = at
  <2>1. Len(q) = n
    BY <1>1
  <2>2. IsSeq(q)
    BY <1>1
  <2> HIDE DEF n
  <2>3. IsLonger(q, at, r)
    BY <2>2, Longer
  <2> HIDE DEF r
  <2> QED BY <2>1, <2>3 DEF IsLonger
<1>3. /\ \A i \in DOMAIN p : p[i][1] \in Leaders(c)
      /\ IsSeq(o) /\ ToSet(o) \subseteq Leaders(c) /\ v = ToSet(o) \cup OnPath(p)
  BY DEF WalkInv, WalkShape
<1> HIDE DEF r, w, n
<1>4. \A i \in DOMAIN r : (i \in 1 .. n /\ r[i] = q[i]) \/ (i = n + 1 /\ r[i][1] = b /\ r[i][2] = 1)
  BY <1>1, <1>2 DEF StartsOn
<1>5. OnPath(r) = OnPath(q) \cup {b}
  <2>1. \A i \in DOMAIN q : i \in DOMAIN r /\ r[i] = q[i]
    BY <1>1, <1>2
  <2>2. n + 1 \in DOMAIN r /\ r[n + 1][1] = b
    BY <1>1, <1>2 DEF StartsOn
  <2>3. \A i \in DOMAIN r : (i \in DOMAIN q /\ r[i][1] = q[i][1]) \/ r[i][1] = b
    BY <1>1, <1>4
  <2>4. \A i \in DOMAIN r : r[i][1] \in OnPath(q) \cup {b}
    BY <2>3 DEF OnPath
  <2>5. OnPath(q) \subseteq OnPath(r) /\ b \in OnPath(r)
    BY <2>1, <2>2 DEF OnPath
  <2> QED BY <2>4, <2>5 DEF OnPath
<1>6. WalkShape(c, r, w, o)
  <2>1. \A i \in DOMAIN r : r[i][1] \in Leaders(c) /\ r[i][2] \in Nat \ {0}
    BY <1>1, <1>3, <1>4
  <2>2. w = ToSet(o) \cup OnPath(r)
    BY <1>1, <1>3, <1>5 DEF w
  <2> QED BY <1>2, <1>3, <2>1, <2>2 DEF WalkShape
<1>7. b \notin OnPath(q) /\ b \notin ToSet(o)
  BY <1>1, <1>3
<1>8. WalkOnce(r, o)
  <2>1. \A i \in 1 .. n : q[i][1] # b
    BY <1>1, <1>7 DEF OnPath
  <2>2. ASSUME NEW i \in DOMAIN r, NEW j \in DOMAIN r, r[i][1] = r[j][1] PROVE i = j
    BY <1>1, <1>4, <2>1, <2>2 DEF WalkOnce
  <2>3. \A i \in DOMAIN r : r[i][1] \notin ToSet(o)
    BY <1>1, <1>4, <1>7 DEF WalkOnce
  <2>4. \A i, j \in DOMAIN o : o[i] = o[j] => i = j
    BY <1>1 DEF WalkOnce
  <2> QED BY <2>2, <2>3, <2>4 DEF WalkOnce
<1>9. WalkRoot(r, o)
  <2>1. 1 \in 1 .. n
    BY <1>1
  <2> QED BY <1>1, <1>2, <2>1 DEF WalkRoot
<1>10. WalkClosed(c, r, w, o)
  <2>1. \A x \in ToSet(o) : ToSet(Successors(c, x)) \subseteq w
    BY <1>1 DEF WalkClosed
  <2>2. ASSUME NEW i \in DOMAIN r, NEW k \in DOMAIN Successors(c, r[i][1]), k < r[i][2]
        PROVE  Successors(c, r[i][1])[k] \in w
    <3>1. CASE i \in 1 .. n /\ r[i] = q[i]
      BY <1>1, <2>2, <3>1 DEF WalkClosed
    <3>2. CASE r[i][1] = b /\ r[i][2] = 1
      <4>1. Successors(c, b) \in Seq(Leaders(c))
        BY <1>1 DEF Planned
      <4>2. k \in 1 .. Len(Successors(c, b)) /\ Len(Successors(c, b)) \in Nat
        BY <2>2, <3>2, <4>1, SeqOver
      <4> QED BY <2>2, <3>2, <4>2
    <3> QED BY <1>4, <3>1, <3>2
  <2> QED BY <2>1, <2>2 DEF WalkClosed
<1>11. WalkReached(c, r, o)
  <2>1. ASSUME NEW i \in DOMAIN r, i # 1 PROVE r[i][1] \in ToSet(Successors(c, r[i - 1][1]))
    <3>1. CASE i \in 1 .. n /\ r[i] = q[i]
      <4>1. i - 1 \in 1 .. n
        BY <1>1, <2>1, <3>1
      <4> QED BY <1>1, <1>2, <2>1, <3>1, <4>1 DEF WalkReached
    <3>2. CASE i = n + 1 /\ r[i][1] = b
      <4>1. i - 1 = n /\ n \in 1 .. n
        BY <1>1, <3>2
      <4> QED BY <1>1, <1>2, <3>2, <4>1
    <3> QED BY <1>4, <3>1, <3>2
  <2>2. OnPath(q) \subseteq OnPath(r)
    BY <1>5
  <2> QED BY <1>1, <2>1, <2>2 DEF WalkReached
<1>12. WalkInv(c, r, w, o)
  BY <1>6, <1>8, <1>9, <1>10, <1>11 DEF WalkInv
<1> QED BY <1>12 DEF r, w

\* A block whose successors were all visited is left.
LEMMA WalkLeaves ==
    ASSUME NEW c, Planned(c), NEW p, NEW v, NEW o, WalkInv(c, p, v, o), p # <<>>,
           NEW block, block = p[Len(p)][1],
           p[Len(p)][2] > Len(Successors(c, block)),
           NEW q, q = SubSeq(p, 1, Len(p) - 1),
           NEW u, u = Append(o, block)
    PROVE  WalkInv(c, q, v, u)
<1> DEFINE n == Len(p)
           m == Len(o)
<1> USE DEF WalkInv
<1>1. n \in Nat \ {0} /\ DOMAIN p = 1 .. n /\ IsSeq(p)
  <2>1. IsSeq(p)
    BY DEF WalkShape
  <2>2. n \in Nat /\ DOMAIN p = 1 .. n
    BY <2>1, SeqIs
  <2>3. n # 0
    BY <2>1, <2>2, EmptySeq DEF IsSeq
  <2> QED BY <2>1, <2>2, <2>3
<1>2. IsSeq(o) /\ m \in Nat /\ DOMAIN o = 1 .. m
  BY SeqIs DEF WalkShape
<1>3. /\ IsSeq(q) /\ Len(q) = n - 1 /\ DOMAIN q = 1 .. n - 1
      /\ \A i \in 1 .. n - 1 : q[i] = p[i]
  <2>1. /\ IsSeq(q) /\ Len(q) = IF 1 <= n - 1 THEN n - 1 - 1 + 1 ELSE 0
        /\ DOMAIN q = 1 .. Len(q)
        /\ \A i \in 1 .. Len(q) : q[i] = p[1 + i - 1]
    BY <1>1, Part
  <2>2. Len(q) = n - 1
    BY <1>1, <2>1
  <2>3. ASSUME NEW i \in 1 .. n - 1 PROVE q[i] = p[i]
    <3>1. 1 + i - 1 = i
      OBVIOUS
    <3> HIDE DEF n
    <3> QED BY <2>1, <2>2, <3>1
  <2> QED BY <2>1, <2>2, <2>3
<1>4. /\ IsSeq(u) /\ Len(u) = m + 1 /\ u # <<>> /\ DOMAIN u = 1 .. m + 1
      /\ \A i \in 1 .. m : u[i] = o[i]
      /\ u[m + 1] = block /\ ToSet(u) = ToSet(o) \cup {block}
  BY <1>2, Appended
<1> HIDE DEF n, m
<1>5. block = p[n][1] /\ n \in DOMAIN p /\ p[n][2] > Len(Successors(c, block))
  BY <1>1 DEF n
<1>6. block \in Leaders(c) /\ p[n][2] \in Nat
  BY <1>5 DEF WalkShape
<1>7. \A i \in DOMAIN q : i \in DOMAIN p /\ i # n /\ q[i] = p[i]
  BY <1>1, <1>3
<1>8. OnPath(p) = OnPath(q) \cup {block}
  <2>1. OnPath(q) \subseteq OnPath(p) /\ block \in OnPath(p)
    BY <1>5, <1>7 DEF OnPath
  <2>2. ASSUME NEW i \in DOMAIN p PROVE p[i][1] \in OnPath(q) \cup {block}
    <3>1. CASE i = n
      BY <1>5, <3>1
    <3>2. CASE i # n
      <4>1. i \in DOMAIN q /\ q[i] = p[i]
        BY <1>1, <1>3, <3>2
      <4> QED BY <4>1 DEF OnPath
    <3> QED BY <3>1, <3>2
  <2> QED BY <2>1, <2>2 DEF OnPath
<1>9. WalkShape(c, q, v, u)
  BY <1>3, <1>4, <1>6, <1>7, <1>8 DEF WalkShape
<1>10. WalkOnce(q, u)
  <2>1. \A i, j \in DOMAIN q : q[i][1] = q[j][1] => i = j
    BY <1>7 DEF WalkOnce
  <2>2. \A i \in DOMAIN q : q[i][1] \notin ToSet(u)
    BY <1>4, <1>5, <1>7 DEF WalkOnce
  <2>3. \A i \in 1 .. m : o[i] # block
    <3>1. block \notin ToSet(o)
      BY <1>5 DEF WalkOnce
    <3> QED BY <1>2, <3>1 DEF ToSet
  <2>4. ASSUME NEW i \in DOMAIN u, NEW j \in DOMAIN u, u[i] = u[j] PROVE i = j
    <3>1. /\ (i \in 1 .. m /\ u[i] = o[i]) \/ (i = m + 1 /\ u[i] = block)
          /\ (j \in 1 .. m /\ u[j] = o[j]) \/ (j = m + 1 /\ u[j] = block)
      BY <1>2, <1>4
    <3> QED BY <1>2, <2>3, <2>4, <3>1 DEF WalkOnce
  <2> QED BY <2>1, <2>2, <2>4 DEF WalkOnce
<1>11. WalkRoot(q, u)
  <2>1. p[1][1] = 1
    BY DEF WalkRoot
  <2>2. CASE n = 1
    <3>1. q = <<>>
      BY <1>3, <2>2, EmptySeq DEF IsSeq
    <3>2. u[Len(u)] = 1
      BY <1>4, <1>5, <2>1, <2>2
    <3> QED BY <1>4, <3>1, <3>2 DEF WalkRoot
  <2>3. CASE n # 1
    <3>1. 1 \in DOMAIN q
      BY <1>1, <1>3, <2>3
    <3>2. q # <<>>
      BY <3>1, SeqEmpty
    <3> QED BY <1>7, <2>1, <3>1, <3>2 DEF WalkRoot
  <2> QED BY <2>2, <2>3
<1>12. WalkClosed(c, q, v, u)
  <2>1. ToSet(Successors(c, block)) \subseteq v
    <3>1. Successors(c, block) \in Seq(Leaders(c))
      BY <1>6 DEF Planned
    <3>2. /\ DOMAIN Successors(c, block) = 1 .. Len(Successors(c, block))
          /\ Len(Successors(c, block)) \in Nat
      BY <3>1, SeqOver
    <3>3. \A k \in DOMAIN Successors(c, block) : k < p[n][2]
      BY <1>5, <1>6, <3>2
    <3> QED BY <1>5, <3>3 DEF WalkClosed, ToSet
  <2>2. \A b \in ToSet(u) : ToSet(Successors(c, b)) \subseteq v
    BY <1>4, <2>1 DEF WalkClosed
  <2>3. \A i \in DOMAIN q : \A k \in DOMAIN Successors(c, q[i][1]) :
          k < q[i][2] => Successors(c, q[i][1])[k] \in v
    BY <1>7 DEF WalkClosed
  <2> QED BY <2>2, <2>3 DEF WalkClosed
<1>13. WalkReached(c, q, u)
  <2>1. ASSUME NEW i \in DOMAIN q, i # 1 PROVE q[i][1] \in ToSet(Successors(c, q[i - 1][1]))
    <3>1. i - 1 \in DOMAIN q
      BY <1>3, <2>1
    <3> QED BY <1>7, <2>1, <3>1 DEF WalkReached
  <2>2. ASSUME NEW i \in DOMAIN u
        PROVE  \/ u[i] = 1
               \/ \E j \in DOMAIN u : i < j /\ u[i] \in ToSet(Successors(c, u[j]))
               \/ \E b \in OnPath(q) : u[i] \in ToSet(Successors(c, b))
    <3>1. CASE i \in 1 .. m
      <4>1. u[i] = o[i] /\ i \in DOMAIN o
        BY <1>2, <1>4, <3>1
      <4>2. \/ o[i] = 1
            \/ \E j \in DOMAIN o : i < j /\ o[i] \in ToSet(Successors(c, o[j]))
            \/ \E b \in OnPath(p) : o[i] \in ToSet(Successors(c, b))
        BY <4>1 DEF WalkReached
      <4>3. CASE \E j \in DOMAIN o : i < j /\ o[i] \in ToSet(Successors(c, o[j]))
        <5>1. PICK j \in DOMAIN o : i < j /\ o[i] \in ToSet(Successors(c, o[j]))
          BY <4>3
        <5>2. j \in DOMAIN u /\ u[j] = o[j]
          BY <1>2, <1>4
        <5> QED BY <4>1, <5>1, <5>2
      <4>4. CASE \E b \in OnPath(p) : o[i] \in ToSet(Successors(c, b))
        <5>1. PICK b \in OnPath(p) : o[i] \in ToSet(Successors(c, b))
          BY <4>4
        <5>2. CASE b = block
          <6>1. m + 1 \in DOMAIN u /\ i < m + 1 /\ u[m + 1] = b
            BY <1>2, <1>4, <3>1, <5>2
          <6> QED BY <4>1, <5>1, <6>1
        <5>3. CASE b # block
          <6>1. b \in OnPath(q)
            BY <1>8, <5>1, <5>3
          <6> QED BY <4>1, <5>1, <6>1
        <5> QED BY <5>2, <5>3
      <4> QED BY <4>1, <4>2, <4>3, <4>4
    <3>2. CASE i = m + 1
      <4>1. u[i] = block
        BY <1>4, <3>2
      <4>2. CASE n = 1
        BY <1>5, <4>1, <4>2 DEF WalkRoot
      <4>3. CASE n # 1
        <5>1. n - 1 \in DOMAIN q /\ q[n - 1] = p[n - 1]
          BY <1>1, <1>3, <4>3
        <5>2. block \in ToSet(Successors(c, p[n - 1][1]))
          BY <1>5, <4>3 DEF WalkReached
        <5>3. p[n - 1][1] \in OnPath(q)
          BY <5>1 DEF OnPath
        <5> QED BY <4>1, <5>2, <5>3
      <4> QED BY <4>2, <4>3
    <3> QED BY <1>2, <1>4, <3>1, <3>2
  <2> QED BY <2>1, <2>2 DEF WalkReached
<1> QED BY <1>9, <1>10, <1>11, <1>12, <1>13

\* What the lowering takes from the walk: each block found, once, the entry first, and before any
\* other block one of its predecessors.
Ordered(c, v, o) ==
    /\ IsSeq(o) /\ ToSet(o) = v /\ v \subseteq Leaders(c)
    /\ o # <<>> /\ o[1] = 1
    /\ \A i, j \in DOMAIN o : o[i] = o[j] => i = j
    /\ \A b \in v : ToSet(Successors(c, b)) \subseteq v
    /\ \A i \in DOMAIN o :
         o[i] = 1 \/ \E j \in DOMAIN o : j < i /\ o[i] \in ToSet(Successors(c, o[j]))

\* In reverse postorder the entry is first, and every other block comes after a predecessor.
LEMMA WalkEnds ==
    ASSUME NEW c, NEW v, NEW o, WalkInv(c, <<>>, v, o)
    PROVE  Ordered(c, v, Reverse(o))
<1> DEFINE n == Len(o)
           r == Reverse(o)
<1> USE DEF WalkInv
<1>1. OnPath(<<>>) = {}
  BY SeqEmpty DEF OnPath
<1>2. IsSeq(o) /\ n \in Nat /\ DOMAIN o = 1 .. n /\ o # <<>> /\ o[n] = 1 /\ n # 0
  <2>1. IsSeq(o) /\ o # <<>> /\ o[n] = 1
    BY DEF WalkShape, WalkRoot
  <2> QED BY <2>1, SeqIs, EmptySeq DEF IsSeq
<1>3. IsSeq(r) /\ Len(r) = n /\ DOMAIN r = 1 .. n /\ \A i \in 1 .. n : r[i] = o[n - i + 1]
  <2>1. DOMAIN r = 1 .. n /\ \A i \in 1 .. n : r[i] = o[n - i + 1]
    BY DEF Reverse
  <2>2. r = [i \in 1 .. n |-> r[i]]
    BY DEF Reverse
  <2> HIDE DEF r, n
  <2> QED BY <1>2, <2>1, <2>2, SeqMade
<1> HIDE DEF r, n
<1>4. \A i \in 1 .. n : n - i + 1 \in 1 .. n /\ n - (n - i + 1) + 1 = i
  BY <1>2
<1>5. ToSet(r) = ToSet(o)
  <2>1. \A i \in 1 .. n : r[i] \in ToSet(o)
    BY <1>2, <1>3, <1>4 DEF ToSet
  <2>2. \A i \in 1 .. n : o[i] = r[n - i + 1]
    BY <1>3, <1>4
  <2>3. \A i \in 1 .. n : o[i] \in ToSet(r)
    BY <1>3, <1>4, <2>2 DEF ToSet
  <2> QED BY <1>2, <1>3, <2>1, <2>3 DEF ToSet
<1>6. ToSet(r) = v /\ v \subseteq Leaders(c)
  BY <1>1, <1>5 DEF WalkShape
<1>7. r # <<>> /\ r[1] = 1
  <2>1. r[1] = o[n - 1 + 1] /\ n - 1 + 1 = n
    BY <1>2, <1>3
  <2>2. r # <<>>
    BY <1>2, <1>3, SeqEmpty
  <2> QED BY <1>2, <2>1, <2>2
<1>8. ASSUME NEW i \in DOMAIN r, NEW j \in DOMAIN r, r[i] = r[j] PROVE i = j
  <2>1. n - i + 1 = n - j + 1
    BY <1>2, <1>3, <1>4, <1>8 DEF WalkOnce
  <2> QED BY <1>2, <1>3, <2>1
<1>9. \A b \in v : ToSet(Successors(c, b)) \subseteq v
  BY <1>5, <1>6 DEF WalkClosed
<1>10. ASSUME NEW i \in DOMAIN r
       PROVE  r[i] = 1 \/ \E j \in DOMAIN r : j < i /\ r[i] \in ToSet(Successors(c, r[j]))
  <2>1. n - i + 1 \in DOMAIN o /\ r[i] = o[n - i + 1]
    BY <1>2, <1>3, <1>4
  <2>2. CASE o[n - i + 1] = 1
    BY <2>1, <2>2
  <2>3. CASE o[n - i + 1] # 1
    <3>1. PICK j \in DOMAIN o : n - i + 1 < j /\ o[n - i + 1] \in ToSet(Successors(c, o[j]))
      BY <1>1, <2>1, <2>3 DEF WalkReached
    <3>2. n - j + 1 \in DOMAIN r /\ r[n - j + 1] = o[j]
      BY <1>2, <1>3, <1>4
    <3>3. n - j + 1 < i
      BY <1>2, <1>3, <3>1
    <3> QED BY <2>1, <3>1, <3>2, <3>3
  <2> QED BY <2>2, <2>3
<1>11. Ordered(c, v, r)
  BY <1>3, <1>6, <1>7, <1>8, <1>9, <1>10 DEF Ordered
<1> QED BY <1>11 DEF r

-----------------------------------------------------------------------------
(* What a block emits. *)

Defined(is) == {is[k].def : k \in DOMAIN is} \ {None}
Before(is, k) == {is[j].def : j \in 1 .. k - 1} \ {None}

\* Code within a block, which uses the known values and what it has defined before.
Body(K, is) ==
    /\ IsSeq(is)
    /\ \A k \in DOMAIN is :
         /\ is[k].op \notin Terminators /\ is[k].edges = <<>>
         /\ ToSet(is[k].uses) \subseteq K \cup Before(is, k)

\* What it defines is new: the values from n to m, each once.
Numbered(is, n, m) ==
    /\ n \in Nat \ {0} /\ m \in Nat \ {0} /\ n <= m
    /\ \A k \in DOMAIN is : is[k].def = None \/ is[k].def \in n .. m - 1
    /\ \A j, k \in DOMAIN is : is[j].def = is[k].def /\ is[j].def # None => j = k

Emits(K, is, n, m) == Body(K, is) /\ Numbered(is, n, m)

\* Nothing is emitted.
LEMMA EmitsNothing ==
    ASSUME NEW K, NEW n \in Nat \ {0}
    PROVE  Emits(K, <<>>, n, n) /\ Defined(<<>>) = {}
BY SeqEmpty DEF Emits, Body, Numbered, Defined

\* One more instruction, that uses what is known by then and defines the next value, or none.
LEMMA EmitsOneMore ==
    ASSUME NEW K, NEW is, NEW n, NEW m, Emits(K, is, n, m), NEW i,
           i.op \notin Terminators, i.edges = <<>>, ToSet(i.uses) \subseteq K \cup Defined(is)
    PROVE  /\ i.def = None => Emits(K, Append(is, i), n, m) /\ Defined(Append(is, i)) = Defined(is)
           /\ i.def = m => Emits(K, Append(is, i), n, m + 1)
                             /\ Defined(Append(is, i)) = Defined(is) \cup {m}
<1> DEFINE u == Append(is, i)
           l == Len(is)
<1>1. IsSeq(is) /\ l \in Nat /\ DOMAIN is = 1 .. l
  BY SeqIs DEF Emits, Body
<1>2. /\ IsSeq(u) /\ Len(u) = l + 1 /\ DOMAIN u = 1 .. l + 1
      /\ \A k \in 1 .. l : u[k] = is[k]
      /\ u[l + 1] = i
  BY <1>1, Appended
<1>3. l + 1 \in DOMAIN u /\ \A k \in DOMAIN is : k \in DOMAIN u /\ k # l + 1
  BY <1>1, <1>2
<1>4. \A k \in DOMAIN u : (k \in DOMAIN is /\ u[k] = is[k]) \/ (k = l + 1 /\ u[k] = i)
  BY <1>1, <1>2
<1> HIDE DEF u
<1>5. \A k \in DOMAIN is : Before(u, k) = Before(is, k)
  <2>1. \A k \in DOMAIN is : \A j \in 1 .. k - 1 : u[j] = is[j]
    BY <1>1, <1>2
  <2> QED BY <2>1 DEF Before
<1>6. Before(u, l + 1) = Defined(is)
  <2>1. 1 .. l + 1 - 1 = DOMAIN is
    BY <1>1
  <2>2. \A j \in DOMAIN is : u[j] = is[j]
    BY <1>1, <1>2
  <2> QED BY <2>1, <2>2 DEF Before, Defined
<1> HIDE DEF l
<1>7. Body(K, u)
  <2> SUFFICES ASSUME NEW k \in DOMAIN u
               PROVE  /\ u[k].op \notin Terminators /\ u[k].edges = <<>>
                      /\ ToSet(u[k].uses) \subseteq K \cup Before(u, k)
    BY <1>2 DEF Body
  <2>1. CASE k \in DOMAIN is /\ u[k] = is[k]
    BY <1>5, <2>1 DEF Emits, Body
  <2>2. CASE k = l + 1 /\ u[k] = i
    BY <1>6, <2>2
  <2> QED BY <1>4, <2>1, <2>2
<1>8. n \in Nat \ {0} /\ m \in Nat \ {0} /\ n <= m
  BY DEF Emits, Numbered
<1>9. \A k \in DOMAIN is : is[k].def = None \/ is[k].def \in n .. m - 1
  BY DEF Emits, Numbered
<1>10. Defined(u) = Defined(is) \cup ({i.def} \ {None})
  <2>1. \A k \in DOMAIN u : u[k].def = i.def \/ (k \in DOMAIN is /\ u[k].def = is[k].def)
    BY <1>4
  <2>2. \A k \in DOMAIN is : k \in DOMAIN u /\ u[k].def = is[k].def
    BY <1>1, <1>2, <1>3
  <2>3. l + 1 \in DOMAIN u /\ u[l + 1].def = i.def
    BY <1>2, <1>3
  <2> QED BY <2>1, <2>2, <2>3 DEF Defined
<1>11. CASE i.def = None
  <2>1. Numbered(u, n, m)
    <3>1. \A k \in DOMAIN u : u[k].def = None \/ u[k].def \in n .. m - 1
      BY <1>4, <1>9, <1>11
    <3>2. \A j, k \in DOMAIN u : u[j].def = u[k].def /\ u[j].def # None => j = k
      BY <1>4, <1>11 DEF Emits, Numbered
    <3> QED BY <1>8, <3>1, <3>2 DEF Numbered
  <2>2. i.def # m
    BY <1>8, <1>11 DEF None
  <2>3. Defined(u) = Defined(is)
    BY <1>10, <1>11
  <2> QED BY <1>7, <1>11, <2>1, <2>2, <2>3 DEF Emits, u
<1>12. CASE i.def = m
  <2>1. Numbered(u, n, m + 1)
    <3>1. \A k \in DOMAIN u : u[k].def = None \/ u[k].def \in n .. m + 1 - 1
      BY <1>4, <1>8, <1>9, <1>12
    <3>2. \A k \in DOMAIN is : is[k].def # m
      BY <1>8, <1>9 DEF None
    <3>3. \A j, k \in DOMAIN u : u[j].def = u[k].def /\ u[j].def # None => j = k
      BY <1>4, <1>12, <3>2 DEF Emits, Numbered
    <3>4. m + 1 \in Nat \ {0} /\ n <= m + 1
      BY <1>8
    <3> QED BY <1>8, <3>1, <3>3, <3>4 DEF Numbered
  <2>2. i.def # None /\ {i.def} \ {None} = {m}
    BY <1>8, <1>12 DEF None
  <2>3. Defined(u) = Defined(is) \cup {m}
    BY <1>10, <2>2
  <2> QED BY <1>7, <1>12, <2>1, <2>2, <2>3 DEF Emits, u
<1> QED BY <1>11, <1>12

\* What two pieces of code define.
LEMMA DefinedJoin ==
    ASSUME NEW s, NEW t, IsSeq(s), IsSeq(t)
    PROVE  Defined(s \o t) = Defined(s) \cup Defined(t)
<1> DEFINE u == s \o t
           l == Len(s)
<1>1. /\ l \in Nat /\ DOMAIN s = 1 .. l /\ Len(t) \in Nat /\ DOMAIN t = 1 .. Len(t)
      /\ DOMAIN u = 1 .. l + Len(t)
      /\ \A k \in 1 .. l : u[k] = s[k]
      /\ \A k \in 1 .. Len(t) : u[l + k] = t[k]
      /\ \A k \in 1 .. l + Len(t) :
           IF k <= l THEN u[k] = s[k] ELSE k - l \in 1 .. Len(t) /\ u[k] = t[k - l]
  BY SeqIs, Joined
<1> HIDE DEF u, l
<1>2. \A k \in DOMAIN u : (k \in DOMAIN s /\ u[k] = s[k]) \/ (k - l \in DOMAIN t /\ u[k] = t[k - l])
  BY <1>1
<1>3. \A k \in DOMAIN s : k \in DOMAIN u /\ u[k] = s[k]
  BY <1>1
<1>4. \A k \in DOMAIN t : l + k \in DOMAIN u /\ u[l + k] = t[k]
  BY <1>1
<1>5. Defined(u) \subseteq Defined(s) \cup Defined(t)
  BY <1>2 DEF Defined
<1>6. Defined(s) \subseteq Defined(u)
  BY <1>3 DEF Defined
<1>7. Defined(t) \subseteq Defined(u)
  BY <1>4 DEF Defined
<1> QED BY <1>5, <1>6, <1>7 DEF u

\* The code of a block goes on with code that uses what the block knows by then.
LEMMA BodiesJoin ==
    ASSUME NEW K, NEW L, NEW s, NEW t, Body(K, s), Body(L, t), L \subseteq K \cup Defined(s)
    PROVE  Body(K, s \o t) /\ Defined(s \o t) = Defined(s) \cup Defined(t)
<1> DEFINE u == s \o t
           l == Len(s)
<1>1. IsSeq(s) /\ IsSeq(t)
  BY DEF Body
<1>2. /\ IsSeq(u) /\ Len(u) = l + Len(t) /\ DOMAIN u = 1 .. l + Len(t)
      /\ \A k \in 1 .. l : u[k] = s[k]
      /\ \A k \in 1 .. Len(t) : u[l + k] = t[k]
      /\ \A k \in 1 .. l + Len(t) :
           IF k <= l THEN u[k] = s[k] ELSE k - l \in 1 .. Len(t) /\ u[k] = t[k - l]
  BY <1>1, Joined
<1>3. l \in Nat /\ DOMAIN s = 1 .. l /\ Len(t) \in Nat /\ DOMAIN t = 1 .. Len(t)
  BY <1>1, SeqIs
<1> HIDE DEF u, l
<1>4. \A k \in DOMAIN u : \/ k \in DOMAIN s /\ k <= l /\ u[k] = s[k]
                          \/ k - l \in DOMAIN t /\ u[k] = t[k - l]
  BY <1>2, <1>3
<1>7. \A k \in DOMAIN s : Before(u, k) = Before(s, k)
  <2>1. \A k \in DOMAIN s : \A j \in 1 .. k - 1 : u[j] = s[j]
    BY <1>2, <1>3
  <2> QED BY <2>1 DEF Before
<1>8. ASSUME NEW k \in DOMAIN u, k - l \in DOMAIN t
      PROVE  Defined(s) \cup Before(t, k - l) \subseteq Before(u, k)
  <2>1. \A j \in DOMAIN s : j \in 1 .. k - 1 /\ u[j] = s[j]
    BY <1>2, <1>3, <1>8
  <2>2. \A j \in 1 .. (k - l) - 1 : l + j \in 1 .. k - 1 /\ u[l + j] = t[j]
    BY <1>2, <1>3, <1>8
  <2>3. Defined(s) \subseteq Before(u, k)
    BY <2>1 DEF Defined, Before
  <2>4. Before(t, k - l) \subseteq Before(u, k)
    BY <2>2 DEF Before
  <2> QED BY <2>3, <2>4
<1>9. Body(K, u)
  <2> SUFFICES ASSUME NEW k \in DOMAIN u
               PROVE  /\ u[k].op \notin Terminators /\ u[k].edges = <<>>
                      /\ ToSet(u[k].uses) \subseteq K \cup Before(u, k)
    BY <1>2 DEF Body
  <2>1. CASE k \in DOMAIN s /\ u[k] = s[k]
    BY <1>7, <2>1 DEF Body
  <2>2. CASE k - l \in DOMAIN t /\ u[k] = t[k - l]
    <3>1. /\ t[k - l].op \notin Terminators /\ t[k - l].edges = <<>>
          /\ ToSet(t[k - l].uses) \subseteq L \cup Before(t, k - l)
      BY <2>2 DEF Body
    <3> QED BY <1>8, <2>2, <3>1
  <2> QED BY <1>4, <2>1, <2>2
<1>10. Defined(u) = Defined(s) \cup Defined(t)
  BY <1>1, DefinedJoin DEF u
<1> QED BY <1>9, <1>10 DEF u

-----------------------------------------------------------------------------
(* Definitions, each of a value of its own. *)

Fresh(D, n, m) ==
    /\ n \in Nat /\ m \in Nat /\ n <= m
    /\ \A d \in D : d.value \in n .. m - 1
    /\ \A d, e \in D : d.value = e.value => d = e

\* Fewer definitions.
LEMMA FreshPart ==
    ASSUME NEW C, NEW D, C \subseteq D, NEW n, NEW m, Fresh(D, n, m)
    PROVE  Fresh(C, n, m)
BY DEF Fresh

\* Definitions of later values.
LEMMA FreshJoin ==
    ASSUME NEW C, NEW D, NEW n, NEW m, NEW l, Fresh(C, n, m), Fresh(D, m, l)
    PROVE  Fresh(C \cup D, n, l)
<1>1. n \in Nat /\ m \in Nat /\ l \in Nat /\ n <= m /\ m <= l
  BY DEF Fresh
<1>2. \A d \in C : d.value \in n .. m - 1 /\ d.value \in n .. l - 1 /\ d.value \notin m .. l - 1
  BY <1>1 DEF Fresh
<1>3. \A d \in D : d.value \in m .. l - 1 /\ d.value \in n .. l - 1
  BY <1>1 DEF Fresh
<1>4. ASSUME NEW d \in C \cup D, NEW e \in C \cup D, d.value = e.value PROVE d = e
  BY <1>2, <1>3, <1>4 DEF Fresh
<1> QED BY <1>1, <1>2, <1>3, <1>4 DEF Fresh

\* No definition.
LEMMA FreshNone == ASSUME NEW n \in Nat PROVE Fresh({}, n, n)
BY DEF Fresh

\* What the code of a block goes on to define.
LEMMA ProducedJoin ==
    ASSUME NEW b, NEW s, NEW t, IsSeq(s), IsSeq(t), NEW n, NEW m, Numbered(t, n, m)
    PROVE  \E G : Fresh(G, n, m) /\ Produced(b, s \o t) \subseteq Produced(b, s) \cup G
<1> DEFINE u == s \o t
           l == Len(s)
           of(k) == Definition(b, <<"instr", l + k>>, t[k].def, ResultType(t[k]))
           G == {of(k) : k \in {j \in DOMAIN t : Defines(t[j])}}
<1>1. /\ l \in Nat /\ DOMAIN s = 1 .. l /\ Len(t) \in Nat /\ DOMAIN t = 1 .. Len(t)
      /\ DOMAIN u = 1 .. l + Len(t)
      /\ \A k \in 1 .. l + Len(t) :
           IF k <= l THEN u[k] = s[k] ELSE k - l \in 1 .. Len(t) /\ u[k] = t[k - l]
  BY SeqIs, Joined
<1>2. ASSUME NEW d \in G PROVE \E k \in DOMAIN t : Defines(t[k]) /\ d = of(k) /\ d.value = t[k].def
  <2>1. PICK k \in {j \in DOMAIN t : Defines(t[j])} : d = of(k)
    OBVIOUS
  <2> QED BY <2>1 DEF Definition
<1>3. Fresh(G, n, m)
  <2>1. n \in Nat /\ m \in Nat /\ n <= m
    BY DEF Numbered
  <2>2. \A d \in G : d.value \in n .. m - 1
    <3> HIDE DEF G, of
    <3> QED BY <1>2 DEF Numbered, Defines
  <2>3. ASSUME NEW d \in G, NEW e \in G, d.value = e.value PROVE d = e
    <3>1. PICK j \in DOMAIN t : Defines(t[j]) /\ d = of(j) /\ d.value = t[j].def
      BY <1>2
    <3>2. PICK k \in DOMAIN t : Defines(t[k]) /\ e = of(k) /\ e.value = t[k].def
      BY <1>2
    <3>3. j = k
      BY <2>3, <3>1, <3>2 DEF Numbered, Defines
    <3> HIDE DEF of
    <3> QED BY <3>1, <3>2, <3>3
  <2> HIDE DEF G
  <2> QED BY <2>1, <2>2, <2>3 DEF Fresh
<1> HIDE DEF u, l
<1>4. Produced(b, u) \subseteq Produced(b, s) \cup G
  <2> SUFFICES ASSUME NEW k \in DOMAIN u, Defines(u[k])
               PROVE  Definition(b, <<"instr", k>>, u[k].def, ResultType(u[k])) \in Produced(b, s) \cup G
    BY DEF Produced
  <2>1. CASE k <= l
    <3>1. k \in DOMAIN s /\ u[k] = s[k]
      BY <1>1, <2>1
    <3> QED BY <3>1 DEF Produced
  <2>2. CASE ~(k <= l)
    <3>1. k - l \in DOMAIN t /\ u[k] = t[k - l] /\ l + (k - l) = k
      BY <1>1, <2>2
    <3>2. of(k - l) \in G
      BY <3>1
    <3>3. of(k - l) = Definition(b, <<"instr", k>>, u[k].def, ResultType(u[k]))
      BY <3>1
    <3> QED BY <3>2, <3>3
  <2> QED BY <2>1, <2>2
<1> HIDE DEF G
<1> QED BY <1>3, <1>4 DEF u

-----------------------------------------------------------------------------
(* The entries of blocks. *)

\* An entry has a parameter for each of its slots, and for its stack.
IsEntry(e) ==
    /\ IsSeq(e.slots) /\ IsSeq(e.params) /\ e.depth \in Nat
    /\ Len(e.params) = Len(e.slots) + e.depth

\* A captured entry declares new values, from n.
LEMMA CapturedMakes ==
    ASSUME IsFiniteSet(DOMAIN locals), NEW left, IsSeq(left), NEW n \in Nat, NEW b
    PROVE  /\ Cardinality(DOMAIN locals) + Len(left) \in Nat
           /\ IsEntry(Captured(left, n))
           /\ Fresh(Declared(b, Captured(left, n).params), n, n + (Cardinality(DOMAIN locals) + Len(left)))
<1> DEFINE c == Cardinality(DOMAIN locals)
           slots == Ascending(DOMAIN locals)
           low == [k \in DOMAIN slots |-> locals[slots[k]].type]
           high == [k \in DOMAIN left |-> left[k].type]
           types == low \o high
           params == [k \in DOMAIN types |-> Typed(n + k - 1, types[k])]
           e == Captured(left, n)
<1>1. e = [slots |-> slots, depth |-> Len(left), params |-> params]
  BY DEF Captured
<1>2. c \in Nat /\ Len(left) \in Nat /\ DOMAIN left = 1 .. Len(left)
  BY FS_CardinalityType, SeqIs
<1>3. IsSeq(slots) /\ Len(slots) = c /\ DOMAIN slots = 1 .. c
  <2> DEFINE d == DOMAIN locals
             nth(k) == CHOOSE m \in d : Cardinality({l \in d : l < m}) = k - 1
  <2>1. slots = [k \in 1 .. c |-> nth(k)]
    BY DEF Ascending
  <2> HIDE DEF slots, c, nth
  <2>2. DOMAIN slots = 1 .. c
    BY <2>1
  <2>3. slots = [k \in 1 .. c |-> slots[k]]
    BY <2>1
  <2> QED BY <1>2, <2>2, <2>3, SeqMade
<1> HIDE DEF slots, c
<1>4. IsSeq(low) /\ Len(low) = c
  <2>1. DOMAIN low = 1 .. c /\ low = [k \in 1 .. c |-> low[k]]
    BY <1>3
  <2> HIDE DEF low
  <2> QED BY <1>2, <2>1, SeqMade
<1>5. IsSeq(high) /\ Len(high) = Len(left)
  <2>1. DOMAIN high = 1 .. Len(left) /\ high = [k \in 1 .. Len(left) |-> high[k]]
    BY <1>2
  <2> HIDE DEF high
  <2> QED BY <1>2, <2>1, SeqMade
<1> HIDE DEF low, high
<1>6. DOMAIN types = 1 .. c + Len(left)
  BY <1>4, <1>5, Joined
<1> HIDE DEF types
<1>7. /\ IsSeq(params) /\ Len(params) = c + Len(left) /\ DOMAIN params = 1 .. c + Len(left)
      /\ \A k \in 1 .. c + Len(left) : params[k].value = n + k - 1
  <2>1. DOMAIN params = 1 .. c + Len(left) /\ params = [k \in 1 .. c + Len(left) |-> params[k]]
    BY <1>6
  <2>2. \A k \in 1 .. c + Len(left) : params[k].value = n + k - 1
    BY <1>6 DEF Typed
  <2> HIDE DEF params
  <2>3. c + Len(left) \in Nat
    BY <1>2
  <2> QED BY <2>1, <2>2, <2>3, SeqMade
<1> HIDE DEF params
<1>8. e.slots = slots /\ e.params = params /\ e.depth = Len(left)
  BY <1>1
<1> HIDE DEF e
<1>9. IsEntry(e)
  BY <1>2, <1>3, <1>7, <1>8 DEF IsEntry
<1>10. Fresh(Declared(b, params), n, n + (c + Len(left)))
  <2> DEFINE D == Declared(b, params)
             w == c + Len(left)
  <2>0. w \in Nat
    BY <1>2
  <2>1. ASSUME NEW d \in D
        PROVE  \E k \in 1 .. w :
                 d = Definition(b, <<"param", k>>, params[k].value, params[k].type) /\ d.value = n + k - 1
    <3>1. PICK k \in DOMAIN params : d = Definition(b, <<"param", k>>, params[k].value, params[k].type)
      BY DEF Declared
    <3>2. d.value = params[k].value
      BY <3>1 DEF Definition
    <3> QED BY <1>7, <3>1, <3>2
  <2> HIDE DEF D, w
  <2>2. \A d \in D : d.value \in n .. (n + w) - 1
    <3> SUFFICES ASSUME NEW d \in D PROVE d.value \in n .. (n + w) - 1
      OBVIOUS
    <3>1. PICK k \in 1 .. w : d.value = n + k - 1
      BY <2>1
    <3> QED BY <2>0, <3>1
  <2>3. ASSUME NEW d1 \in D, NEW d2 \in D, d1.value = d2.value PROVE d1 = d2
    <3>1. PICK j \in 1 .. w :
            d1 = Definition(b, <<"param", j>>, params[j].value, params[j].type) /\ d1.value = n + j - 1
      BY <2>1
    <3>2. PICK k \in 1 .. w :
            d2 = Definition(b, <<"param", k>>, params[k].value, params[k].type) /\ d2.value = n + k - 1
      BY <2>1
    <3>3. j = k
      BY <2>0, <2>3, <3>1, <3>2
    <3> QED BY <3>1, <3>2, <3>3
  <2>4. n + w \in Nat /\ n <= n + w
    BY <2>0
  <2>5. \A d1, d2 \in D : d1.value = d2.value => d1 = d2
    BY <2>3
  <2>6. Fresh(D, n, n + w)
    <3> DEFINE m == n + w
    <3>0. m = n + w
      OBVIOUS
    <3> HIDE DEF m
    <3>1. m \in Nat /\ n <= m /\ \A d \in D : d.value \in n .. m - 1
      BY <2>2, <2>4, <3>0, Zenon
    <3>2. Fresh(D, n, m)
      BY <2>5, <3>1 DEF Fresh
    <3> QED BY <3>2 DEF m
  <2> QED BY <2>6 DEF D, w
<1>11. c + Len(left) \in Nat
  BY <1>2
<1> QED BY <1>8, <1>9, <1>10, <1>11 DEF c, e

\* What the entries captured since declare.
Added(E, old) == UNION {Declared(b, E[b].params) : b \in DOMAIN E \ DOMAIN old}

\* The entries that edges into the targets leave: those there were, and new ones with new values.
Extends(E, m, old, n, targets) ==
    /\ DOMAIN E = DOMAIN old \cup targets
    /\ \A b \in DOMAIN old : E[b] = old[b]
    /\ \A b \in DOMAIN E \ DOMAIN old : IsEntry(E[b])
    /\ Fresh(Added(E, old), n, m)

\* An edge into the block at t captures its entry, unless it has one.
ReachOne(x, t, left) ==
    IF t \in DOMAIN x.entries THEN x
    ELSE [entries |-> Put(x.entries, t, Captured(left, x.next)),
          next |-> x.next + Cardinality(DOMAIN locals) + Len(left)]

\* What one edge leaves.
LEMMA ReachOneMakes ==
    ASSUME NEW x, NEW t, NEW left
    PROVE  /\ t \in DOMAIN x.entries => ReachOne(x, t, left) = x
           /\ t \notin DOMAIN x.entries =>
                /\ ReachOne(x, t, left).entries = Put(x.entries, t, Captured(left, x.next))
                /\ ReachOne(x, t, left).next = x.next + Cardinality(DOMAIN locals) + Len(left)
BY DEF ReachOne

\* One more target.
LEMMA ExtendsOnce ==
    ASSUME IsFiniteSet(DOMAIN locals), NEW left, IsSeq(left), NEW n \in Nat,
           NEW x, NEW S, Extends(x.entries, x.next, entries, n, S), NEW t,
           NEW y, y = ReachOne(x, t, left)
    PROVE  Extends(y.entries, y.next, entries, n, S \cup {t})
<1> DEFINE E == x.entries
           m == x.next
           w == Cardinality(DOMAIN locals) + Len(left)
           F == Put(E, t, Captured(left, m))
<1>1. CASE t \in DOMAIN E
  BY <1>1, ReachOneMakes DEF Extends
<1>2. CASE t \notin DOMAIN E
  <2>1. m \in Nat
    BY DEF Extends, Fresh
  <2>2. /\ w \in Nat /\ IsEntry(Captured(left, m))
        /\ Fresh(Declared(t, Captured(left, m).params), m, m + w)
    BY <2>1, CapturedMakes
  <2>3. y.entries = F /\ y.next = m + Cardinality(DOMAIN locals) + Len(left)
    BY <1>2, ReachOneMakes
  <2>4. Cardinality(DOMAIN locals) \in Nat /\ Len(left) \in Nat
    BY FS_CardinalityType, SeqIs
  <2>5. y.next = m + w
    BY <2>1, <2>3, <2>4
  <2>6. DOMAIN F = DOMAIN E \cup {t} /\ F[t] = Captured(left, m) /\ \A z \in DOMAIN E : F[z] = E[z]
    <3> DEFINE z0 == Captured(left, m)
    <3> HIDE DEF z0, E
    <3>1. F = Put(E, t, z0)
      BY DEF z0
    <3> HIDE DEF F
    <3>2. DOMAIN F = DOMAIN E \cup {t} /\ F[t] = z0 /\ \A z \in DOMAIN E : z # t => F[z] = E[z]
      BY <3>1 DEF Put
    <3> QED BY <1>2, <3>2 DEF z0
  <2> HIDE DEF F, w
  <2>7. DOMAIN E = DOMAIN entries \cup S /\ t \notin DOMAIN entries
    BY <1>2 DEF Extends
  <2>8. /\ \A b \in DOMAIN entries : F[b] = entries[b]
        /\ \A b \in DOMAIN F \ DOMAIN entries : IsEntry(F[b])
    BY <2>2, <2>6, <2>7 DEF Extends
  <2>9. Added(F, entries) \subseteq Added(E, entries) \cup Declared(t, Captured(left, m).params)
    <3> SUFFICES ASSUME NEW b \in DOMAIN F \ DOMAIN entries, NEW d \in Declared(b, F[b].params)
                 PROVE  d \in Added(E, entries) \cup Declared(t, Captured(left, m).params)
      BY DEF Added
    <3>1. CASE b = t
      BY <2>6, <3>1
    <3>2. CASE b # t
      <4>1. b \in DOMAIN E \ DOMAIN entries /\ F[b] = E[b]
        BY <2>6, <3>2
      <4> QED BY <4>1 DEF Added
    <3> QED BY <3>1, <3>2
  <2>10. Fresh(Added(F, entries), n, m + w)
    <3>1. Fresh(Added(E, entries), n, m)
      BY DEF Extends
    <3>2. Fresh(Added(E, entries) \cup Declared(t, Captured(left, m).params), n, m + w)
      BY <2>2, <3>1, FreshJoin
    <3> QED BY <2>9, <3>2, FreshPart
  <2> QED BY <2>3, <2>5, <2>6, <2>7, <2>8, <2>10 DEF Extends
<1> QED BY <1>1, <1>2

\* The edges of a block capture the entries of the blocks they are the first to reach.
LEMMA ReachedExtends ==
    ASSUME IsFiniteSet(DOMAIN locals), NEW left, IsSeq(left), NEW n \in Nat,
           NEW targets, IsSeq(targets),
           NEW r, r = Reached(targets, left, n)
    PROVE  Extends(r.entries, r.next, entries, n, ToSet(targets))
<1> DEFINE l == Len(targets)
           step(k, x) == ReachOne(x, targets[k], left)
           start == [entries |-> entries, next |-> n]
           Is(f, m) == f = [k \in 0 .. m |-> IF k = 0 THEN start ELSE step(k, f[k - 1])]
           Without == {m \in 0 .. l : ~ \E f : Is(f, m)}
           before(k) == {targets[j] : j \in 1 .. k}
<1>1. l \in Nat /\ DOMAIN targets = 1 .. l
  BY SeqIs
<1> HIDE DEF l, step, start
<1>2. Without = {}
  <2> SUFFICES ASSUME Without # {} PROVE FALSE
    OBVIOUS
  <2> DEFINE m == Least(Without)
  <2>1. m \in Without /\ \A k \in Without : m <= k
    <3>1. Without \subseteq 0 .. l
      BY Zenon
    <3> HIDE DEF Without
    <3>2. Without \in SUBSET Nat
      BY <1>1, <3>1
    <3> QED BY <3>2, LeastNatural
  <2> HIDE DEF m
  <2>2. m \in 0 .. l /\ ~ \E f : Is(f, m)
    BY <2>1
  <2>3. CASE m = 0
    <3> DEFINE f == [k \in 0 .. 0 |-> start]
    <3>1. Is(f, 0)
      OBVIOUS
    <3> HIDE DEF f, Is
    <3> QED BY <2>2, <2>3, <3>1
  <2>4. CASE m # 0
    <3>1. m - 1 \in 0 .. l /\ ~(m <= m - 1) /\ m \in 1 .. l
      BY <1>1, <2>2, <2>4
    <3>2. \E f : Is(f, m - 1)
      BY <2>1, <3>1
    <3>3. PICK g : Is(g, m - 1)
      BY <3>2
    <3> DEFINE f == [k \in 0 .. m |-> IF k = m THEN step(m, g[m - 1]) ELSE g[k]]
    <3>4. \A k \in 0 .. m : f[k] = IF k = 0 THEN start ELSE step(k, f[k - 1])
      <4> SUFFICES ASSUME NEW k \in 0 .. m
                   PROVE  f[k] = IF k = 0 THEN start ELSE step(k, f[k - 1])
        OBVIOUS
      <4>1. CASE k = m
        <5>1. f[k] = step(m, g[m - 1])
          BY <4>1
        <5>2. f[k - 1] = g[m - 1]
          BY <2>4, <3>1, <4>1
        <5> HIDE DEF f, Is, Without
        <5> QED BY <2>4, <4>1, <5>1, <5>2
      <4>2. CASE k # m
        <5>1. k \in 0 .. m - 1
          BY <4>2, <3>1
        <5>2. g[k] = IF k = 0 THEN start ELSE step(k, g[k - 1])
          BY <3>3, <5>1
        <5>3. k # 0 => f[k - 1] = g[k - 1]
          BY <5>1, <3>1
        <5>4. f[k] = g[k]
          BY <4>2
        <5> HIDE DEF f, Is, Without
        <5>5. CASE k = 0
          BY <5>2, <5>4, <5>5
        <5>6. CASE k # 0
          BY <5>2, <5>3, <5>4, <5>6
        <5> QED BY <5>5, <5>6
      <4> QED BY <4>1, <4>2
    <3>5. Is(f, m)
      BY <3>4
    <3> HIDE DEF f, Is
    <3> QED BY <2>2, <3>5
  <2> QED BY <2>3, <2>4
<1> DEFINE reached == CHOOSE f : Is(f, l)
<1>3. Is(reached, l)
  <2>1. l \in 0 .. l
    BY <1>1
  <2>2. \E f : Is(f, l)
    BY <1>2, <2>1
  <2> HIDE DEF Is
  <2> QED BY <2>2
<1>4. r = reached[l]
  BY DEF Reached, ReachOne, l, step, start
<1> HIDE DEF reached
<1>5. \A k \in 0 .. l : reached[k] = IF k = 0 THEN start ELSE step(k, reached[k - 1])
  BY <1>3
<1> HIDE DEF Is, Without
<1>6. \A k \in 0 .. l : Extends(reached[k].entries, reached[k].next, entries, n, before(k))
  <2> DEFINE good(k) == Extends(reached[k].entries, reached[k].next, entries, n, before(k))
             Wrong == {k \in 0 .. l : ~good(k)}
             m == Least(Wrong)
  <2> SUFFICES ASSUME Wrong # {} PROVE FALSE
    OBVIOUS
  <2>1. m \in Wrong /\ \A k \in Wrong : m <= k
    <3>1. Wrong \subseteq 0 .. l
      BY Zenon
    <3> HIDE DEF Wrong
    <3>2. Wrong \in SUBSET Nat
      BY <1>1, <3>1
    <3> QED BY <3>2, LeastNatural
  <2> HIDE DEF m
  <2>2. m \in 0 .. l /\ ~good(m)
    BY <2>1
  <2>3. CASE m = 0
    <3>1. reached[m].entries = entries /\ reached[m].next = n
      BY <1>5, <2>2, <2>3 DEF start
    <3>2. before(m) = {}
      BY <2>3
    <3>3. Added(entries, entries) = {}
      BY DEF Added
    <3>4. Extends(entries, n, entries, n, {})
      BY <3>3, FreshNone DEF Extends
    <3> QED BY <2>2, <3>1, <3>2, <3>4
  <2>4. CASE m # 0
    <3>1. m - 1 \in 0 .. l /\ ~(m <= m - 1) /\ m \in 1 .. l
      BY <1>1, <2>2, <2>4
    <3>2. good(m - 1)
      BY <2>1, <3>1
    <3>3. reached[m] = step(m, reached[m - 1])
      BY <1>5, <2>2, <2>4
    <3>4. before(m) = before(m - 1) \cup {targets[m]}
      <4>1. 1 .. m = (1 .. m - 1) \cup {m}
        BY <3>1
      <4> QED BY <4>1
    <3> HIDE DEF before, Wrong
    <3>5. good(m)
      <4> DEFINE x == reached[m - 1]
                 y == reached[m]
                 t == targets[m]
      <4>1. y = ReachOne(x, t, left)
        BY <3>3 DEF step
      <4>2. Extends(x.entries, x.next, entries, n, before(m - 1))
        BY <3>2
      <4>3. good(m) <=> Extends(y.entries, y.next, entries, n, before(m - 1) \cup {t})
        BY <3>4
      <4> HIDE DEF x, y, t, good
      <4>4. Extends(y.entries, y.next, entries, n, before(m - 1) \cup {t})
        BY <4>1, <4>2, ExtendsOnce
      <4> QED BY <4>3, <4>4
    <3> QED BY <2>2, <3>5
  <2> QED BY <2>3, <2>4
<1>7. before(l) = ToSet(targets)
  BY <1>1 DEF ToSet
<1>8. l \in 0 .. l
  BY <1>1
<1> HIDE DEF before
<1> QED BY <1>4, <1>6, <1>7, <1>8

-----------------------------------------------------------------------------
(* What holds of a method half lowered. *)

\* The values a block knows as it starts, and those that a frame holds.  The entry's parameters
\* are defined by its instructions.
Given(E, b) == IF b = 1 THEN {} ELSE {p.value : p \in ToSet(E[b].params)}
FrameValues(L, S) == {x.value : x \in ToSet(S)} \cup {L[s].value : s \in DOMAIN L}

\* The blocks left: each once, and the entry only while it is being lowered.
BlocksLeft(c, o, at) ==
    /\ IsSeq(o) /\ ToSet(o) \subseteq Leaders(c)
    /\ \A i, j \in DOMAIN o : o[i] = o[j] => i = j
    /\ 1 \in ToSet(o) => at # 0 /\ o[1] = 1

\* A block being lowered has an entry, unless it is the method's, and a frame of values it knows;
\* the instruction lowered last ends no block.
InBlock(c, o, at, L, S, is, E) ==
    at # 0 =>
      /\ o # <<>> /\ at \in Head(o) .. End(c, Head(o))
      /\ at # Head(o) => c[at - 1].op \in Normal
      /\ Head(o) # 1 => Head(o) \in DOMAIN E
      /\ IsSeq(S) /\ IsFiniteSet(DOMAIN L)
      /\ FrameValues(L, S) \subseteq Given(E, Head(o)) \cup Defined(is)

Sane(c, o, at, L, S, n, is, E) ==
    /\ BlocksLeft(c, o, at) /\ InBlock(c, o, at, L, S, is, E)
    /\ n \in Nat \ {0}
    /\ IsSeq(is) /\ (at = 0 => is = <<>>)
    /\ \A b \in DOMAIN E : IsEntry(E[b])

\* Every block found is left or lowered; a block left comes after one of its predecessors, or has
\* been reached.
Covers(c, v, o, E, B) ==
    /\ v \subseteq Leaders(c) /\ ToSet(o) \cup DOMAIN B = v /\ ToSet(o) \cap DOMAIN B = {}
    /\ \A b \in v : ToSet(Successors(c, b)) \subseteq v
    /\ DOMAIN E \subseteq v \ {1}
    /\ \A i \in DOMAIN o :
         o[i] = 1 \/ o[i] \in DOMAIN E \/ \E j \in DOMAIN o : j < i /\ o[i] \in ToSet(Successors(c, o[j]))

\* The code of a block that was lowered: what it uses is known, its edges supply the entries of
\* blocks, and it ends where it ends.
Whole(E, K, is) ==
    /\ IsSeq(is) /\ is # <<>>
    /\ \A k \in DOMAIN is :
         /\ is[k].op \in Terminators <=> k = Len(is)
         /\ ToSet(is[k].uses) \subseteq K \cup Before(is, k)
         /\ \A e \in ToSet(is[k].edges) :
              /\ ToSet(e.args) \subseteq K \cup Before(is, k)
              /\ e.block \in DOMAIN E /\ Len(e.args) = Len(E[e.block].params)

Written(E, b, block) ==
    /\ b # 1 => b \in DOMAIN E
    /\ block.params = IF b = 1 THEN <<>> ELSE E[b].params
    /\ Whole(E, Given(E, b), block.instrs)

\* What the entries, the blocks lowered and the block being lowered define.
DeclaredIn(E) == UNION {Declared(b, E[b].params) : b \in DOMAIN E}
ProducedIn(B) == UNION {Produced(b, B[b].instrs) : b \in DOMAIN B}
Made(E, B, b, is) == DeclaredIn(E) \cup ProducedIn(B) \cup Produced(b, is)

Sound(c, v, np, o, at, n, is, E, B) ==
    /\ Covers(c, v, o, E, B)
    /\ \A b \in DOMAIN B : Written(E, b, B[b])
    /\ at # 0 => Body(Given(E, Head(o)), is)
    /\ Fresh(Made(E, B, Head(o), is), np + 1, n)

\* No block has an instruction after one that ends it.
StraightCode(c) == \A b \in Leaders(c) : \A i \in b .. End(c, b) - 2 : c[i].op \in Normal

LowerInv(c, v, np, o, at, L, S, n, is, E, B) ==
    /\ Sane(c, o, at, L, S, n, is, E)
    /\ StraightCode(c) => Sound(c, v, np, o, at, n, is, E, B)

\* The first of a sequence and the rest.
LEMMA HeadOf ==
    ASSUME NEW o, IsSeq(o), o # <<>>
    PROVE  /\ Head(o) = o[1] /\ 1 \in DOMAIN o /\ Head(o) \in ToSet(o)
           /\ IsSeq(Tail(o)) /\ Len(Tail(o)) = Len(o) - 1 /\ DOMAIN Tail(o) = 1 .. Len(o) - 1
           /\ \A i \in DOMAIN Tail(o) : i + 1 \in DOMAIN o /\ Tail(o)[i] = o[i + 1]
           /\ ToSet(o) = {Head(o)} \cup ToSet(Tail(o))
<1>1. o \in Seq(ToSet(o)) /\ Len(o) \in Nat /\ DOMAIN o = 1 .. Len(o)
  BY SeqIs
<1>2. Len(o) # 0
  BY <1>1, EmptySeq
<1>3. Head(o) = o[1] /\ 1 \in DOMAIN o
  BY <1>1, <1>2
<1>4. /\ Tail(o) \in Seq(ToSet(o)) /\ Len(Tail(o)) = Len(o) - 1
      /\ \A i \in 1 .. Len(Tail(o)) : Tail(o)[i] = o[i + 1]
  BY <1>1, HeadTailProperties
<1>5. IsSeq(Tail(o)) /\ DOMAIN Tail(o) = 1 .. Len(o) - 1 /\ ToSet(Tail(o)) \subseteq ToSet(o)
  BY <1>4, SeqOver
<1>6. \A i \in DOMAIN Tail(o) : i + 1 \in DOMAIN o /\ Tail(o)[i] = o[i + 1]
  BY <1>1, <1>4, <1>5
<1>7. Head(o) \in ToSet(o)
  BY <1>3 DEF ToSet
<1>8. ToSet(o) \subseteq {Head(o)} \cup ToSet(Tail(o))
  <2> SUFFICES ASSUME NEW i \in DOMAIN o PROVE o[i] \in {Head(o)} \cup ToSet(Tail(o))
    BY DEF ToSet
  <2>1. CASE i = 1
    BY <1>3, <2>1
  <2>2. CASE i # 1
    <3>1. i - 1 \in DOMAIN Tail(o) /\ (i - 1) + 1 = i
      BY <1>1, <1>5, <2>2
    <3>2. Tail(o)[i - 1] = o[i]
      BY <1>6, <3>1
    <3> QED BY <3>1, <3>2 DEF ToSet
  <2> QED BY <2>1, <2>2
<1> QED BY <1>3, <1>4, <1>5, <1>6, <1>7, <1>8

\* An instruction of the block is lowered.
LEMMA EmitKeeps ==
    ASSUME NEW c, Planned(c), NEW v, NEW np, NEW o, NEW at, NEW L, NEW S, NEW n, NEW is, NEW E, NEW B,
           LowerInv(c, v, np, o, at, L, S, n, is, E, B),
           at # 0, at < End(c, Head(o)), c[at].op \in Normal,
           NEW t, NEW m, Emits(FrameValues(L, S), t, n, m),
           NEW M, NEW T, IsSeq(T), IsFiniteSet(DOMAIN M),
           FrameValues(M, T) \subseteq FrameValues(L, S) \cup Defined(t)
    PROVE  LowerInv(c, v, np, o, at + 1, M, T, m, is \o t, E, B)
<1> DEFINE b == Head(o)
<1>1. Sane(c, o, at, L, S, n, is, E)
  BY DEF LowerInv
<1>2. /\ BlocksLeft(c, o, at) /\ InBlock(c, o, at, L, S, is, E)
      /\ n \in Nat \ {0} /\ IsSeq(is) /\ \A x \in DOMAIN E : IsEntry(E[x])
  BY <1>1 DEF Sane
<1>3. /\ o # <<>> /\ at \in b .. End(c, b)
      /\ b # 1 => b \in DOMAIN E
      /\ FrameValues(L, S) \subseteq Given(E, b) \cup Defined(is)
  BY <1>2 DEF InBlock
<1>4. IsSeq(o) /\ b \in Leaders(c)
  BY <1>2, <1>3, HeadOf DEF BlocksLeft
<1>5. b \in Nat \ {0} /\ End(c, b) \in Nat
  <2> HIDE DEF b
  <2>1. Leaders(c) \subseteq DOMAIN c /\ IsSeq(c) /\ EndsAt(c, b)
    BY <1>4 DEF Planned
  <2>2. b \in 1 .. Len(c) /\ Len(c) \in Nat
    BY <1>4, <2>1, SeqIs
  <2> QED BY <2>1, <2>2 DEF EndsAt
<1> HIDE DEF b
<1>6. at + 1 \in b .. End(c, b) /\ at + 1 # 0 /\ (at + 1) - 1 = at
  BY <1>3, <1>5 DEF b
<1>7. Body(FrameValues(L, S), t) /\ Numbered(t, n, m) /\ IsSeq(t)
  BY DEF Emits, Body
<1>8. IsSeq(is \o t) /\ Defined(is \o t) = Defined(is) \cup Defined(t)
  BY <1>2, <1>7, Joined, DefinedJoin
<1>9. InBlock(c, o, at + 1, M, T, is \o t, E)
  BY <1>3, <1>6, <1>8 DEF InBlock, b
<1>10. BlocksLeft(c, o, at + 1)
  BY <1>2, <1>6 DEF BlocksLeft
<1>11. Sane(c, o, at + 1, M, T, m, is \o t, E)
  <2>1. m \in Nat \ {0}
    BY <1>7 DEF Numbered
  <2> QED BY <1>2, <1>6, <1>8, <1>9, <1>10, <2>1 DEF Sane
<1>12. ASSUME StraightCode(c) PROVE Sound(c, v, np, o, at + 1, m, is \o t, E, B)
  <2>1. Sound(c, v, np, o, at, n, is, E, B)
    BY <1>12 DEF LowerInv
  <2>2. Body(Given(E, b), is \o t)
    <3>1. Body(Given(E, b), is)
      BY <2>1 DEF Sound, b
    <3> QED BY <1>3, <1>7, <3>1, BodiesJoin
  <2>3. Fresh(Made(E, B, b, is \o t), np + 1, m)
    <3>1. Fresh(Made(E, B, b, is), np + 1, n)
      BY <2>1 DEF Sound, b
    <3>2. PICK G : Fresh(G, n, m) /\ Produced(b, is \o t) \subseteq Produced(b, is) \cup G
      BY <1>2, <1>7, ProducedJoin
    <3>3. Made(E, B, b, is \o t) \subseteq Made(E, B, b, is) \cup G
      BY <3>2 DEF Made
    <3> DEFINE D == Made(E, B, b, is)
               F == Made(E, B, b, is \o t)
               first == np + 1
    <3>4. Fresh(D, first, n) /\ Fresh(G, n, m) /\ F \subseteq D \cup G
      BY <3>1, <3>2, <3>3
    <3> HIDE DEF D, F, first
    <3>5. Fresh(D \cup G, first, m)
      BY <3>4, FreshJoin
    <3>6. Fresh(F, first, m)
      BY <3>4, <3>5, FreshPart
    <3> QED BY <3>6 DEF F, first
  <2> QED BY <2>1, <2>2, <2>3 DEF Sound, b
<1> QED BY <1>11, <1>12 DEF LowerInv

\* Nothing is produced by what defines nothing.
LEMMA ProducedNothing ==
    ASSUME NEW b
    PROVE  /\ Produced(b, <<>>) = {}
           /\ \A w, i : IsSeq(w) /\ i.def = None => Produced(b, Append(w, i)) \subseteq Produced(b, w)
<1>1. Produced(b, <<>>) = {}
  BY SeqEmpty DEF Produced
<1>2. ASSUME NEW w, NEW i, IsSeq(w), i.def = None
      PROVE  Produced(b, Append(w, i)) \subseteq Produced(b, w)
  <2> DEFINE u == Append(w, i)
  <2>1. /\ Len(w) \in Nat /\ DOMAIN w = 1 .. Len(w) /\ DOMAIN u = 1 .. Len(w) + 1
        /\ \A k \in 1 .. Len(w) : u[k] = w[k]
        /\ u[Len(w) + 1] = i
    BY <1>2, SeqIs, Appended
  <2> HIDE DEF u
  <2>2. \A k \in DOMAIN u : (k \in DOMAIN w /\ u[k] = w[k]) \/ u[k] = i
    BY <2>1
  <2>3. ASSUME NEW k \in DOMAIN u, Defines(u[k]) PROVE k \in DOMAIN w /\ u[k] = w[k]
    BY <1>2, <2>2, <2>3 DEF Defines
  <2>4. Produced(b, u) \subseteq Produced(b, w)
    <3> SUFFICES ASSUME NEW k \in DOMAIN u, Defines(u[k])
                 PROVE  Definition(b, <<"instr", k>>, u[k].def, ResultType(u[k])) \in Produced(b, w)
      BY DEF Produced
    <3>1. k \in DOMAIN w /\ u[k] = w[k]
      BY <2>3
    <3> QED BY <3>1 DEF Produced
  <2> QED BY <2>4 DEF u
<1> QED BY <1>1, <1>2

\* The code of a block with its terminator.
LEMMA WholeMade ==
    ASSUME NEW E, NEW K, NEW w, Body(K, w), NEW end,
           end.op \in Terminators, ToSet(end.uses) \subseteq K \cup Defined(w),
           \A e \in ToSet(end.edges) :
             /\ ToSet(e.args) \subseteq K \cup Defined(w)
             /\ e.block \in DOMAIN E /\ Len(e.args) = Len(E[e.block].params)
    PROVE  Whole(E, K, Append(w, end))
<1> DEFINE u == Append(w, end)
           l == Len(w)
<1>1. IsSeq(w) /\ l \in Nat /\ DOMAIN w = 1 .. l
  BY SeqIs DEF Body
<1>2. /\ IsSeq(u) /\ Len(u) = l + 1 /\ DOMAIN u = 1 .. l + 1 /\ u # <<>>
      /\ \A k \in 1 .. l : u[k] = w[k]
      /\ u[l + 1] = end
  <2>1. IsLonger(w, end, u)
    BY <1>1, Longer
  <2> HIDE DEF u
  <2> QED BY <1>1, <2>1 DEF IsLonger
<1> HIDE DEF u
<1>3. \A k \in DOMAIN u :
        \/ k \in DOMAIN w /\ k # Len(u) /\ u[k] = w[k]
        \/ k = Len(u) /\ k = l + 1 /\ u[k] = end
  BY <1>1, <1>2
<1>4. \A k \in DOMAIN w : Before(u, k) = Before(w, k)
  <2>1. \A k \in DOMAIN w : \A j \in 1 .. k - 1 : u[j] = w[j]
    BY <1>1, <1>2
  <2> QED BY <2>1 DEF Before
<1>5. Before(u, l + 1) = Defined(w)
  <2>1. 1 .. l + 1 - 1 = DOMAIN w
    BY <1>1
  <2>2. \A j \in DOMAIN w : u[j] = w[j]
    BY <1>1, <1>2
  <2> QED BY <2>1, <2>2 DEF Before, Defined
<1>6. ASSUME NEW k \in DOMAIN u
      PROVE  /\ u[k].op \in Terminators <=> k = Len(u)
             /\ ToSet(u[k].uses) \subseteq K \cup Before(u, k)
             /\ \A e \in ToSet(u[k].edges) :
                  /\ ToSet(e.args) \subseteq K \cup Before(u, k)
                  /\ e.block \in DOMAIN E /\ Len(e.args) = Len(E[e.block].params)
  <2>1. CASE k \in DOMAIN w /\ k # Len(u) /\ u[k] = w[k]
    <3>1. w[k].op \notin Terminators /\ w[k].edges = <<>> /\ ToSet(w[k].uses) \subseteq K \cup Before(w, k)
      BY <2>1 DEF Body
    <3> QED BY <1>4, <2>1, <3>1, SeqEmpty
  <2>2. CASE k = Len(u) /\ k = l + 1 /\ u[k] = end
    BY <1>5, <2>2
  <2> QED BY <1>3, <2>1, <2>2
<1>7. Whole(E, K, u)
  BY <1>2, <1>6 DEF Whole
<1> QED BY <1>7 DEF u

\* More entries are captured.
LEMMA WrittenStays ==
    ASSUME NEW E, NEW F, DOMAIN E \subseteq DOMAIN F, \A b \in DOMAIN E : F[b] = E[b],
           NEW b, NEW block, Written(E, b, block)
    PROVE  Written(F, b, block)
<1>1. Given(F, b) = Given(E, b)
  BY DEF Written, Given
<1> QED BY <1>1 DEF Written, Whole

\* What is defined once a block ends: what was, what new entries declare, and what it produced.
LEMMA DefinitionsGrow ==
    ASSUME NEW E, NEW F, NEW B, NEW C, NEW b, NEW block, NEW u, NEW x,
           \A y \in DOMAIN E : F[y] = E[y],
           C = Put(B, b, block), block.instrs = u
    PROVE  Made(F, C, x, <<>>) \subseteq DeclaredIn(E) \cup Added(F, E) \cup ProducedIn(B) \cup Produced(b, u)
<1>1. DeclaredIn(F) \subseteq DeclaredIn(E) \cup Added(F, E)
  <2> SUFFICES ASSUME NEW y \in DOMAIN F, NEW d \in Declared(y, F[y].params)
               PROVE  d \in DeclaredIn(E) \cup Added(F, E)
    BY DEF DeclaredIn
  <2>1. CASE y \in DOMAIN E
    BY <2>1 DEF DeclaredIn
  <2>2. CASE y \notin DOMAIN E
    BY <2>2 DEF Added
  <2> QED BY <2>1, <2>2
<1>2. ProducedIn(C) \subseteq ProducedIn(B) \cup Produced(b, u)
  <2>1. DOMAIN C = DOMAIN B \cup {b} /\ C[b] = block /\ \A y \in DOMAIN B : y # b => C[y] = B[y]
    BY DEF Put
  <2> SUFFICES ASSUME NEW y \in DOMAIN C, NEW d \in Produced(y, C[y].instrs)
               PROVE  d \in ProducedIn(B) \cup Produced(b, u)
    BY DEF ProducedIn
  <2>2. CASE y = b
    BY <2>1, <2>2
  <2>3. CASE y # b
    <3>1. y \in DOMAIN B /\ C[y] = B[y]
      BY <2>1, <2>3
    <3> QED BY <3>1 DEF ProducedIn
  <2> QED BY <2>2, <2>3
<1> QED BY <1>1, <1>2, ProducedNothing DEF Made

\* The block ends.
LEMMA EndKeeps ==
    ASSUME NEW c, Planned(c), NEW v, NEW np, NEW o, NEW at, NEW L, NEW S, NEW n, NEW is, NEW E, NEW B,
           LowerInv(c, v, np, o, at, L, S, n, is, E, B), at # 0,
           NEW t, NEW l, Emits(FrameValues(L, S), t, n, l),
           NEW X, NEW F, NEW m, Extends(F, m, E, l, X),
           StraightCode(c) => X = ToSet(Successors(c, Head(o))),
           NEW end, end.op \in Terminators, end.def = None,
           ToSet(end.uses) \subseteq FrameValues(L, S) \cup Defined(t),
           \A e \in ToSet(end.edges) :
             /\ ToSet(e.args) \subseteq FrameValues(L, S)
             /\ e.block \in X /\ Len(e.args) = Len(F[e.block].params),
           NEW block, block.params = IF Head(o) = 1 THEN <<>> ELSE E[Head(o)].params,
           block.instrs = Append(is \o t, end),
           NEW C, C = Put(B, Head(o), block)
    PROVE  LowerInv(c, v, np, Tail(o), 0, L, S, m, <<>>, F, C)
<1> DEFINE b == Head(o)
           w == is \o t
<1>1. Sane(c, o, at, L, S, n, is, E)
  BY DEF LowerInv
<1>2. /\ BlocksLeft(c, o, at) /\ InBlock(c, o, at, L, S, is, E)
      /\ n \in Nat \ {0} /\ IsSeq(is) /\ \A x \in DOMAIN E : IsEntry(E[x])
  BY <1>1 DEF Sane
<1>3. /\ o # <<>>
      /\ b # 1 => b \in DOMAIN E
      /\ FrameValues(L, S) \subseteq Given(E, b) \cup Defined(is)
  BY <1>2 DEF InBlock
<1>4. /\ IsSeq(o) /\ ToSet(o) \subseteq Leaders(c)
      /\ \A i, j \in DOMAIN o : o[i] = o[j] => i = j
      /\ 1 \in ToSet(o) => o[1] = 1
  BY <1>2 DEF BlocksLeft
<1>5. /\ b = o[1] /\ 1 \in DOMAIN o /\ b \in ToSet(o)
      /\ IsSeq(Tail(o)) /\ Len(Tail(o)) = Len(o) - 1 /\ DOMAIN Tail(o) = 1 .. Len(o) - 1
      /\ \A i \in DOMAIN Tail(o) : i + 1 \in DOMAIN o /\ Tail(o)[i] = o[i + 1]
      /\ ToSet(o) = {b} \cup ToSet(Tail(o))
  BY <1>3, <1>4, HeadOf
<1>6. b \in Leaders(c) /\ Len(o) \in Nat
  BY <1>4, <1>5, SeqIs
<1> HIDE DEF b
<1>7. b \notin ToSet(Tail(o))
  <2> SUFFICES ASSUME NEW i \in DOMAIN Tail(o), b = Tail(o)[i] PROVE FALSE
    BY DEF ToSet
  <2>1. i + 1 \in DOMAIN o /\ o[i + 1] = o[1] /\ i \in Nat \ {0}
    BY <1>5, <1>6
  <2>2. i + 1 = 1
    BY <1>4, <1>5, <2>1
  <2> QED BY <2>1, <2>2
<1>8. /\ Body(FrameValues(L, S), t) /\ Numbered(t, n, l) /\ IsSeq(t) /\ IsSeq(w)
      /\ Defined(w) = Defined(is) \cup Defined(t)
  <2>1. Body(FrameValues(L, S), t) /\ Numbered(t, n, l) /\ IsSeq(t)
    BY DEF Emits, Body
  <2> QED BY <1>2, <2>1, Joined, DefinedJoin
<1>9. /\ DOMAIN F = DOMAIN E \cup X
      /\ \A x \in DOMAIN E : F[x] = E[x]
      /\ \A x \in DOMAIN F \ DOMAIN E : IsEntry(F[x])
      /\ Fresh(Added(F, E), l, m)
  BY DEF Extends
<1>10. DOMAIN C = DOMAIN B \cup {b} /\ C[b] = block /\ \A x \in DOMAIN B : x # b => C[x] = B[x]
  BY DEF Put, b
<1>11. Sane(c, Tail(o), 0, L, S, m, <<>>, F)
  <2>1. BlocksLeft(c, Tail(o), 0)
    <3>1. ASSUME NEW i \in DOMAIN Tail(o), NEW j \in DOMAIN Tail(o), Tail(o)[i] = Tail(o)[j]
          PROVE  i = j
      <4>1. i + 1 = j + 1 /\ i \in Nat /\ j \in Nat
        BY <1>4, <1>5, <1>6, <3>1
      <4> QED BY <4>1
    <3>2. 1 \notin ToSet(Tail(o))
      BY <1>4, <1>5, <1>7
    <3>3. ToSet(Tail(o)) \subseteq Leaders(c)
      BY <1>4, <1>5
    <3> QED BY <1>5, <3>1, <3>2, <3>3 DEF BlocksLeft
  <2>2. \A x \in DOMAIN F : IsEntry(F[x])
    BY <1>2, <1>9
  <2>3. m \in Nat \ {0}
    BY <1>2, <1>8, <1>9 DEF Numbered, Fresh
  <2> QED BY <2>1, <2>2, <2>3, SeqEmpty DEF Sane, InBlock
<1>12. ASSUME StraightCode(c) PROVE Sound(c, v, np, Tail(o), 0, m, <<>>, F, C)
  <2>1. Sound(c, v, np, o, at, n, is, E, B) /\ X = ToSet(Successors(c, b))
    BY <1>12 DEF LowerInv, b
  <2>2. /\ v \subseteq Leaders(c) /\ ToSet(o) \cup DOMAIN B = v /\ ToSet(o) \cap DOMAIN B = {}
        /\ \A x \in v : ToSet(Successors(c, x)) \subseteq v
        /\ DOMAIN E \subseteq v \ {1}
        /\ \A i \in DOMAIN o : \/ o[i] = 1 \/ o[i] \in DOMAIN E
                               \/ \E j \in DOMAIN o : j < i /\ o[i] \in ToSet(Successors(c, o[j]))
    BY <2>1 DEF Sound, Covers
  <2>3. X \subseteq v \ {1}
    <3>1. b \in v
      BY <1>5, <2>2
    <3>2. 1 \notin X
      BY <1>6, <2>1 DEF Planned
    <3> QED BY <2>1, <2>2, <3>1, <3>2
  <2>4. Covers(c, v, Tail(o), F, C)
    <3>1. ToSet(Tail(o)) \cup DOMAIN C = v /\ ToSet(Tail(o)) \cap DOMAIN C = {}
      BY <1>5, <1>7, <1>10, <2>2
    <3>2. ASSUME NEW i \in DOMAIN Tail(o)
          PROVE  \/ Tail(o)[i] = 1 \/ Tail(o)[i] \in DOMAIN F
                 \/ \E j \in DOMAIN Tail(o) : j < i /\ Tail(o)[i] \in ToSet(Successors(c, Tail(o)[j]))
      <4>1. i + 1 \in DOMAIN o /\ Tail(o)[i] = o[i + 1] /\ i \in Nat
        BY <1>5, <1>6
      <4>2. CASE o[i + 1] = 1 \/ o[i + 1] \in DOMAIN E
        BY <1>9, <4>1, <4>2
      <4>3. CASE \E j \in DOMAIN o : j < i + 1 /\ o[i + 1] \in ToSet(Successors(c, o[j]))
        <5>1. PICK j \in DOMAIN o : j < i + 1 /\ o[i + 1] \in ToSet(Successors(c, o[j]))
          BY <4>3
        <5>2. CASE j = 1
          BY <1>5, <1>9, <2>1, <4>1, <5>1, <5>2
        <5>3. CASE j # 1
          <6>1. j \in 1 .. Len(o)
            BY <1>4, SeqIs
          <6>2. j - 1 \in DOMAIN Tail(o) /\ (j - 1) + 1 = j /\ j - 1 < i
            BY <1>5, <1>6, <4>1, <5>1, <5>3, <6>1
          <6>3. Tail(o)[j - 1] = o[j]
            BY <1>5, <6>2
          <6> QED BY <4>1, <5>1, <6>2, <6>3
        <5> QED BY <5>2, <5>3
      <4> QED BY <2>2, <4>1, <4>2, <4>3
    <3>3. DOMAIN F \subseteq v \ {1}
      BY <1>9, <2>2, <2>3
    <3> QED BY <2>2, <3>1, <3>2, <3>3 DEF Covers
  <2>5. Written(F, b, block)
    <3>1. Given(F, b) = Given(E, b) /\ (b # 1 => F[b] = E[b] /\ b \in DOMAIN F)
      BY <1>3, <1>9 DEF Given
    <3>2. Body(Given(E, b), w)
      <4>1. Body(Given(E, b), is)
        BY <2>1 DEF Sound, b
      <4> QED BY <1>3, <1>8, <4>1, BodiesJoin
    <3>3. FrameValues(L, S) \subseteq Given(E, b) \cup Defined(w)
      BY <1>3, <1>8
    <3>4. ToSet(end.uses) \subseteq Given(E, b) \cup Defined(w)
      BY <1>8, <3>3
    <3>5. \A e \in ToSet(end.edges) :
            /\ ToSet(e.args) \subseteq Given(E, b) \cup Defined(w)
            /\ e.block \in DOMAIN F /\ Len(e.args) = Len(F[e.block].params)
      BY <1>9, <3>3
    <3> HIDE DEF w
    <3>6. Whole(F, Given(E, b), Append(w, end))
      BY <3>2, <3>4, <3>5, WholeMade
    <3>7. block.instrs = Append(w, end)
      BY DEF w
    <3>8. block.params = IF b = 1 THEN <<>> ELSE E[b].params
      BY DEF b
    <3> QED BY <3>1, <3>6, <3>7, <3>8 DEF Written
  <2>6. \A x \in DOMAIN C : Written(F, x, C[x])
    <3> SUFFICES ASSUME NEW x \in DOMAIN C PROVE Written(F, x, C[x])
      OBVIOUS
    <3>1. CASE x = b
      BY <1>10, <2>5, <3>1
    <3>2. CASE x # b
      <4>1. x \in DOMAIN B /\ C[x] = B[x] /\ Written(E, x, B[x])
        BY <1>10, <2>1, <3>2 DEF Sound
      <4>2. DOMAIN E \subseteq DOMAIN F
        BY <1>9
      <4> QED BY <1>9, <4>1, <4>2, WrittenStays
    <3> QED BY <3>1, <3>2
  <2>7. Fresh(Made(F, C, Head(Tail(o)), <<>>), np + 1, m)
    <3>1. Fresh(Made(E, B, b, is), np + 1, n)
      BY <2>1 DEF Sound, b
    <3>2. PICK G : Fresh(G, n, l) /\ Produced(b, w) \subseteq Produced(b, is) \cup G
      BY <1>2, <1>8, ProducedJoin
    <3>3. Fresh((Made(E, B, b, is) \cup G) \cup Added(F, E), np + 1, m)
      <4>1. Fresh(Made(E, B, b, is) \cup G, np + 1, l)
        BY <3>1, <3>2, FreshJoin
      <4> QED BY <1>9, <4>1, FreshJoin
    <3> DEFINE u == Append(w, end)
    <3>4. Produced(b, u) \subseteq Produced(b, w)
      BY <1>8, ProducedNothing
    <3>5. block.instrs = u /\ C = Put(B, b, block)
      BY DEF b
    <3> HIDE DEF u, w
    <3>6. Made(F, C, Head(Tail(o)), <<>>)
            \subseteq DeclaredIn(E) \cup Added(F, E) \cup ProducedIn(B) \cup Produced(b, u)
      BY <1>9, <3>5, DefinitionsGrow
    <3>7. Made(F, C, Head(Tail(o)), <<>>) \subseteq (Made(E, B, b, is) \cup G) \cup Added(F, E)
      BY <3>2, <3>4, <3>6 DEF Made
    <3> QED BY <3>3, <3>7, FreshPart
  <2> QED BY <2>4, <2>6, <2>7 DEF Sound
<1> QED BY <1>11, <1>12 DEF LowerInv

\* A sequence has finitely many elements.
LEMMA FiniteElements ==
    ASSUME NEW s, IsSeq(s)
    PROVE  IsFiniteSet(ToSet(s))
<1>1. Len(s) \in Nat /\ DOMAIN s = 1 .. Len(s) /\ s \in [1 .. Len(s) -> ToSet(s)]
  BY SeqIs, LenProperties DEF IsSeq
<1>2. s \in Surjection(1 .. Len(s), ToSet(s))
  BY <1>1 DEF Surjection, ToSet
<1>3. IsFiniteSet(1 .. Len(s))
  BY <1>1, FS_Interval
<1> QED BY <1>2, <1>3, FS_Surjection

\* The frame of a block's entry holds the entry's parameters.
LEMMA EnterKeeps ==
    ASSUME NEW c, Planned(c), NEW v, NEW np, NEW o, NEW L, NEW S, NEW n, NEW is, NEW E, NEW B,
           LowerInv(c, v, np, o, 0, L, S, n, is, E, B),
           o # <<>>, Head(o) \in DOMAIN E,
           NEW e, e = E[Head(o)],
           NEW M, M = Restored(e), NEW T, T = SubSeq(e.params, Len(e.slots) + 1, Len(e.params))
    PROVE  LowerInv(c, v, np, o, Head(o), M, T, n, is, E, B)
<1> DEFINE b == Head(o)
<1>1. Sane(c, o, 0, L, S, n, is, E)
  BY DEF LowerInv
<1>2. /\ BlocksLeft(c, o, 0) /\ is = <<>> /\ n \in Nat \ {0} /\ IsSeq(is)
      /\ \A x \in DOMAIN E : IsEntry(E[x])
  BY <1>1 DEF Sane
<1>3. b \in Leaders(c) /\ b # 1 /\ b \in ToSet(o)
  BY <1>2, HeadOf DEF BlocksLeft
<1> HIDE DEF b
<1>4. b \in Nat \ {0} /\ b \in b .. End(c, b)
  <2>1. Leaders(c) \subseteq DOMAIN c /\ IsSeq(c) /\ EndsAt(c, b)
    BY <1>3 DEF Planned
  <2>2. b \in 1 .. Len(c) /\ Len(c) \in Nat
    BY <1>3, <2>1, SeqIs
  <2> QED BY <2>1, <2>2 DEF EndsAt
<1>5. /\ IsSeq(e.slots) /\ IsSeq(e.params) /\ e.depth \in Nat
      /\ Len(e.params) = Len(e.slots) + e.depth
  BY <1>2 DEF IsEntry
<1>6. /\ Len(e.slots) \in Nat /\ Len(e.params) \in Nat
      /\ DOMAIN e.slots = 1 .. Len(e.slots) /\ DOMAIN e.params = 1 .. Len(e.params)
  BY <1>5, SeqIs
<1>7. IsSeq(T) /\ ToSet(T) \subseteq ToSet(e.params)
  <2>1. Len(e.slots) + 1 \in Nat \ {0} /\ Len(e.params) \in Int
    BY <1>6
  <2> QED BY <1>5, <2>1, Part
<1>8. /\ DOMAIN M = ToSet(e.slots)
      /\ \A s \in DOMAIN M : M[s] \in ToSet(e.params)
  <2>1. DOMAIN M = ToSet(e.slots)
    BY DEF Restored
  <2>2. ASSUME NEW s \in ToSet(e.slots) PROVE M[s] \in ToSet(e.params)
    <3> DEFINE k == CHOOSE j \in DOMAIN e.slots : e.slots[j] = s
    <3>1. k \in DOMAIN e.slots
      BY DEF ToSet
    <3>2. M[s] = e.params[k]
      BY DEF Restored
    <3> HIDE DEF k
    <3>3. k \in DOMAIN e.params
      BY <1>5, <1>6, <3>1
    <3> QED BY <3>2, <3>3 DEF ToSet
  <2> QED BY <2>1, <2>2
<1>9. IsFiniteSet(DOMAIN M)
  BY <1>5, <1>8, FiniteElements
<1>10. Given(E, b) = {p.value : p \in ToSet(e.params)}
  BY <1>3 DEF Given, b
<1>11. FrameValues(M, T) \subseteq Given(E, b) \cup Defined(is)
  BY <1>7, <1>8, <1>10 DEF FrameValues
<1>12. BlocksLeft(c, o, b)
  BY <1>2, <1>4 DEF BlocksLeft
<1>13. InBlock(c, o, b, M, T, is, E)
  BY <1>4, <1>7, <1>9, <1>11 DEF InBlock, b
<1>14. Sane(c, o, b, M, T, n, is, E)
  BY <1>2, <1>4, <1>12, <1>13 DEF Sane
<1>15. ASSUME StraightCode(c) PROVE Sound(c, v, np, o, b, n, is, E, B)
  <2>1. Sound(c, v, np, o, 0, n, is, E, B)
    BY <1>15 DEF LowerInv
  <2>2. Body(Given(E, b), is)
    BY <1>2, SeqEmpty DEF Body
  <2> QED BY <2>1, <2>2 DEF Sound, b
<1>16. LowerInv(c, v, np, o, b, M, T, n, is, E, B)
  BY <1>14, <1>15 DEF LowerInv
<1> QED BY <1>16 DEF b

\* Straight code gives every block that is next an entry.
LEMMA NextIsKnown ==
    ASSUME NEW c, NEW v, NEW np, NEW o, NEW L, NEW S, NEW n, NEW is, NEW E, NEW B,
           LowerInv(c, v, np, o, 0, L, S, n, is, E, B), StraightCode(c), o # <<>>
    PROVE  Head(o) \in DOMAIN E
<1>1. BlocksLeft(c, o, 0) /\ Covers(c, v, o, E, B)
  BY DEF LowerInv, Sane, Sound
<1>2. Head(o) = o[1] /\ 1 \in DOMAIN o /\ o[1] \in ToSet(o) /\ DOMAIN o = 1 .. Len(o) /\ Len(o) \in Nat
  BY <1>1, HeadOf, SeqIs DEF BlocksLeft
<1>3. o[1] # 1
  BY <1>1, <1>2 DEF BlocksLeft
<1>4. \A j \in DOMAIN o : ~(j < 1)
  BY <1>2
<1> QED BY <1>1, <1>2, <1>3, <1>4 DEF Covers

\* What straight code is lowered to is well-formed.
LEMMA LoweredWellFormed ==
    ASSUME NEW c, NEW v, NEW o, NEW L, NEW S, NEW n, NEW is, NEW E, NEW B,
           NEW P, IsSeq(P), \A k \in DOMAIN P : P[k].value = k,
           LowerInv(c, v, Len(P), o, 0, L, S, n, is, E, B), StraightCode(c), o = <<>>,
           NEW fn, fn.params = P, fn.blocks = B
    PROVE  WellFormed(fn)
<1> DEFINE np == Len(P)
           made == Made(E, B, Head(o), is)
<1>1. /\ Covers(c, v, o, E, B) /\ \A b \in DOMAIN B : Written(E, b, B[b])
      /\ Fresh(made, np + 1, n)
  BY DEF LowerInv, Sound
<1>2. np \in Nat /\ DOMAIN P = 1 .. np
  BY SeqIs
<1>3. DOMAIN B = v /\ DOMAIN E \subseteq v \ {1}
  BY <1>1, SeqEmpty DEF Covers
<1> HIDE DEF np
<1>4. Fresh(Declared(None, P), 1, np + 1)
  <2> DEFINE D == Declared(None, P)
  <2>1. ASSUME NEW d \in D
        PROVE  \E k \in 1 .. np : d = Definition(None, <<"param", k>>, P[k].value, P[k].type) /\ d.value = k
    <3>1. PICK k \in DOMAIN P : d = Definition(None, <<"param", k>>, P[k].value, P[k].type)
      BY DEF Declared
    <3>2. d.value = P[k].value
      BY <3>1 DEF Definition
    <3> QED BY <1>2, <3>1, <3>2
  <2> HIDE DEF D
  <2>2. \A d \in D : d.value \in 1 .. np
    BY <2>1
  <2>3. ASSUME NEW d1 \in D, NEW d2 \in D, d1.value = d2.value PROVE d1 = d2
    <3>1. PICK j \in 1 .. np : d1 = Definition(None, <<"param", j>>, P[j].value, P[j].type) /\ d1.value = j
      BY <2>1
    <3>2. PICK k \in 1 .. np : d2 = Definition(None, <<"param", k>>, P[k].value, P[k].type) /\ d2.value = k
      BY <2>1
    <3>3. j = k
      BY <2>3, <3>1, <3>2
    <3> QED BY <3>1, <3>2, <3>3
  <2>4. np + 1 \in Nat /\ 1 <= np + 1 /\ (np + 1) - 1 = np
    BY <1>2
  <2>5. Fresh(D, 1, np + 1)
    <3> DEFINE m == np + 1
    <3>1. m \in Nat /\ 1 <= m /\ m - 1 = np
      BY <2>4
    <3> HIDE DEF m
    <3>2. Fresh(D, 1, m)
      BY <2>2, <2>3, <3>1 DEF Fresh
    <3> QED BY <3>2 DEF m
  <2> QED BY <2>5 DEF D
<1>5. Fresh(Declared(None, P) \cup made, 1, n)
  <2> HIDE DEF made
  <2> QED BY <1>1, <1>4, FreshJoin
<1>6. \A b \in DOMAIN B : Declared(b, B[b].params) \subseteq made
  <2> SUFFICES ASSUME NEW b \in DOMAIN B, NEW d \in Declared(b, B[b].params) PROVE d \in made
    OBVIOUS
  <2>1. (b # 1 => b \in DOMAIN E) /\ B[b].params = IF b = 1 THEN <<>> ELSE E[b].params
    BY <1>1 DEF Written
  <2>2. CASE b = 1
    <3>1. Declared(b, <<>>) = {}
      BY SeqEmpty DEF Declared
    <3> QED BY <2>1, <2>2, <3>1
  <2>3. CASE b # 1
    <3>1. d \in DeclaredIn(E)
      BY <2>1, <2>3 DEF DeclaredIn
    <3> QED BY <3>1 DEF Made
  <2> QED BY <2>2, <2>3
<1>7. \A b \in DOMAIN B : Produced(b, B[b].instrs) \subseteq made
  BY DEF Made, ProducedIn
<1>8. SingleAssignment(fn)
  <2> HIDE DEF made
  <2>1. Definitions(fn) \subseteq Declared(None, P) \cup made
    <3> SUFFICES ASSUME NEW b \in DOMAIN B, NEW d \in Declared(b, B[b].params) \cup Produced(b, B[b].instrs)
                 PROVE  d \in made
      BY DEF Definitions
    <3> QED BY <1>6, <1>7
  <2> QED BY <1>5, <2>1 DEF SingleAssignment, Fresh
<1>9. ASSUME NEW b \in DOMAIN B
      PROVE  /\ B[b].instrs # <<>> /\ Terminated(B[b])
             /\ \A k \in DOMAIN B[b].instrs :
                  /\ UsesInScope(fn, B[b], k)
                  /\ \A e \in ToSet(B[b].instrs[k].edges) : EdgeFits(fn, e)
  <2> DEFINE block == B[b]
             u == block.instrs
             K == Given(E, b)
  <2>1. Written(E, b, block)
    BY <1>1
  <2>2. /\ block.params = IF b = 1 THEN <<>> ELSE E[b].params
        /\ Whole(E, K, u)
    BY <2>1 DEF Written
  <2>3. K \subseteq {p.value : p \in ToSet(block.params)}
    BY <2>2 DEF Given
  <2> HIDE DEF K, block
  <2>4. u # <<>> /\ Terminated(block)
    BY <2>2 DEF Whole, Terminated
  <2>5. ASSUME NEW k \in DOMAIN u PROVE UsesInScope(fn, block, k)
    <3>1. K \cup Before(u, k) \subseteq InScope(fn, block, k)
      <4>1. Before(u, k) \subseteq InScope(fn, block, k)
        BY DEF Before, InScope
      <4>2. {p.value : p \in ToSet(block.params)} \subseteq InScope(fn, block, k)
        BY DEF InScope
      <4> QED BY <2>3, <4>1, <4>2
    <3>2. ToSet(u[k].uses) \subseteq InScope(fn, block, k)
      BY <2>2, <3>1 DEF Whole
    <3>3. \A e \in ToSet(u[k].edges) : ToSet(e.args) \subseteq InScope(fn, block, k)
      BY <2>2, <3>1 DEF Whole
    <3> QED BY <3>2, <3>3 DEF UsesInScope
  <2>6. ASSUME NEW k \in DOMAIN u, NEW e \in ToSet(u[k].edges) PROVE EdgeFits(fn, e)
    <3>1. e.block \in DOMAIN E /\ Len(e.args) = Len(E[e.block].params)
      BY <2>2 DEF Whole
    <3>2. e.block \in DOMAIN B /\ e.block # 1
      BY <1>3, <3>1
    <3>3. B[e.block].params = E[e.block].params
      BY <1>1, <3>2 DEF Written
    <3> QED BY <3>1, <3>2, <3>3 DEF EdgeFits
  <2> QED BY <2>4, <2>5, <2>6 DEF block
<1> QED BY <1>8, <1>9 DEF WellFormed

\* The entry's block starts with the method's parameters.
LEMMA SeedMakes ==
    ASSUME NEW c, Planned(c), NEW v, NEW o, Ordered(c, v, o),
           NEW P, IsSeq(P), \A k \in DOMAIN P : P[k].value = k,
           NEW L, L = [s \in 0 .. Len(P) - 1 |-> P[s + 1]],
           NEW is, DOMAIN is = DOMAIN P, is = [k \in DOMAIN P |-> is[k]],
           \A k \in DOMAIN is : /\ is[k].op = "param" /\ is[k].def = k
                                /\ is[k].uses = <<>> /\ is[k].edges = <<>>,
           NEW E, DOMAIN E = {}, NEW B, DOMAIN B = {}
    PROVE  LowerInv(c, v, Len(P), o, 1, L, <<>>, Len(P) + 1, is, E, B)
<1> DEFINE np == Len(P)
<1>1. np \in Nat /\ DOMAIN P = 1 .. np
  BY SeqIs
<1>2. /\ IsSeq(o) /\ ToSet(o) = v /\ v \subseteq Leaders(c)
      /\ o # <<>> /\ o[1] = 1
      /\ \A i, j \in DOMAIN o : o[i] = o[j] => i = j
      /\ \A b \in v : ToSet(Successors(c, b)) \subseteq v
      /\ \A i \in DOMAIN o :
           o[i] = 1 \/ \E j \in DOMAIN o : j < i /\ o[i] \in ToSet(Successors(c, o[j]))
  BY DEF Ordered
<1>3. Head(o) = 1
  BY <1>2, HeadOf
<1>4. 1 \in 1 .. End(c, 1)
  BY DEF Planned, EndsAt
<1> HIDE DEF np
<1>5. IsSeq(is) /\ DOMAIN is = 1 .. np
  BY <1>1, SeqMade
<1>6. DOMAIN L = 0 .. np - 1 /\ \A s \in 0 .. np - 1 : s + 1 \in 1 .. np /\ L[s] = P[s + 1]
  BY <1>1 DEF np
<1>7. IsFiniteSet(DOMAIN L)
  <2>1. 0 \in Int /\ np - 1 \in Int
    BY <1>1
  <2> QED BY <1>6, <2>1, FS_Interval
<1>8. FrameValues(L, <<>>) \subseteq Defined(is)
  <2> SUFFICES ASSUME NEW s \in DOMAIN L PROVE L[s].value \in Defined(is)
    BY SeqEmpty DEF FrameValues
  <2>1. s + 1 \in DOMAIN is /\ L[s].value = is[s + 1].def /\ is[s + 1].def = s + 1
    BY <1>1, <1>5, <1>6
  <2>2. is[s + 1].def # None
    BY <1>1, <1>6, <2>1 DEF None
  <2> QED BY <2>1, <2>2 DEF Defined
<1>9. Sane(c, o, 1, L, <<>>, np + 1, is, E)
  <2>1. BlocksLeft(c, o, 1)
    BY <1>2 DEF BlocksLeft
  <2>2. InBlock(c, o, 1, L, <<>>, is, E)
    BY <1>2, <1>3, <1>4, <1>7, <1>8, SeqEmpty DEF InBlock
  <2>3. np + 1 \in Nat \ {0}
    BY <1>1
  <2> QED BY <1>5, <2>1, <2>2, <2>3 DEF Sane
<1>10. Sound(c, v, np, o, 1, np + 1, is, E, B)
  <2>1. Covers(c, v, o, E, B)
    BY <1>2 DEF Covers
  <2>2. Body(Given(E, Head(o)), is)
    BY <1>5, SeqEmpty DEF Body, Terminators
  <2>3. Made(E, B, Head(o), is) = {}
    <3>1. Produced(Head(o), is) = {}
      BY DEF Produced, Defines
    <3>2. DeclaredIn(E) = {} /\ ProducedIn(B) = {}
      BY DEF DeclaredIn, ProducedIn
    <3> QED BY <3>1, <3>2 DEF Made
  <2>4. Fresh({}, np + 1, np + 1)
    BY <1>1, FreshNone
  <2> QED BY <2>1, <2>2, <2>3, <2>4 DEF Sound
<1>11. LowerInv(c, v, np, o, 1, L, <<>>, np + 1, is, E, B)
  BY <1>9, <1>10 DEF LowerInv
<1> QED BY <1>11 DEF np

-----------------------------------------------------------------------------
(* The instructions that end no block. *)

LowerNow ==
    LowerInv(code, visited, Len(Parameters), order, pc, locals, stack, next, instrs, entries, blocks)

Held == FrameValues(locals, stack)

\* Values to push, all of them known.
Pushes(K, pushed) == IsSeq(pushed) /\ \A x \in ToSet(pushed) : x.value \in K

\* Sequences of up to three.
LEMMA TupleSets ==
    \A x, y, z :
      /\ IsSeq(<<x>>) /\ ToSet(<<x>>) = {x} /\ Len(<<x>>) = 1
      /\ ToSet(<<x, y>>) = {x, y} /\ ToSet(<<x, y, z>>) = {x, y, z}
      /\ <<x>> = Append(<<>>, x) /\ <<x, y>> = Append(<<x>>, y) /\ <<x, y, z>> = Append(<<x, y>>, z)
<1> SUFFICES ASSUME NEW x, NEW y, NEW z
             PROVE  /\ IsSeq(<<x>>) /\ ToSet(<<x>>) = {x} /\ Len(<<x>>) = 1
                    /\ ToSet(<<x, y>>) = {x, y} /\ ToSet(<<x, y, z>>) = {x, y, z}
                    /\ <<x>> = Append(<<>>, x) /\ <<x, y>> = Append(<<x>>, y)
                    /\ <<x, y, z>> = Append(<<x, y>>, z)
  OBVIOUS
<1>1. <<x>> = Append(<<>>, x) /\ <<x, y>> = Append(<<x>>, y) /\ <<x, y, z>> = Append(<<x, y>>, z)
  OBVIOUS
<1>2. IsSeq(<<x>>) /\ ToSet(<<x>>) = {x} /\ Len(<<x>>) = 0 + 1
  <2> DEFINE s == <<>>
             u == <<x>>
  <2>1. IsSeq(s) /\ Len(s) = 0 /\ ToSet(s) = {}
    BY SeqEmpty
  <2>2. u = Append(s, x)
    OBVIOUS
  <2> HIDE DEF s, u
  <2>3. IsLonger(s, x, u)
    BY <2>1, <2>2, Longer
  <2> QED BY <2>1, <2>3 DEF IsLonger, u
<1>3. IsSeq(<<x, y>>) /\ ToSet(<<x, y>>) = {x, y}
  <2> DEFINE s == <<x>>
             u == <<x, y>>
  <2>1. IsSeq(s) /\ ToSet(s) = {x}
    BY <1>2
  <2>2. u = Append(s, y)
    OBVIOUS
  <2> HIDE DEF s, u
  <2>3. IsLonger(s, y, u)
    BY <2>1, <2>2, Longer
  <2> QED BY <2>1, <2>3 DEF IsLonger, u
<1>4. ToSet(<<x, y, z>>) = {x, y, z}
  <2> DEFINE s == <<x, y>>
             u == <<x, y, z>>
  <2>1. IsSeq(s) /\ ToSet(s) = {x, y}
    BY <1>3
  <2>2. u = Append(s, z)
    OBVIOUS
  <2> HIDE DEF s, u
  <2>3. IsLonger(s, z, u)
    BY <2>1, <2>2, Longer
  <2> QED BY <2>1, <2>3 DEF IsLonger, u
<1> QED BY <1>1, <1>2, <1>3, <1>4

\* Nothing is pushed, or one value.
LEMMA PushesOne ==
    ASSUME NEW K, NEW value, NEW type
    PROVE  /\ Pushes(K, <<>>)
           /\ value \in K => Pushes(K, <<Typed(value, type)>>)
<1>1. Typed(value, type).value = value
  BY DEF Typed
<1> DEFINE x == Typed(value, type)
<1> HIDE DEF x
<1>2. IsSeq(<<x>>) /\ ToSet(<<x>>) = {x} /\ x.value = value
  BY <1>1, TupleSets DEF x
<1>3. Pushes(K, <<>>) /\ (value \in K => Pushes(K, <<x>>))
  BY <1>2, SeqEmpty DEF Pushes
<1> QED BY <1>3 DEF x

\* What an instruction finds, when it is not refused.
LEMMA Finds ==
    ASSUME Planned(code), LowerNow, NEW ops, At(ops)
    PROVE  /\ pc # 0 /\ pc < End(code, Head(order)) /\ phase = "lower"
           /\ IsInstruction(I) /\ I.op \in ops
           /\ pc \in Head(order) .. End(code, Head(order)) /\ Head(order) \in Leaders(code)
           /\ pc \in DOMAIN code
           /\ next \in Nat \ {0} /\ IsSeq(stack) /\ Len(stack) \in Nat
           /\ IsFiniteSet(DOMAIN locals)
           /\ ~(Len(stack) < Pops(I)) /\ ~Refused(I)
           /\ \A k \in 1 .. Len(stack) : Top(k) \in ToSet(stack) /\ Top(k).value \in Held
           /\ \A s \in DOMAIN locals : locals[s].value \in Held
<1> DEFINE b == Head(order)
<1>1. pc # 0 /\ pc < End(code, b) /\ I.op \in ops /\ ~Refused(I) /\ phase = "lower"
  BY DEF At
<1>2. Sane(code, order, pc, locals, stack, next, instrs, entries)
  BY DEF LowerNow, LowerInv
<1>3. /\ order # <<>> /\ pc \in b .. End(code, b) /\ IsSeq(stack) /\ IsFiniteSet(DOMAIN locals)
      /\ next \in Nat \ {0} /\ b \in ToSet(order) /\ ToSet(order) \subseteq Leaders(code)
  BY <1>1, <1>2, HeadOf DEF Sane, InBlock, BlocksLeft
<1>4. Len(stack) \in Nat /\ DOMAIN stack = 1 .. Len(stack)
  BY <1>3, SeqIs
<1> HIDE DEF b
<1>5. pc \in DOMAIN code
  <2>1. IsSeq(code) /\ Leaders(code) \subseteq DOMAIN code /\ EndsAt(code, b)
    BY <1>3 DEF Planned
  <2>2. DOMAIN code = 1 .. Len(code) /\ Len(code) \in Nat /\ b \in DOMAIN code
    BY <1>3, <2>1, SeqIs
  <2> QED BY <1>1, <1>3, <2>1, <2>2 DEF EndsAt
<1>6. IsInstruction(I)
  BY <1>5 DEF Planned, I
<1>7. \A k \in 1 .. Len(stack) : Len(stack) + 1 - k \in DOMAIN stack
  BY <1>4
<1>8. \A k \in 1 .. Len(stack) : Top(k) \in ToSet(stack)
  BY <1>7 DEF Top, ToSet
<1>9. /\ \A x \in ToSet(stack) : x.value \in Held
      /\ \A s \in DOMAIN locals : locals[s].value \in Held
  BY DEF Held, FrameValues
<1>10. ~(Len(stack) < Pops(I))
  BY <1>1 DEF Refused
<1> QED BY <1>1, <1>3, <1>4, <1>5, <1>6, <1>8, <1>9, <1>10 DEF b

\* An instruction is lowered: it emits code that uses known values, and leaves a frame of known
\* values.
LEMMA EmitStep ==
    ASSUME Planned(code), LowerNow, NEW ops, At(ops), ops \subseteq Normal,
           NEW t, NEW k \in Nat, k <= Len(stack), NEW pushed, NEW used, Emit(t, k, pushed, used),
           Emits(Held, t, next, next + used), Pushes(Held \cup Defined(t), pushed),
           IsFiniteSet(DOMAIN locals'), \A s \in DOMAIN locals' : locals'[s].value \in Held \cup Defined(t)
    PROVE  LowerNow'
<1>1. /\ pc # 0 /\ pc < End(code, Head(order)) /\ IsSeq(stack) /\ Len(stack) \in Nat
      /\ code[pc].op \in Normal
  BY Finds DEF I
<1>2. /\ instrs' = instrs \o t /\ stack' = Under(k) \o pushed /\ next' = next + used /\ pc' = pc + 1
      /\ method' = method /\ visited' = visited /\ order' = order /\ entries' = entries /\ blocks' = blocks
  BY DEF Emit, walk
<1>3. code' = code /\ Parameters' = Parameters
  BY <1>2 DEF code, Parameters
<1>4. IsSeq(Under(k)) /\ ToSet(Under(k)) \subseteq ToSet(stack)
  <2>1. Len(stack) - k \in Int /\ Len(stack) - k <= Len(stack)
    BY <1>1
  <2>2. /\ IsSeq(SubSeq(stack, 1, Len(stack) - k))
        /\ ToSet(SubSeq(stack, 1, Len(stack) - k)) \subseteq ToSet(stack)
    BY <1>1, <2>1, Part
  <2> QED BY <2>2 DEF Under
<1>5. IsSeq(stack') /\ ToSet(stack') = ToSet(Under(k)) \cup ToSet(pushed)
  BY <1>2, <1>4, Joined DEF Pushes
<1>6. FrameValues(locals', stack') \subseteq Held \cup Defined(t)
  BY <1>4, <1>5 DEF FrameValues, Held, Pushes
<1>7. LowerInv(code, visited, Len(Parameters), order, pc + 1, locals', stack', next + used,
               instrs \o t, entries, blocks)
  BY <1>1, <1>5, <1>6, EmitKeeps DEF LowerNow, Held
<1> QED BY <1>2, <1>3, <1>7 DEF LowerNow

\* One instruction emitted, and two.
LEMMA EmitsOne ==
    ASSUME NEW K, NEW n \in Nat \ {0}, NEW i,
           i.op \notin Terminators, i.edges = <<>>, ToSet(i.uses) \subseteq K
    PROVE  /\ i.def = None => Emits(K, <<i>>, n, n) /\ Defined(<<i>>) = {}
           /\ i.def = n => Emits(K, <<i>>, n, n + 1) /\ Defined(<<i>>) = {n}
<1> DEFINE s == <<>>
<1>1. Emits(K, s, n, n) /\ Defined(s) = {} /\ <<i>> = Append(s, i)
  BY EmitsNothing, TupleSets
<1> HIDE DEF s
<1>2. ToSet(i.uses) \subseteq K \cup Defined(s)
  BY <1>1
<1>3. /\ i.def = None => Emits(K, Append(s, i), n, n) /\ Defined(Append(s, i)) = Defined(s)
      /\ i.def = n => Emits(K, Append(s, i), n, n + 1) /\ Defined(Append(s, i)) = Defined(s) \cup {n}
  BY <1>1, <1>2, EmitsOneMore
<1> QED BY <1>1, <1>3

\* What an instruction is made of, whatever its constant, its member, its keys or its type.
LEMMA IrMakes ==
    ASSUME NEW op, NEW def, NEW type, NEW uses, NEW x
    PROVE  LET i == Ir(op, def, type, uses) IN
           /\ \A j \in {i, [i EXCEPT !.n = x], [i EXCEPT !.ref = x], [i EXCEPT !.type = x],
                        [i EXCEPT !.keys = x]} :
                j.op = op /\ j.def = def /\ j.uses = uses /\ j.edges = <<>>
           /\ \A j \in {[i EXCEPT !.def = x], [[i EXCEPT !.ref = x] EXCEPT !.def = None]} :
                j.op = op /\ j.uses = uses /\ j.edges = <<>>
           /\ [[i EXCEPT !.ref = x] EXCEPT !.def = None].def = None
BY DEF Ir

\* No operation of the tables ends a block.
LEMMA OpsOf ==
    /\ \A o \in DOMAIN Binary : Binary[o] \notin Terminators
    /\ \A o \in DOMAIN Unary : Unary[o] \notin Terminators
    /\ \A o \in Conditional : BranchOperands[o][2] \notin Terminators
    /\ \A o \in Conditional : BranchOperands[o][1] \in {"zero", "pair", "null"}
BY DEF Binary, Unary, Conditional, BranchOperands, Terminators

\* How many values each kind of instruction pops.
LEMMA PopsOf ==
    ASSUME NEW i
    PROVE  /\ i.op \in DOMAIN Rearrange => Pops(i) = Rearrange[i.op][1]
           /\ i.op \in DOMAIN Binary => Pops(i) = 2
           /\ i.op \in DOMAIN Unary => Pops(i) = 1
           /\ i.op \in {"iaload", "aaload", "saload", "putfield"} => Pops(i) = 2
           /\ i.op \in {"iastore", "aastore", "sastore"} => Pops(i) = 3
           /\ i.op \in {"invokestatic", "concat"} => Pops(i) = Len(i.sig.params)
           /\ i.op = "invokespecial" => Pops(i) = IF i.ref = ObjectInit THEN 1 ELSE Len(i.sig.params) + 1
           /\ i.op = "print" => Pops(i) = Len(i.sig.params) + 1
           /\ i.op \in {"const", "load", "iinc", "getstatic", "new", "goto", "return"} => Pops(i) = 0
           /\ i.op \in {"store", "newarray", "arraylength", "putstatic", "getfield", "checkcast",
                        "instanceof", "switch", "xreturn"} => Pops(i) = 1
<1>1. DOMAIN Rearrange = {"pop", "pop2", "dup", "dup_x1", "dup_x2", "dup2", "dup2_x1", "dup2_x2", "swap"}
  BY DEF Rearrange
<1>2. DOMAIN Binary = {"iadd", "isub", "imul", "idiv", "irem", "ishl", "ishr", "iushr", "iand", "ior", "ixor"}
  BY DEF Binary
<1>3. DOMAIN Unary = {"ineg", "i2b", "i2s", "i2c"}
  BY DEF Unary
<1>4. Conditional = {"ifeq", "ifne", "iflt", "ifge", "ifgt", "ifle", "if_icmpeq", "if_icmpne", "if_icmplt",
                     "if_icmpge", "if_icmpgt", "if_icmple", "if_acmpeq", "if_acmpne", "ifnull", "ifnonnull"}
  BY DEF Conditional, BranchOperands
<1>5. /\ i.op \in DOMAIN Rearrange => Pops(i) = Rearrange[i.op][1]
      /\ i.op \in DOMAIN Binary => Pops(i) = 2
      /\ i.op \in DOMAIN Unary => Pops(i) = 1
  BY <1>1, <1>2, <1>3, <1>4 DEF Pops
<1>6. /\ i.op \in {"iaload", "aaload", "saload", "putfield"} => Pops(i) = 2
      /\ i.op \in {"iastore", "aastore", "sastore"} => Pops(i) = 3
  BY <1>1, <1>2, <1>3, <1>4 DEF Pops
<1>7. /\ i.op \in {"invokestatic", "concat"} => Pops(i) = Len(i.sig.params)
      /\ i.op = "invokespecial" => Pops(i) = IF i.ref = ObjectInit THEN 1 ELSE Len(i.sig.params) + 1
      /\ i.op = "print" => Pops(i) = Len(i.sig.params) + 1
  BY <1>1, <1>2, <1>3, <1>4 DEF Pops
<1>8. i.op \in {"const", "load", "iinc", "getstatic", "new", "goto", "return"} => Pops(i) = 0
  BY <1>1, <1>2, <1>3, <1>4 DEF Pops
<1>9. i.op \in {"store", "newarray", "arraylength", "putstatic", "getfield", "checkcast", "instanceof",
                "switch", "xreturn"} => Pops(i) = 1
  BY <1>1, <1>2, <1>3, <1>4 DEF Pops
<1> QED BY <1>5, <1>6, <1>7, <1>8, <1>9

\* Nothing is emitted, or one instruction, and the locals stay.
LEMMA NoStep ==
    ASSUME Planned(code), LowerNow, NEW ops, At(ops), ops \subseteq Normal,
           NEW k \in Nat, k <= Len(stack), NEW pushed,
           Emit(<<>>, k, pushed, 0), Pushes(Held, pushed),
           IsFiniteSet(DOMAIN locals'), \A s \in DOMAIN locals' : locals'[s].value \in Held
    PROVE  LowerNow'
<1> DEFINE t == <<>>
<1>1. next \in Nat \ {0} /\ next + 0 = next
  BY Finds
<1>2. Emits(Held, t, next, next + 0) /\ Held \cup Defined(t) = Held /\ Emit(t, k, pushed, 0)
  BY <1>1, EmitsNothing
<1> HIDE DEF t
<1> QED BY <1>2, EmitStep

\* One instruction is emitted, and the locals stay.
LEMMA OneStep ==
    ASSUME Planned(code), LowerNow, NEW ops, At(ops), ops \subseteq Normal, NEW i,
           NEW k \in Nat, k <= Len(stack), NEW pushed,
           NEW used, Emit(<<i>>, k, pushed, used),
           i.op \notin Terminators, i.edges = <<>>, ToSet(i.uses) \subseteq Held,
           \/ i.def = None /\ used = 0 /\ Pushes(Held, pushed)
           \/ i.def = next /\ used = 1 /\ Pushes(Held \cup {next}, pushed),
           locals' = locals
    PROVE  LowerNow'
<1> DEFINE t == <<i>>
<1>1. /\ next \in Nat \ {0} /\ IsFiniteSet(DOMAIN locals)
      /\ \A s \in DOMAIN locals : locals[s].value \in Held
  BY Finds
<1>2. /\ i.def = None => Emits(Held, t, next, next) /\ Defined(t) = {}
      /\ i.def = next => Emits(Held, t, next, next + 1) /\ Defined(t) = {next}
  BY <1>1, EmitsOne
<1>3. Emit(t, k, pushed, used)
  OBVIOUS
<1> HIDE DEF t
<1>4. Emits(Held, t, next, next + used) /\ Pushes(Held \cup Defined(t), pushed)
  <2>1. CASE i.def = None /\ used = 0 /\ Pushes(Held, pushed)
    <3>1. next + used = next /\ Held \cup Defined(t) = Held
      BY <1>1, <1>2, <2>1
    <3> QED BY <1>2, <2>1, <3>1
  <2>2. CASE i.def = next /\ used = 1 /\ Pushes(Held \cup {next}, pushed)
    BY <1>2, <2>2
  <2> QED BY <2>1, <2>2
<1> QED BY <1>1, <1>3, <1>4, EmitStep

\* push_constant.
LEMMA ConstantKeeps == ASSUME Planned(code), LowerNow, Constant PROVE LowerNow'
<1> DEFINE i == [Ir("constant", next, I.type, <<>>) EXCEPT !.n = I.n]
           pushed == <<Typed(next, I.type)>>
<1>1. At({"const"}) /\ Emit(<<i>>, 0, pushed, 1) /\ locals' = locals
  BY DEF Constant
<1>2. i.op = "constant" /\ i.def = next /\ i.uses = <<>> /\ i.edges = <<>>
  BY IrMakes
<1>3. Pushes(Held \cup {next}, pushed)
  BY PushesOne
<1>4. i.op \notin Terminators /\ ToSet(i.uses) \subseteq Held
  BY <1>2, SeqEmpty DEF Terminators
<1>5. 0 <= Len(stack)
  BY <1>1, Finds
<1> HIDE DEF i, pushed
<1>6. {"const"} \subseteq Normal
  BY DEF Normal
<1> QED BY <1>1, <1>2, <1>3, <1>4, <1>5, <1>6, OneStep

\* A copy of the local's value.
LEMMA LoadKeeps == ASSUME Planned(code), LowerNow, Load PROVE LowerNow'
<1> DEFINE x == locals[I.n]
<1>1. At({"load"}) /\ Emit(<<>>, 0, <<x>>, 0) /\ locals' = locals
  BY DEF Load
<1>2. /\ I.op = "load" /\ ~Refused(I) /\ 0 <= Len(stack) /\ IsFiniteSet(DOMAIN locals)
      /\ \A s \in DOMAIN locals : locals[s].value \in Held
  BY <1>1, Finds
<1>3. I.n \in DOMAIN locals
  BY <1>2 DEF Refused
<1>4. x.value \in Held
  BY <1>2, <1>3
<1> HIDE DEF x
<1>5. Pushes(Held, <<x>>)
  BY <1>4, TupleSets DEF Pushes
<1> DEFINE pushed == <<x>>
<1>6. Pushes(Held, pushed) /\ Emit(<<>>, 0, pushed, 0)
  BY <1>1, <1>5
<1> HIDE DEF pushed
<1>7. {"load"} \subseteq Normal
  BY DEF Normal
<1> QED BY <1>1, <1>2, <1>6, <1>7, NoStep

\* The value moves to the local.
LEMMA StoreKeeps == ASSUME Planned(code), LowerNow, Store PROVE LowerNow'
<1> DEFINE pushed == <<>>
           x == Top(1)
<1>1. At({"store"}) /\ Emit(<<>>, 1, pushed, 0) /\ locals' = Put(locals, I.n, x)
  BY DEF Store
<1>2. /\ I.op = "store" /\ ~(Len(stack) < Pops(I)) /\ Len(stack) \in Nat /\ IsFiniteSet(DOMAIN locals)
      /\ \A s \in DOMAIN locals : locals[s].value \in Held
      /\ \A k \in 1 .. Len(stack) : Top(k).value \in Held
  BY <1>1, Finds
<1>3. 1 <= Len(stack)
  BY <1>2, PopsOf
<1>4. x.value \in Held
  BY <1>2, <1>3
<1>5. Pushes(Held, pushed)
  BY PushesOne
<1> HIDE DEF pushed, x
<1>6. /\ DOMAIN locals' = DOMAIN locals \cup {I.n}
      /\ \A s \in DOMAIN locals' : locals'[s] = x \/ (s \in DOMAIN locals /\ locals'[s] = locals[s])
  BY <1>1 DEF Put
<1>7. IsFiniteSet(DOMAIN locals')
  BY <1>2, <1>6, FS_AddElement
<1>8. \A s \in DOMAIN locals' : locals'[s].value \in Held
  BY <1>2, <1>4, <1>6
<1>9. {"store"} \subseteq Normal
  BY DEF Normal
<1> QED BY <1>1, <1>3, <1>5, <1>7, <1>8, <1>9, NoStep

\* The constant, and its sum with the local.
LEMMA IncrementKeeps == ASSUME Planned(code), LowerNow, Increment PROVE LowerNow'
<1> DEFINE i == [Ir("constant", next, IntType, <<>>) EXCEPT !.n = I.by]
           j == Ir("add", next + 1, IntType, <<locals[I.n].value, next>>)
           s == <<i>>
           t == <<i, j>>
           pushed == <<>>
           x == Typed(next + 1, IntType)
<1>1. At({"iinc"}) /\ Emit(t, 0, pushed, 2) /\ locals' = Put(locals, I.n, x)
  BY DEF Increment, IncrementLocal
<1>2. /\ I.op = "iinc" /\ ~Refused(I) /\ Len(stack) \in Nat /\ IsFiniteSet(DOMAIN locals)
      /\ \A l \in DOMAIN locals : locals[l].value \in Held
      /\ next \in Nat \ {0}
  BY <1>1, Finds
<1>3. I.n \in DOMAIN locals /\ locals[I.n].value \in Held
  BY <1>2 DEF Refused
<1>4. i.op = "constant" /\ i.def = next /\ i.uses = <<>> /\ i.edges = <<>>
  BY IrMakes
<1>5. j.op = "add" /\ j.def = next + 1 /\ j.uses = <<locals[I.n].value, next>> /\ j.edges = <<>>
  BY DEF Ir
<1>6. ToSet(j.uses) \subseteq Held \cup {next}
  BY <1>3, <1>5, TupleSets
<1>7. t = Append(s, j) /\ x.value = next + 1
  BY TupleSets DEF Typed
<1>8. i.op \notin Terminators /\ j.op \notin Terminators /\ ToSet(i.uses) \subseteq Held
  BY <1>4, <1>5, SeqEmpty DEF Terminators
<1> HIDE DEF i, j, t, x
<1>9. Emits(Held, s, next, next + 1) /\ Defined(s) = {next}
  BY <1>2, <1>4, <1>8, EmitsOne
<1> HIDE DEF s
<1>10. Emits(Held, t, next, (next + 1) + 1) /\ Defined(t) = {next} \cup {next + 1}
  BY <1>5, <1>6, <1>7, <1>8, <1>9, EmitsOneMore
<1>11. (next + 1) + 1 = next + 2 /\ 0 <= Len(stack)
  BY <1>2
<1>12. Pushes(Held \cup Defined(t), pushed)
  BY PushesOne
<1> HIDE DEF pushed
<1>13. /\ DOMAIN locals' = DOMAIN locals \cup {I.n}
       /\ \A l \in DOMAIN locals' : locals'[l] = x \/ (l \in DOMAIN locals /\ locals'[l] = locals[l])
  BY <1>1 DEF Put
<1>14. IsFiniteSet(DOMAIN locals')
  BY <1>2, <1>13, FS_AddElement
<1>15. \A l \in DOMAIN locals' : locals'[l].value \in Held \cup Defined(t)
  BY <1>2, <1>7, <1>10, <1>13
<1>16. Emits(Held, t, next, next + 2)
  BY <1>10, <1>11
<1>17. {"iinc"} \subseteq Normal
  BY DEF Normal
<1> QED BY <1>1, <1>11, <1>12, <1>14, <1>15, <1>16, <1>17, EmitStep

\* The table of rearrangements only pushes back what it pops.
LEMMA Depths ==
    /\ \A o \in DOMAIN Rearrange : Rearrange[o][1] \in Nat
    /\ \A o \in DOMAIN Rearrange : Rearrange[o][2] \in Seq(1 .. Rearrange[o][1])
<1> DEFINE R == Rearrange
<1>1. DOMAIN R = {"pop", "pop2", "dup", "dup_x1", "dup_x2", "dup2", "dup2_x1", "dup2_x2", "swap"}
  BY DEF Rearrange
<1>2. /\ R["pop"][1] = 1 /\ R["pop"][2] = <<>>
      /\ R["pop2"][1] = 2 /\ R["pop2"][2] = <<>>
      /\ R["dup"][1] = 1 /\ R["dup"][2] = <<1, 1>>
      /\ R["dup_x1"][1] = 2 /\ R["dup_x1"][2] = <<1, 2, 1>>
      /\ R["dup_x2"][1] = 3 /\ R["dup_x2"][2] = <<1, 3, 2, 1>>
      /\ R["dup2"][1] = 2 /\ R["dup2"][2] = <<2, 1, 2, 1>>
      /\ R["dup2_x1"][1] = 3 /\ R["dup2_x1"][2] = <<2, 1, 3, 2, 1>>
      /\ R["dup2_x2"][1] = 4 /\ R["dup2_x2"][2] = <<2, 1, 4, 3, 2, 1>>
      /\ R["swap"][1] = 2 /\ R["swap"][2] = <<1, 2>>
  BY DEF Rearrange
<1> HIDE DEF R
<1> DEFINE Depth(n, s) == n \in Nat /\ s \in Seq(1 .. n)
<1>3. /\ Depth(1, <<>>) /\ Depth(2, <<>>) /\ Depth(1, <<1, 1>>) /\ Depth(2, <<1, 2, 1>>)
      /\ Depth(3, <<1, 3, 2, 1>>) /\ Depth(2, <<2, 1, 2, 1>>) /\ Depth(3, <<2, 1, 3, 2, 1>>)
      /\ Depth(4, <<2, 1, 4, 3, 2, 1>>) /\ Depth(2, <<1, 2>>)
  OBVIOUS
<1>4. \A o \in DOMAIN R : Depth(R[o][1], R[o][2])
  <2> HIDE DEF Depth
  <2> QED BY <1>1, <1>2, <1>3, Zenon
<1> QED BY <1>4 DEF R

\* Values from the stack go back in another order.
LEMMA RearrangedKeeps == ASSUME Planned(code), LowerNow, Rearranged PROVE LowerNow'
<1> DEFINE back == Rearrange[I.op][2]
           pushed == [k \in DOMAIN back |-> Top(back[k])]
<1>1. At(DOMAIN Rearrange) /\ Emit(<<>>, Pops(I), pushed, 0) /\ locals' = locals
  BY DEF Rearranged
<1>2. /\ I.op \in DOMAIN Rearrange /\ ~(Len(stack) < Pops(I)) /\ Len(stack) \in Nat
      /\ IsFiniteSet(DOMAIN locals) /\ \A s \in DOMAIN locals : locals[s].value \in Held
      /\ \A k \in 1 .. Len(stack) : Top(k).value \in Held
  BY <1>1, Finds
<1>3. Pops(I) \in Nat /\ back \in Seq(1 .. Pops(I))
  BY <1>2, PopsOf, Depths
<1>4. Pops(I) <= Len(stack)
  BY <1>2, <1>3
<1> HIDE DEF back
<1>5. IsSeq(back) /\ Len(back) \in Nat /\ DOMAIN back = 1 .. Len(back)
      /\ \A k \in 1 .. Len(back) : back[k] \in 1 .. Pops(I)
  BY <1>3, SeqOver
<1>6. IsSeq(pushed) /\ Len(pushed) = Len(back)
  <2>1. DOMAIN pushed = 1 .. Len(back) /\ pushed = [k \in 1 .. Len(back) |-> pushed[k]]
    BY <1>5
  <2> HIDE DEF pushed
  <2> QED BY <1>5, <2>1, SeqMade
<1>7. \A k \in DOMAIN pushed : pushed[k].value \in Held
  <2>1. \A k \in DOMAIN back : back[k] \in 1 .. Len(stack)
    BY <1>2, <1>3, <1>4, <1>5
  <2> QED BY <1>2, <2>1
<1> HIDE DEF pushed
<1>8. Pushes(Held, pushed)
  BY <1>6, <1>7 DEF Pushes, ToSet
<1>9. DOMAIN Rearrange \subseteq Normal
  BY DEF Rearrange, Normal
<1> QED BY <1>1, <1>2, <1>3, <1>4, <1>8, <1>9, NoStep

\* An instruction after a check.
LEMMA TwoSteps ==
    ASSUME Planned(code), LowerNow, NEW ops, At(ops), ops \subseteq Normal, NEW i, NEW j,
           NEW k \in Nat, k <= Len(stack), NEW pushed, NEW used, Emit(<<i, j>>, k, pushed, used),
           i.op \notin Terminators, i.edges = <<>>, ToSet(i.uses) \subseteq Held, i.def = None,
           j.op \notin Terminators, j.edges = <<>>, ToSet(j.uses) \subseteq Held,
           \/ j.def = None /\ used = 0 /\ Pushes(Held, pushed)
           \/ j.def = next /\ used = 1 /\ Pushes(Held \cup {next}, pushed),
           locals' = locals
    PROVE  LowerNow'
<1> DEFINE s == <<i>>
           t == <<i, j>>
<1>1. /\ next \in Nat \ {0} /\ IsFiniteSet(DOMAIN locals)
      /\ \A l \in DOMAIN locals : locals[l].value \in Held
  BY Finds
<1>2. Emits(Held, s, next, next) /\ Defined(s) = {}
  BY <1>1, EmitsOne
<1>3. Emit(t, k, pushed, used) /\ t = Append(s, j)
  BY TupleSets
<1> HIDE DEF s, t
<1>4. /\ j.def = None => Emits(Held, t, next, next) /\ Defined(t) = {}
      /\ j.def = next => Emits(Held, t, next, next + 1) /\ Defined(t) = {next}
  <2>1. ToSet(j.uses) \subseteq Held \cup Defined(s)
    OBVIOUS
  <2>2. /\ j.def = None => Emits(Held, t, next, next) /\ Defined(t) = Defined(s)
        /\ j.def = next => Emits(Held, t, next, next + 1) /\ Defined(t) = Defined(s) \cup {next}
    BY <1>2, <1>3, <2>1, EmitsOneMore
  <2> QED BY <1>2, <2>2
<1>5. Emits(Held, t, next, next + used) /\ Pushes(Held \cup Defined(t), pushed)
  <2>1. CASE j.def = None /\ used = 0 /\ Pushes(Held, pushed)
    <3>1. next + used = next /\ Held \cup Defined(t) = Held
      BY <1>1, <1>4, <2>1
    <3> QED BY <1>4, <2>1, <3>1
  <2>2. CASE j.def = next /\ used = 1 /\ Pushes(Held \cup {next}, pushed)
    BY <1>4, <2>2
  <2> QED BY <2>1, <2>2
<1> QED BY <1>1, <1>3, <1>5, EmitStep

\* The operation, after the check of a divisor.
LEMMA ArithmeticKeeps == ASSUME Planned(code), LowerNow, Arithmetic PROVE LowerNow'
<1> DEFINE i == Check("zero_check", <<Top(1).value>>)
           j == Ir(Binary[I.op], next, IntType, <<Top(2).value, Top(1).value>>)
           pushed == <<Typed(next, IntType)>>
<1>1. At(DOMAIN Binary) /\ Emit(Append(ZeroCheck(I.op, Top(1).value), j), 2, pushed, 1) /\ locals' = locals
  BY DEF Arithmetic
<1>2. /\ I.op \in DOMAIN Binary /\ ~(Len(stack) < Pops(I)) /\ Len(stack) \in Nat
      /\ \A k \in 1 .. Len(stack) : Top(k).value \in Held
  BY <1>1, Finds
<1>3. 2 <= Len(stack)
  BY <1>2, PopsOf
<1>4. Top(1).value \in Held /\ Top(2).value \in Held
  BY <1>2, <1>3
<1>5. i.op = "zero_check" /\ i.def = None /\ i.uses = <<Top(1).value>> /\ i.edges = <<>>
  BY DEF Check, Ir
<1>6. j.op = Binary[I.op] /\ j.def = next /\ j.uses = <<Top(2).value, Top(1).value>> /\ j.edges = <<>>
  BY IrMakes
<1>7. i.op \notin Terminators /\ j.op \notin Terminators
  BY <1>2, <1>5, <1>6, OpsOf DEF Terminators
<1>8. ToSet(i.uses) \subseteq Held /\ ToSet(j.uses) \subseteq Held
  BY <1>4, <1>5, <1>6, TupleSets
<1>9. Pushes(Held \cup {next}, pushed)
  BY PushesOne
<1>10. DOMAIN Binary \subseteq Normal
  BY DEF Normal
<1>11. Append(ZeroCheck(I.op, Top(1).value), j) = IF I.op \in {"idiv", "irem"} THEN <<i, j>> ELSE <<j>>
  <2> HIDE DEF i, j
  <2> QED BY TupleSets DEF ZeroCheck, i
<1> HIDE DEF i, j, pushed
<1>12. CASE I.op \in {"idiv", "irem"}
  <2>1. Emit(<<i, j>>, 2, pushed, 1)
    BY <1>1, <1>11, <1>12
  <2> QED BY <1>1, <1>3, <1>5, <1>6, <1>7, <1>8, <1>9, <1>10, <2>1, TwoSteps
<1>13. CASE I.op \notin {"idiv", "irem"}
  <2>1. Emit(<<j>>, 2, pushed, 1)
    BY <1>1, <1>11, <1>13
  <2> QED BY <1>1, <1>3, <1>6, <1>7, <1>8, <1>9, <1>10, <2>1, OneStep
<1> QED BY <1>12, <1>13

\* The operation on the top of the stack.
LEMMA UnaryOpKeeps == ASSUME Planned(code), LowerNow, UnaryOp PROVE LowerNow'
<1> DEFINE i == Ir(Unary[I.op], next, IntType, <<Top(1).value>>)
           pushed == <<Typed(next, IntType)>>
<1>1. At(DOMAIN Unary) /\ Emit(<<i>>, 1, pushed, 1) /\ locals' = locals
  BY DEF UnaryOp
<1>2. /\ I.op \in DOMAIN Unary /\ ~(Len(stack) < Pops(I)) /\ Len(stack) \in Nat
      /\ \A k \in 1 .. Len(stack) : Top(k).value \in Held
  BY <1>1, Finds
<1>3. 1 <= Len(stack)
  BY <1>2, PopsOf
<1>4. Top(1).value \in Held
  BY <1>2, <1>3
<1>5. i.op = Unary[I.op] /\ i.def = next /\ i.uses = <<Top(1).value>> /\ i.edges = <<>>
  BY IrMakes
<1>6. i.op \notin Terminators /\ ToSet(i.uses) \subseteq Held
  BY <1>2, <1>4, <1>5, OpsOf, TupleSets
<1>7. Pushes(Held \cup {next}, pushed)
  BY PushesOne
<1>8. DOMAIN Unary \subseteq Normal
  BY DEF Normal
<1> HIDE DEF i, pushed
<1> QED BY <1>1, <1>3, <1>5, <1>6, <1>7, <1>8, OneStep

\* An array of a length from the stack.
LEMMA NewArrayKeeps == ASSUME Planned(code), LowerNow, NewArray PROVE LowerNow'
<1> DEFINE i == Ir("new_array", next, I.type, <<Top(1).value>>)
           pushed == <<Typed(next, Array(I.type))>>
<1>1. At({"newarray"}) /\ Emit(<<i>>, 1, pushed, 1) /\ locals' = locals
  BY DEF NewArray
<1>2. /\ I.op \in {"newarray"} /\ ~(Len(stack) < Pops(I)) /\ Len(stack) \in Nat
      /\ \A k \in 1 .. Len(stack) : Top(k).value \in Held
  BY <1>1, Finds
<1>3. 1 <= Len(stack)
  BY <1>2, PopsOf
<1>4. Top(1).value \in Held
  BY <1>2, <1>3
<1>5. i.op = "new_array" /\ i.def = next /\ i.uses = <<Top(1).value>> /\ i.edges = <<>>
  BY IrMakes
<1>6. i.op \notin Terminators /\ ToSet(i.uses) \subseteq Held
  BY <1>4, <1>5, SeqEmpty, TupleSets DEF Terminators
<1>7. Pushes(Held \cup {next}, pushed)
  BY PushesOne
<1>8. {"newarray"} \subseteq Normal
  BY DEF Normal
<1> HIDE DEF i, pushed
<1> QED BY <1>1, <1>3, <1>5, <1>6, <1>7, <1>8, OneStep

\* A write that defines no value.
LEMMA PutStaticKeeps == ASSUME Planned(code), LowerNow, PutStatic PROVE LowerNow'
<1> DEFINE i == [Check("put_static", <<Top(1).value>>) EXCEPT !.ref = I.ref]
           pushed == <<>>
<1>1. At({"putstatic"}) /\ Emit(<<i>>, 1, pushed, 0) /\ locals' = locals
  BY DEF PutStatic
<1>2. /\ I.op \in {"putstatic"} /\ ~(Len(stack) < Pops(I)) /\ Len(stack) \in Nat
      /\ \A k \in 1 .. Len(stack) : Top(k).value \in Held
  BY <1>1, Finds
<1>3. 1 <= Len(stack)
  BY <1>2, PopsOf
<1>4. Top(1).value \in Held
  BY <1>2, <1>3
<1>5. i.op = "put_static" /\ i.def = None /\ i.uses = <<Top(1).value>> /\ i.edges = <<>>
  BY DEF Check, Ir
<1>6. i.op \notin Terminators /\ ToSet(i.uses) \subseteq Held
  BY <1>4, <1>5, SeqEmpty, TupleSets DEF Terminators
<1>7. Pushes(Held, pushed)
  BY <1>4, PushesOne
<1>8. {"putstatic"} \subseteq Normal
  BY DEF Normal
<1> HIDE DEF i, pushed
<1> QED BY <1>1, <1>3, <1>5, <1>6, <1>7, <1>8, OneStep

\* An object, that uses no value.
LEMMA NewKeeps == ASSUME Planned(code), LowerNow, New PROVE LowerNow'
<1> DEFINE i == Ir("new_object", next, I.type, <<>>)
           pushed == <<Typed(next, I.type)>>
<1>1. At({"new"}) /\ Emit(<<i>>, 0, pushed, 1) /\ locals' = locals
  BY DEF New
<1>2. /\ I.op \in {"new"} /\ ~(Len(stack) < Pops(I)) /\ Len(stack) \in Nat
      /\ \A k \in 1 .. Len(stack) : Top(k).value \in Held
  BY <1>1, Finds
<1>3. 0 <= Len(stack)
  BY <1>2, PopsOf
<1>4. i.op = "new_object" /\ i.def = next /\ i.uses = <<>> /\ i.edges = <<>>
  BY IrMakes
<1>5. i.op \notin Terminators /\ ToSet(i.uses) \subseteq Held
  BY <1>4, SeqEmpty, TupleSets DEF Terminators
<1>6. Pushes(Held \cup {next}, pushed)
  BY PushesOne
<1>7. {"new"} \subseteq Normal
  BY DEF Normal
<1> HIDE DEF i, pushed
<1> QED BY <1>1, <1>3, <1>4, <1>5, <1>6, <1>7, OneStep

\* The value goes back with another type.
LEMMA CheckCastKeeps == ASSUME Planned(code), LowerNow, CheckCast PROVE LowerNow'
<1> DEFINE i == [Check("check_cast", <<Top(1).value>>) EXCEPT !.type = I.type]
           pushed == <<Typed(Top(1).value, I.type)>>
<1>1. At({"checkcast"}) /\ Emit(<<i>>, 1, pushed, 0) /\ locals' = locals
  BY DEF CheckCast
<1>2. /\ I.op \in {"checkcast"} /\ ~(Len(stack) < Pops(I)) /\ Len(stack) \in Nat
      /\ \A k \in 1 .. Len(stack) : Top(k).value \in Held
  BY <1>1, Finds
<1>3. 1 <= Len(stack)
  BY <1>2, PopsOf
<1>4. Top(1).value \in Held
  BY <1>2, <1>3
<1>5. i.op = "check_cast" /\ i.def = None /\ i.uses = <<Top(1).value>> /\ i.edges = <<>>
  BY DEF Check, Ir
<1>6. i.op \notin Terminators /\ ToSet(i.uses) \subseteq Held
  BY <1>4, <1>5, SeqEmpty, TupleSets DEF Terminators
<1>7. Pushes(Held, pushed)
  BY <1>4, PushesOne
<1>8. {"checkcast"} \subseteq Normal
  BY DEF Normal
<1> HIDE DEF i, pushed
<1> QED BY <1>1, <1>3, <1>5, <1>6, <1>7, <1>8, OneStep

\* The test of a reference.
LEMMA InstanceOfKeeps == ASSUME Planned(code), LowerNow, InstanceOf PROVE LowerNow'
<1> DEFINE i == Ir("instance_of", next, IntType, <<Top(1).value>>)
           pushed == <<Typed(next, IntType)>>
<1>1. At({"instanceof"}) /\ Emit(<<i>>, 1, pushed, 1) /\ locals' = locals
  BY DEF InstanceOf
<1>2. /\ I.op \in {"instanceof"} /\ ~(Len(stack) < Pops(I)) /\ Len(stack) \in Nat
      /\ \A k \in 1 .. Len(stack) : Top(k).value \in Held
  BY <1>1, Finds
<1>3. 1 <= Len(stack)
  BY <1>2, PopsOf
<1>4. Top(1).value \in Held
  BY <1>2, <1>3
<1>5. i.op = "instance_of" /\ i.def = next /\ i.uses = <<Top(1).value>> /\ i.edges = <<>>
  BY IrMakes
<1>6. i.op \notin Terminators /\ ToSet(i.uses) \subseteq Held
  BY <1>4, <1>5, SeqEmpty, TupleSets DEF Terminators
<1>7. Pushes(Held \cup {next}, pushed)
  BY PushesOne
<1>8. {"instanceof"} \subseteq Normal
  BY DEF Normal
<1> HIDE DEF i, pushed
<1> QED BY <1>1, <1>3, <1>5, <1>6, <1>7, <1>8, OneStep

\* The length, after a null check.
LEMMA ArrayLengthKeeps == ASSUME Planned(code), LowerNow, ArrayLength PROVE LowerNow'
<1> DEFINE i == Check("null_check", <<Top(1).value>>)
           j == Ir("array_length", next, IntType, <<Top(1).value>>)
           pushed == <<Typed(next, IntType)>>
<1>1. At({"arraylength"}) /\ Emit(<<i, j>>, 1, pushed, 1) /\ locals' = locals
  BY DEF ArrayLength
<1>2. /\ I.op \in {"arraylength"} /\ ~(Len(stack) < Pops(I)) /\ Len(stack) \in Nat
      /\ \A k \in 1 .. Len(stack) : Top(k).value \in Held
  BY <1>1, Finds
<1>3. 1 <= Len(stack)
  BY <1>2, PopsOf
<1>4. Top(1).value \in Held
  BY <1>2, <1>3
<1>5. i.op = "null_check" /\ i.def = None /\ i.uses = <<Top(1).value>> /\ i.edges = <<>>
  BY DEF Check, Ir
<1>6. j.op = "array_length" /\ j.def = next /\ j.uses = <<Top(1).value>> /\ j.edges = <<>>
  BY DEF Check, Ir
<1>7. i.op \notin Terminators /\ j.op \notin Terminators
  BY <1>5, <1>6 DEF Terminators
<1>8. ToSet(i.uses) \subseteq Held /\ ToSet(j.uses) \subseteq Held
  BY <1>4, <1>5, <1>6, TupleSets
<1>9. Pushes(Held \cup {next}, pushed)
  BY PushesOne
<1>10. {"arraylength"} \subseteq Normal
  BY DEF Normal
<1> HIDE DEF i, j, pushed
<1> QED BY <1>1, <1>3, <1>5, <1>6, <1>7, <1>8, <1>9, <1>10, TwoSteps

\* The read, after a null check.
LEMMA GetFieldKeeps == ASSUME Planned(code), LowerNow, GetField PROVE LowerNow'
<1> DEFINE i == Check("null_check", <<Top(1).value>>)
           j == [Ir("get_field", next, FieldType(I.type), <<Top(1).value>>) EXCEPT !.ref = I.ref]
           pushed == <<Typed(next, FieldType(I.type))>>
<1>1. At({"getfield"}) /\ Emit(<<i, j>>, 1, pushed, 1) /\ locals' = locals
  BY DEF GetField
<1>2. /\ I.op \in {"getfield"} /\ ~(Len(stack) < Pops(I)) /\ Len(stack) \in Nat
      /\ \A k \in 1 .. Len(stack) : Top(k).value \in Held
  BY <1>1, Finds
<1>3. 1 <= Len(stack)
  BY <1>2, PopsOf
<1>4. Top(1).value \in Held
  BY <1>2, <1>3
<1>5. i.op = "null_check" /\ i.def = None /\ i.uses = <<Top(1).value>> /\ i.edges = <<>>
  BY DEF Check, Ir
<1>6. j.op = "get_field" /\ j.def = next /\ j.uses = <<Top(1).value>> /\ j.edges = <<>>
  BY DEF Check, Ir
<1>7. i.op \notin Terminators /\ j.op \notin Terminators
  BY <1>5, <1>6 DEF Terminators
<1>8. ToSet(i.uses) \subseteq Held /\ ToSet(j.uses) \subseteq Held
  BY <1>4, <1>5, <1>6, TupleSets
<1>9. Pushes(Held \cup {next}, pushed)
  BY PushesOne
<1>10. {"getfield"} \subseteq Normal
  BY DEF Normal
<1> HIDE DEF i, j, pushed
<1> QED BY <1>1, <1>3, <1>5, <1>6, <1>7, <1>8, <1>9, <1>10, TwoSteps

\* The write, after a null check.
LEMMA PutFieldKeeps == ASSUME Planned(code), LowerNow, PutField PROVE LowerNow'
<1> DEFINE i == Check("null_check", <<Top(2).value>>)
           j == [Check("put_field", <<Top(2).value, Top(1).value>>) EXCEPT !.ref = I.ref]
           pushed == <<>>
<1>1. At({"putfield"}) /\ Emit(<<i, j>>, 2, pushed, 0) /\ locals' = locals
  BY DEF PutField
<1>2. /\ I.op \in {"putfield"} /\ ~(Len(stack) < Pops(I)) /\ Len(stack) \in Nat
      /\ \A k \in 1 .. Len(stack) : Top(k).value \in Held
  BY <1>1, Finds
<1>3. 2 <= Len(stack)
  BY <1>2, PopsOf
<1>4. Top(1).value \in Held /\ Top(2).value \in Held
  BY <1>2, <1>3
<1>5. i.op = "null_check" /\ i.def = None /\ i.uses = <<Top(2).value>> /\ i.edges = <<>>
  BY DEF Check, Ir
<1>6. j.op = "put_field" /\ j.def = None /\ j.uses = <<Top(2).value, Top(1).value>> /\ j.edges = <<>>
  BY DEF Check, Ir
<1>7. i.op \notin Terminators /\ j.op \notin Terminators
  BY <1>5, <1>6 DEF Terminators
<1>8. ToSet(i.uses) \subseteq Held /\ ToSet(j.uses) \subseteq Held
  BY <1>4, <1>5, <1>6, TupleSets
<1>9. Pushes(Held, pushed)
  BY PushesOne
<1>10. {"putfield"} \subseteq Normal
  BY DEF Normal
<1> HIDE DEF i, j, pushed
<1> QED BY <1>1, <1>3, <1>5, <1>6, <1>7, <1>8, <1>9, <1>10, TwoSteps


\* The sentinel, or the read of the field.
LEMMA GetStaticKeeps == ASSUME Planned(code), LowerNow, GetStatic PROVE LowerNow'
<1> DEFINE i == Ir("constant", next, NullType, <<>>)
           j == [Ir("get_static", next, FieldType(I.type), <<>>) EXCEPT !.ref = I.ref]
           pushed == <<Typed(next, FieldType(I.type))>>
<1>1. At({"getstatic"}) /\ Emit(IF I.ref = SystemOut THEN <<i>> ELSE <<j>>, 0, pushed, 1) /\ locals' = locals
  BY DEF GetStatic
<1>2. Len(stack) \in Nat
  BY <1>1, Finds
<1>3. i.op = "constant" /\ i.def = next /\ i.uses = <<>> /\ i.edges = <<>>
  BY IrMakes
<1>4. j.op = "get_static" /\ j.def = next /\ j.uses = <<>> /\ j.edges = <<>>
  BY IrMakes
<1>5. /\ i.op \notin Terminators /\ ToSet(i.uses) \subseteq Held
      /\ j.op \notin Terminators /\ ToSet(j.uses) \subseteq Held
  BY <1>3, <1>4, SeqEmpty DEF Terminators
<1>6. Pushes(Held \cup {next}, pushed)
  BY PushesOne
<1>7. {"getstatic"} \subseteq Normal /\ 0 <= Len(stack)
  BY <1>2 DEF Normal
<1> HIDE DEF i, j, pushed
<1>8. CASE I.ref = SystemOut
  <2>1. Emit(<<i>>, 0, pushed, 1)
    BY <1>1, <1>8
  <2> QED BY <1>1, <1>3, <1>5, <1>6, <1>7, <2>1, OneStep
<1>9. CASE I.ref # SystemOut
  <2>1. Emit(<<j>>, 0, pushed, 1)
    BY <1>1, <1>9
  <2> QED BY <1>1, <1>4, <1>5, <1>6, <1>7, <2>1, OneStep
<1> QED BY <1>8, <1>9

\* The checks of an access to an array, and its length, the next value.
LEMMA GuardEmits ==
    ASSUME NEW K, NEW array \in K, NEW index \in K, next \in Nat \ {0}
    PROVE  Emits(K, Guard(array, index), next, next + 1) /\ Defined(Guard(array, index)) = {next}
<1> DEFINE i == Check("null_check", <<array>>)
           j == Ir("array_length", next, IntType, <<array>>)
           k == Check("bounds_check", <<index, next>>)
           s == <<i>>
           t == <<i, j>>
           u == <<i, j, k>>
<1>1. i.op = "null_check" /\ i.def = None /\ i.uses = <<array>> /\ i.edges = <<>>
  BY DEF Check, Ir
<1>2. j.op = "array_length" /\ j.def = next /\ j.uses = <<array>> /\ j.edges = <<>>
  BY DEF Ir
<1>3. k.op = "bounds_check" /\ k.def = None /\ k.uses = <<index, next>> /\ k.edges = <<>>
  BY DEF Check, Ir
<1>4. i.op \notin Terminators /\ j.op \notin Terminators /\ k.op \notin Terminators
  BY <1>1, <1>2, <1>3 DEF Terminators
<1>5. ToSet(i.uses) \subseteq K /\ ToSet(j.uses) \subseteq K /\ ToSet(k.uses) \subseteq K \cup {next}
  BY <1>1, <1>2, <1>3, TupleSets
<1>6. t = Append(s, j) /\ u = Append(t, k) /\ Guard(array, index) = u
  BY TupleSets DEF Guard
<1> HIDE DEF i, j, k, u, t
<1>7. Emits(K, s, next, next) /\ Defined(s) = {}
  BY <1>1, <1>4, <1>5, EmitsOne
<1> HIDE DEF s
<1>8. Emits(K, t, next, next + 1) /\ Defined(t) = {} \cup {next}
  <2>1. /\ j.op \notin Terminators /\ j.edges = <<>> /\ j.def = next
        /\ ToSet(j.uses) \subseteq K \cup Defined(s)
    BY <1>2, <1>4, <1>5
  <2>2. Emits(K, Append(s, j), next, next + 1) /\ Defined(Append(s, j)) = Defined(s) \cup {next}
    BY <1>7, <2>1, EmitsOneMore
  <2> QED BY <1>6, <1>7, <2>2
<1>9. Emits(K, u, next, next + 1) /\ Defined(u) = Defined(t)
  <2>1. /\ k.op \notin Terminators /\ k.edges = <<>> /\ k.def = None
        /\ ToSet(k.uses) \subseteq K \cup Defined(t)
    BY <1>3, <1>4, <1>5, <1>8
  <2>2. Emits(K, Append(t, k), next, next + 1) /\ Defined(Append(t, k)) = Defined(t)
    BY <1>8, <2>1, EmitsOneMore
  <2> QED BY <1>6, <2>2
<1> QED BY <1>6, <1>8, <1>9

\* The read, after the checks; its value is the second new one.
LEMMA ArrayLoadKeeps == ASSUME Planned(code), LowerNow, ArrayLoad PROVE LowerNow'
<1> DEFINE element == ElementType(I.op, Top(2).type)
           s == Guard(Top(2).value, Top(1).value)
           i == Ir("array_load", next + 1, element, <<Top(2).value, Top(1).value>>)
           t == Append(s, i)
           pushed == <<Typed(next + 1, IF I.op = "saload" THEN IntType ELSE element)>>
<1>1. At({"iaload", "aaload", "saload"}) /\ Emit(t, 2, pushed, 2) /\ locals' = locals
  BY DEF ArrayLoad
<1>2. /\ I.op \in {"iaload", "aaload", "saload"} /\ ~(Len(stack) < Pops(I)) /\ Len(stack) \in Nat
      /\ \A k \in 1 .. Len(stack) : Top(k).value \in Held
      /\ next \in Nat \ {0} /\ IsFiniteSet(DOMAIN locals)
      /\ \A l \in DOMAIN locals : locals[l].value \in Held
  BY <1>1, Finds
<1>3. 2 <= Len(stack)
  BY <1>2, PopsOf
<1>4. Top(1).value \in Held /\ Top(2).value \in Held
  BY <1>2, <1>3
<1>5. Emits(Held, s, next, next + 1) /\ Defined(s) = {next}
  BY <1>2, <1>4, GuardEmits
<1>6. i.op = "array_load" /\ i.def = next + 1 /\ i.uses = <<Top(2).value, Top(1).value>> /\ i.edges = <<>>
  BY DEF Ir
<1>7. i.op \notin Terminators /\ ToSet(i.uses) \subseteq Held \cup Defined(s)
  BY <1>4, <1>6, TupleSets DEF Terminators
<1>8. Pushes(Held \cup {next, next + 1}, pushed)
  BY PushesOne
<1>9. {"iaload", "aaload", "saload"} \subseteq Normal /\ (next + 1) + 1 = next + 2
  BY <1>2 DEF Normal
<1> HIDE DEF i, s, pushed
<1>10. Emits(Held, t, next, next + 2) /\ Defined(t) = {next} \cup {next + 1}
  BY <1>5, <1>6, <1>7, <1>9, EmitsOneMore
<1>11. Pushes(Held \cup Defined(t), pushed)
  BY <1>8, <1>10 DEF Pushes
<1> HIDE DEF t
<1>12. \A l \in DOMAIN locals' : locals'[l].value \in Held \cup Defined(t)
  BY <1>1, <1>2
<1> QED BY <1>1, <1>2, <1>3, <1>9, <1>10, <1>11, <1>12, EmitStep

\* The write, after the checks, whose length is the only new value.
LEMMA ArrayStoreKeeps == ASSUME Planned(code), LowerNow, ArrayStore PROVE LowerNow'
<1> DEFINE s == Guard(Top(3).value, Top(2).value)
           i == [Check("array_store", <<Top(3).value, Top(2).value, Top(1).value>>)
                   EXCEPT !.type = ElementType(I.op, Top(3).type)]
           t == Append(s, i)
           pushed == <<>>
<1>1. At({"iastore", "aastore", "sastore"}) /\ Emit(t, 3, pushed, 1) /\ locals' = locals
  BY DEF ArrayStore
<1>2. /\ I.op \in {"iastore", "aastore", "sastore"} /\ ~(Len(stack) < Pops(I)) /\ Len(stack) \in Nat
      /\ \A k \in 1 .. Len(stack) : Top(k).value \in Held
      /\ next \in Nat \ {0} /\ IsFiniteSet(DOMAIN locals)
      /\ \A l \in DOMAIN locals : locals[l].value \in Held
  BY <1>1, Finds
<1>3. 3 <= Len(stack)
  BY <1>2, PopsOf
<1>4. Top(1).value \in Held /\ Top(2).value \in Held /\ Top(3).value \in Held
  BY <1>2, <1>3
<1>5. Emits(Held, s, next, next + 1) /\ Defined(s) = {next}
  BY <1>2, <1>4, GuardEmits
<1>6. /\ i.op = "array_store" /\ i.def = None /\ i.edges = <<>>
      /\ i.uses = <<Top(3).value, Top(2).value, Top(1).value>>
  BY DEF Check, Ir
<1>7. i.op \notin Terminators /\ ToSet(i.uses) \subseteq Held \cup Defined(s)
  BY <1>4, <1>6, TupleSets DEF Terminators
<1>8. Pushes(Held \cup Defined(t), pushed)
  BY PushesOne
<1>9. {"iastore", "aastore", "sastore"} \subseteq Normal
  BY DEF Normal
<1> HIDE DEF i, s, pushed
<1>10. Emits(Held, t, next, next + 1)
  BY <1>5, <1>6, <1>7, EmitsOneMore
<1> HIDE DEF t
<1>11. \A l \in DOMAIN locals' : locals'[l].value \in Held \cup Defined(t)
  BY <1>1, <1>2
<1> QED BY <1>1, <1>2, <1>3, <1>8, <1>9, <1>10, <1>11, EmitStep

-----------------------------------------------------------------------------
(* Calls. *)

\* The values of typed values.
LEMMA ValuesOf ==
    ASSUME NEW s, IsSeq(s)
    PROVE  /\ IsSeq(Values(s)) /\ Len(Values(s)) = Len(s) /\ DOMAIN Values(s) = 1 .. Len(s)
           /\ \A k \in 1 .. Len(s) : Values(s)[k] = s[k].value
           /\ \A v \in ToSet(Values(s)) : \E x \in ToSet(s) : v = x.value
<1> DEFINE t == Values(s)
<1>1. Len(s) \in Nat /\ DOMAIN s = 1 .. Len(s)
  BY SeqIs
<1>2. DOMAIN t = 1 .. Len(s) /\ \A k \in 1 .. Len(s) : t[k] = s[k].value
  BY <1>1 DEF Values
<1>3. t = [k \in 1 .. Len(s) |-> t[k]]
  BY <1>1 DEF Values
<1> HIDE DEF t
<1>4. IsSeq(t) /\ Len(t) = Len(s)
  BY <1>1, <1>2, <1>3, SeqMade
<1>5. \A v \in ToSet(t) : \E x \in ToSet(s) : v = x.value
  BY <1>1, <1>2 DEF ToSet
<1> QED BY <1>2, <1>4, <1>5 DEF t

\* A call's arguments are on the stack.
LEMMA ArgumentsKnown ==
    ASSUME IsSeq(stack), NEW k \in Nat, k <= Len(stack)
    PROVE  /\ Len(Arguments(k)) = k /\ DOMAIN Arguments(k) = 1 .. k
           /\ ToSet(Arguments(k)) \subseteq Held
<1> DEFINE m == Len(stack) + 1 - k
           n == Len(stack)
           s == SubSeq(stack, m, n)
<1>1. n \in Nat
  BY SeqIs
<1>2. m \in Nat \ {0} /\ n \in Int /\ (m <= n => n - m + 1 = k) /\ (~(m <= n) => k = 0)
  BY <1>1
<1> HIDE DEF m
<1>3. /\ IsSeq(s) /\ Len(s) = IF m <= n THEN n - m + 1 ELSE 0
      /\ ToSet(s) \subseteq ToSet(stack)
  BY <1>1, <1>2, Part
<1>4. Len(s) = k
  BY <1>2, <1>3
<1>5. Arguments(k) = Values(s)
  BY DEF Arguments, m
<1> HIDE DEF s
<1>6. /\ Len(Arguments(k)) = k /\ DOMAIN Arguments(k) = 1 .. k
      /\ \A v \in ToSet(Arguments(k)) : \E x \in ToSet(s) : v = x.value
  BY <1>3, <1>4, <1>5, ValuesOf
<1> QED BY <1>3, <1>6 DEF Held, FrameValues

\* The constructor of Object, a call with no result, and one with a result.
LEMMA CallKeeps == ASSUME Planned(code), LowerNow, Call PROVE LowerNow'
<1> DEFINE type == IrType(I.sig.returns)
           i == [Ir("call", next, type, Arguments(Pops(I))) EXCEPT !.ref = I.ref]
           j == [i EXCEPT !.def = None]
           none == <<>>
           pushed == <<Typed(next, type)>>
<1>1. /\ At({"invokestatic", "invokespecial"}) /\ locals' = locals
      /\ IF I.op = "invokespecial" /\ I.ref = ObjectInit THEN Emit(<<>>, 1, none, 0)
         ELSE IF type = VoidType THEN Emit(<<j>>, Pops(I), none, 0)
         ELSE Emit(<<i>>, Pops(I), pushed, 1)
  BY DEF Call
<1>2. /\ I.op \in {"invokestatic", "invokespecial"} /\ ~(Len(stack) < Pops(I)) /\ Len(stack) \in Nat
      /\ IsInstruction(I) /\ IsSeq(stack) /\ IsFiniteSet(DOMAIN locals)
      /\ \A l \in DOMAIN locals : locals[l].value \in Held
  BY <1>1, Finds
<1>3. Pops(I) \in Nat
  <2>1. I.sig.params \in Seq(ToSet(I.sig.params))
    BY <1>2 DEF IsInstruction
  <2>2. Len(I.sig.params) \in Nat
    BY <2>1, LenProperties
  <2> QED BY <1>2, <2>2, PopsOf
<1>4. Pops(I) <= Len(stack)
  BY <1>2, <1>3
<1>5. ToSet(Arguments(Pops(I))) \subseteq Held
  BY <1>2, <1>3, <1>4, ArgumentsKnown
<1>6. i.op = "call" /\ i.def = next /\ i.uses = Arguments(Pops(I)) /\ i.edges = <<>>
  BY DEF Ir
<1>7. j.op = "call" /\ j.def = None /\ j.uses = Arguments(Pops(I)) /\ j.edges = <<>>
  BY DEF Ir
<1>8. i.op \notin Terminators /\ j.op \notin Terminators
  BY <1>6, <1>7 DEF Terminators
<1>9. Pushes(Held, none) /\ Pushes(Held \cup {next}, pushed)
  BY PushesOne
<1>10. {"invokestatic", "invokespecial"} \subseteq Normal
  BY DEF Normal
<1> HIDE DEF i, j, none, pushed, type
<1>11. CASE I.op = "invokespecial" /\ I.ref = ObjectInit
  <2>1. Emit(<<>>, 1, none, 0)
    BY <1>1, <1>11
  <2>2. Pops(I) = 1
    BY <1>11, PopsOf
  <2>3. 1 <= Len(stack)
    BY <1>4, <2>2
  <2> QED BY <1>1, <1>2, <1>9, <1>10, <2>1, <2>3, NoStep
<1>12. CASE ~(I.op = "invokespecial" /\ I.ref = ObjectInit) /\ type = VoidType
  <2>1. Emit(<<j>>, Pops(I), none, 0)
    BY <1>1, <1>12
  <2> QED BY <1>1, <1>3, <1>4, <1>5, <1>7, <1>8, <1>9, <1>10, <2>1, OneStep
<1>13. CASE ~(I.op = "invokespecial" /\ I.ref = ObjectInit) /\ type # VoidType
  <2>1. Emit(<<i>>, Pops(I), pushed, 1)
    BY <1>1, <1>13
  <2> QED BY <1>1, <1>3, <1>4, <1>5, <1>6, <1>8, <1>9, <1>10, <2>1, OneStep
<1> QED BY <1>11, <1>12, <1>13

\* The helpers of print and println are no terminators.
LEMMA PrintCallKeeps == ASSUME Planned(code), LowerNow, PrintCall PROVE LowerNow'
<1> DEFINE type == IF I.sig.params = <<>> THEN VoidType ELSE Head(I.sig.params)
           i == [Check(I.ref, Arguments(Len(I.sig.params))) EXCEPT !.type = type]
           pushed == <<>>
<1>1. At({"print"}) /\ Emit(<<i>>, Pops(I), pushed, 0) /\ locals' = locals
  BY DEF PrintCall
<1>2. /\ I.op \in {"print"} /\ ~(Len(stack) < Pops(I)) /\ Len(stack) \in Nat
      /\ IsInstruction(I) /\ IsSeq(stack) /\ ~Refused(I)
  BY <1>1, Finds
<1>3. Len(I.sig.params) \in Nat /\ Pops(I) = Len(I.sig.params) + 1
  <2>1. I.sig.params \in Seq(ToSet(I.sig.params))
    BY <1>2 DEF IsInstruction
  <2> QED BY <1>2, <2>1, LenProperties, PopsOf
<1>4. Pops(I) \in Nat /\ Pops(I) <= Len(stack) /\ Len(I.sig.params) <= Len(stack)
  BY <1>2, <1>3
<1>5. ToSet(Arguments(Len(I.sig.params))) \subseteq Held
  BY <1>2, <1>3, <1>4, ArgumentsKnown
<1>6. I.ref \in {"print", "println"}
  <2>1. <<I.ref, I.sig.params>> \in PrintHelpers
    BY <1>2 DEF Refused
  <2> QED BY <2>1 DEF PrintHelpers
<1>7. i.op = I.ref /\ i.def = None /\ i.uses = Arguments(Len(I.sig.params)) /\ i.edges = <<>>
  BY DEF Check, Ir
<1>8. i.op \notin Terminators
  BY <1>6, <1>7 DEF Terminators
<1>9. Pushes(Held, pushed)
  BY PushesOne
<1>10. {"print"} \subseteq Normal
  BY DEF Normal
<1> HIDE DEF i, pushed, type
<1> QED BY <1>1, <1>4, <1>5, <1>7, <1>8, <1>9, <1>10, OneStep

\* One element more, and two.
LEMMA AppendTwo ==
    ASSUME NEW s, IsSeq(s), NEW x, NEW y
    PROVE  s \o <<x>> = Append(s, x) /\ s \o <<x, y>> = Append(Append(s, x), y)
<1> DEFINE S == ToSet(s) \cup {x, y}
<1>1. s \in Seq(S) /\ x \in S /\ y \in S
  BY SeqMonotonic DEF IsSeq
<1> HIDE DEF S
<1>2. /\ <<x>> \in Seq(S) /\ <<y>> \in Seq(S) /\ <<x, y>> = <<x>> \o <<y>>
  <2>1. <<x>> \in Seq(S) /\ <<y>> \in Seq(S)
    BY <1>1
  <2>2. Append(<<x>>, y) = <<x>> \o <<y>>
    BY <1>1, <2>1, AppendIsConcat
  <2> QED BY <2>1, <2>2, TupleSets
<1>3. s \o <<x>> = Append(s, x) /\ Append(s, x) \in Seq(S)
  BY <1>1, AppendIsConcat, AppendProperties
<1>4. Append(Append(s, x), y) = Append(s, x) \o <<y>>
  BY <1>1, <1>3, AppendIsConcat
<1>5. (s \o <<x>>) \o <<y>> = s \o (<<x>> \o <<y>>)
  BY <1>1, <1>2, ConcatAssociative
<1> QED BY <1>2, <1>3, <1>4, <1>5

\* One part of a recipe more: an argument is appended, or a constant and then its value.
Appending(type, value) == [Check("append", <<next, value>>) EXCEPT !.type = type]
Literal(n, type) == [Ir("constant", n, type, <<>>) EXCEPT !.n = 1]
RecipeStep(args, k, x) ==
    IF I.parts[k] = "arg"
    THEN [is |-> Append(x.is, Appending(IF IrType(I.sig.params[ArgsBefore(I.parts, k)]) = IntType
                                        THEN IntType ELSE StringType,
                                        args[ArgsBefore(I.parts, k)])),
          next |-> x.next]
    ELSE [is |-> x.is \o <<Literal(x.next, IF I.parts[k] = "text" THEN StringType ELSE IntType),
                           Appending(IF I.parts[k] = "text" THEN StringType ELSE IntType, x.next)>>,
          next |-> x.next + 1]

\* What is built so far: code that uses known values, and the builder.
Building(x) == Emits(Held, x.is, next, x.next) /\ next \in Defined(x.is)

\* The builder alone.
LEMMA RecipeStarts ==
    ASSUME next \in Nat \ {0},
           NEW x, x = [is |-> <<Ir("builder", next, Object("StringBuilder"), <<>>)>>, next |-> next + 1]
    PROVE  Building(x)
<1> DEFINE i == Ir("builder", next, Object("StringBuilder"), <<>>)
           s == <<i>>
<1>1. i.op = "builder" /\ i.def = next /\ i.uses = <<>> /\ i.edges = <<>>
  BY DEF Ir
<1>2. i.op \notin Terminators /\ ToSet(i.uses) \subseteq Held
  BY <1>1, SeqEmpty DEF Terminators
<1>3. x.is = s /\ x.next = next + 1
  OBVIOUS
<1> HIDE DEF i
<1>4. Emits(Held, s, next, next + 1) /\ Defined(s) = {next}
  BY <1>1, <1>2, EmitsOne
<1> HIDE DEF s
<1> QED BY <1>3, <1>4 DEF Building

\* A part of the recipe appends what is known.
LEMMA RecipeStepMakes ==
    ASSUME NEW args, NEW k, NEW x, Building(x),
           I.parts[k] = "arg" => args[ArgsBefore(I.parts, k)] \in Held,
           NEW y, y = RecipeStep(args, k, x)
    PROVE  Building(y)
<1>1. Emits(Held, x.is, next, x.next) /\ next \in Defined(x.is) /\ IsSeq(x.is)
  BY DEF Building, Emits, Body
<1>2. CASE I.parts[k] = "arg"
  <2> DEFINE type == IF IrType(I.sig.params[ArgsBefore(I.parts, k)]) = IntType THEN IntType ELSE StringType
             value == args[ArgsBefore(I.parts, k)]
             i == Appending(type, value)
  <2>1. y.is = Append(x.is, i) /\ y.next = x.next
    BY <1>2 DEF RecipeStep
  <2>2. value \in Held
    BY <1>2
  <2> HIDE DEF value, type
  <2>3. i.op = "append" /\ i.def = None /\ i.uses = <<next, value>> /\ i.edges = <<>>
    BY DEF Appending, Check, Ir
  <2>4. i.op \notin Terminators /\ ToSet(i.uses) \subseteq Held \cup Defined(x.is)
    BY <1>1, <2>2, <2>3, TupleSets DEF Terminators
  <2> HIDE DEF i
  <2>5. Emits(Held, y.is, next, x.next) /\ Defined(y.is) = Defined(x.is)
    BY <1>1, <2>1, <2>3, <2>4, EmitsOneMore
  <2> QED BY <1>1, <2>1, <2>5 DEF Building
<1>3. CASE I.parts[k] # "arg"
  <2> DEFINE type == IF I.parts[k] = "text" THEN StringType ELSE IntType
             i == Literal(x.next, type)
             j == Appending(type, x.next)
             u == Append(x.is, i)
  <2>1. y.is = x.is \o <<i, j>> /\ y.next = x.next + 1
    BY <1>3 DEF RecipeStep
  <2> HIDE DEF type
  <2>2. i.op = "constant" /\ i.def = x.next /\ i.uses = <<>> /\ i.edges = <<>>
    BY DEF Literal, Ir
  <2>3. j.op = "append" /\ j.def = None /\ j.uses = <<next, x.next>> /\ j.edges = <<>>
    BY DEF Appending, Check, Ir
  <2>4. i.op \notin Terminators /\ j.op \notin Terminators /\ ToSet(i.uses) \subseteq Held \cup Defined(x.is)
    BY <2>2, <2>3, SeqEmpty DEF Terminators
  <2> HIDE DEF i, j
  <2>5. y.is = Append(u, j)
    BY <1>1, <2>1, AppendTwo
  <2>6. Emits(Held, u, next, x.next + 1) /\ Defined(u) = Defined(x.is) \cup {x.next}
    BY <1>1, <2>2, <2>4, EmitsOneMore
  <2> HIDE DEF u
  <2>7. ToSet(j.uses) \subseteq Held \cup Defined(u)
    BY <1>1, <2>3, <2>6, TupleSets
  <2>8. Emits(Held, y.is, next, x.next + 1) /\ Defined(y.is) = Defined(u)
    <3> DEFINE m == x.next + 1
    <3>1. Emits(Held, u, next, m)
      BY <2>6
    <3> HIDE DEF m
    <3>2. j.op \notin Terminators /\ j.edges = <<>> /\ j.def = None
      BY <2>3, <2>4
    <3>3. Emits(Held, Append(u, j), next, m) /\ Defined(Append(u, j)) = Defined(u)
      BY <2>7, <3>1, <3>2, EmitsOneMore
    <3> QED BY <2>5, <3>3 DEF m
  <2> QED BY <1>1, <2>1, <2>6, <2>8 DEF Building
<1> QED BY <1>2, <1>3

\* A concatenation's code is built part by part.
LEMMA RecipeBuilds ==
    ASSUME next \in Nat \ {0}, IsSeq(I.parts), NEW args,
           \A k \in 1 .. Len(I.parts) : I.parts[k] = "arg" => args[ArgsBefore(I.parts, k)] \in Held,
           NEW r, r = Recipe(args)
    PROVE  Building(r)
<1> DEFINE l == Len(I.parts)
           step(k, x) == RecipeStep(args, k, x)
           start == [is |-> <<Ir("builder", next, Object("StringBuilder"), <<>>)>>, next |-> next + 1]
           Is(f, m) == f = [k \in 0 .. m |-> IF k = 0 THEN start ELSE step(k, f[k - 1])]
           Without == {m \in 0 .. l : ~ \E f : Is(f, m)}
<1>1. l \in Nat
  BY SeqIs
<1> HIDE DEF l, step, start
<1>2. Without = {}
  <2> SUFFICES ASSUME Without # {} PROVE FALSE
    OBVIOUS
  <2> DEFINE m == Least(Without)
  <2>1. m \in Without /\ \A k \in Without : m <= k
    <3>1. Without \subseteq 0 .. l
      BY Zenon
    <3> HIDE DEF Without
    <3>2. Without \in SUBSET Nat
      BY <1>1, <3>1
    <3> QED BY <3>2, LeastNatural
  <2> HIDE DEF m
  <2>2. m \in 0 .. l /\ ~ \E f : Is(f, m)
    BY <2>1
  <2>3. CASE m = 0
    <3> DEFINE f == [k \in 0 .. 0 |-> start]
    <3>1. Is(f, 0)
      OBVIOUS
    <3> HIDE DEF f, Is
    <3> QED BY <2>2, <2>3, <3>1
  <2>4. CASE m # 0
    <3>1. m - 1 \in 0 .. l /\ ~(m <= m - 1) /\ m \in 1 .. l
      BY <1>1, <2>2, <2>4
    <3>2. \E f : Is(f, m - 1)
      BY <2>1, <3>1
    <3>3. PICK g : Is(g, m - 1)
      BY <3>2
    <3> DEFINE f == [k \in 0 .. m |-> IF k = m THEN step(m, g[m - 1]) ELSE g[k]]
    <3>4. \A k \in 0 .. m : f[k] = IF k = 0 THEN start ELSE step(k, f[k - 1])
      <4> SUFFICES ASSUME NEW k \in 0 .. m
                   PROVE  f[k] = IF k = 0 THEN start ELSE step(k, f[k - 1])
        OBVIOUS
      <4>1. CASE k = m
        <5>1. f[k] = step(m, g[m - 1])
          BY <4>1
        <5>2. f[k - 1] = g[m - 1]
          BY <2>4, <3>1, <4>1
        <5> HIDE DEF f, Is, Without
        <5> QED BY <2>4, <4>1, <5>1, <5>2
      <4>2. CASE k # m
        <5>1. k \in 0 .. m - 1
          BY <4>2, <3>1
        <5>2. g[k] = IF k = 0 THEN start ELSE step(k, g[k - 1])
          BY <3>3, <5>1
        <5>3. k # 0 => f[k - 1] = g[k - 1]
          BY <5>1, <3>1
        <5>4. f[k] = g[k]
          BY <4>2
        <5> HIDE DEF f, Is, Without
        <5>5. CASE k = 0
          BY <5>2, <5>4, <5>5
        <5>6. CASE k # 0
          BY <5>2, <5>3, <5>4, <5>6
        <5> QED BY <5>5, <5>6
      <4> QED BY <4>1, <4>2
    <3>5. Is(f, m)
      BY <3>4
    <3> HIDE DEF f, Is
    <3> QED BY <2>2, <3>5
  <2> QED BY <2>3, <2>4
<1> DEFINE built == CHOOSE f : Is(f, l)
<1>3. Is(built, l)
  <2>1. l \in 0 .. l
    BY <1>1
  <2>2. \E f : Is(f, l)
    BY <1>2, <2>1
  <2> HIDE DEF Is
  <2> QED BY <2>2
<1>4. r = built[l]
  BY DEF Recipe, RecipeStep, Appending, Literal, l, step, start
<1> HIDE DEF built
<1>5. \A k \in 0 .. l : built[k] = IF k = 0 THEN start ELSE step(k, built[k - 1])
  BY <1>3
<1> HIDE DEF Is, Without
<1>6. \A k \in 0 .. l : Building(built[k])
  <2> DEFINE Wrong == {k \in 0 .. l : ~Building(built[k])}
             m == Least(Wrong)
  <2> SUFFICES ASSUME Wrong # {} PROVE FALSE
    OBVIOUS
  <2>1. m \in Wrong /\ \A k \in Wrong : m <= k
    <3>1. Wrong \subseteq 0 .. l
      BY Zenon
    <3> HIDE DEF Wrong
    <3>2. Wrong \in SUBSET Nat
      BY <1>1, <3>1
    <3> QED BY <3>2, LeastNatural
  <2> HIDE DEF m
  <2>2. m \in 0 .. l /\ ~Building(built[m])
    BY <2>1
  <2>3. CASE m = 0
    <3>1. built[m] = start
      BY <1>5, <2>2, <2>3
    <3>2. Building(start)
      BY RecipeStarts DEF start
    <3> QED BY <2>2, <3>1, <3>2
  <2>4. CASE m # 0
    <3>1. m - 1 \in 0 .. l /\ ~(m <= m - 1) /\ m \in 1 .. l
      BY <1>1, <2>2, <2>4
    <3>2. Building(built[m - 1])
      BY <2>1, <3>1
    <3>3. built[m] = RecipeStep(args, m, built[m - 1])
      BY <1>5, <2>2, <2>4 DEF step
    <3>4. I.parts[m] = "arg" => args[ArgsBefore(I.parts, m)] \in Held
      BY <3>1 DEF l
    <3> DEFINE x == built[m - 1]
               y == built[m]
    <3>5. y = RecipeStep(args, m, x) /\ Building(x)
      BY <3>2, <3>3
    <3> HIDE DEF x, y, Wrong
    <3>6. Building(y)
      BY <3>4, <3>5, RecipeStepMakes
    <3> QED BY <2>2, <3>6 DEF y
  <2> QED BY <2>3, <2>4
<1>7. l \in 0 .. l
  BY <1>1
<1> QED BY <1>4, <1>6, <1>7

\* A recipe takes no more arguments than there are.
LEMMA ArgsCounted ==
    ASSUME NEW parts, IsSeq(parts), NEW k \in 1 .. Len(parts), parts[k] = "arg"
    PROVE  /\ ArgsBefore(parts, k) \in Nat \ {0}
           /\ ArgsBefore(parts, Len(parts)) \in Nat /\ ArgsBefore(parts, k) <= ArgsBefore(parts, Len(parts))
<1> DEFINE l == Len(parts)
           S(n) == {j \in 1 .. n : parts[j] = "arg"}
<1>1. l \in Nat
  BY SeqIs
<1>2. IsFiniteSet(S(l)) /\ S(k) \subseteq S(l) /\ k \in S(k)
  <2>1. IsFiniteSet(1 .. l)
    BY <1>1, FS_Interval
  <2>2. S(l) \subseteq 1 .. l /\ S(k) \subseteq S(l)
    BY <1>1
  <2> QED BY <1>1, <2>1, <2>2, FS_Subset
<1> HIDE DEF l
<1>3. /\ IsFiniteSet(S(k)) /\ Cardinality(S(k)) <= Cardinality(S(l))
      /\ Cardinality(S(k)) \in Nat /\ Cardinality(S(l)) \in Nat
  BY <1>2, FS_Subset, FS_CardinalityType
<1>4. Cardinality(S(k)) # 0
  <2>1. S(k) # {}
    BY <1>2
  <2> HIDE DEF S
  <2> QED BY <1>3, <2>1, FS_EmptySet
<1>5. ArgsBefore(parts, k) = Cardinality(S(k)) /\ ArgsBefore(parts, Len(parts)) = Cardinality(S(l))
  BY DEF ArgsBefore, l
<1> HIDE DEF S
<1> QED BY <1>3, <1>4, <1>5

\* The concatenation's code, and its result.
LEMMA ConcatKeeps == ASSUME Planned(code), LowerNow, Concat PROVE LowerNow'
<1> DEFINE args == Arguments(Pops(I))
           built == Recipe(args)
           i == Ir("finish", built.next, StringType, <<next>>)
           t == Append(built.is, i)
           pushed == <<Typed(built.next, StringType)>>
           used == built.next + 1 - next
<1>1. At({"concat"}) /\ Emit(t, Pops(I), pushed, used) /\ locals' = locals
  BY DEF Concat
<1>2. /\ I.op \in {"concat"} /\ ~(Len(stack) < Pops(I)) /\ Len(stack) \in Nat /\ ~Refused(I)
      /\ IsInstruction(I) /\ IsSeq(stack) /\ IsFiniteSet(DOMAIN locals) /\ next \in Nat \ {0}
      /\ \A l \in DOMAIN locals : locals[l].value \in Held
  BY <1>1, Finds
<1>3. /\ Pops(I) = Len(I.sig.params) /\ Pops(I) \in Nat /\ Pops(I) <= Len(stack)
      /\ IsSeq(I.parts)
  <2>1. I.sig.params \in Seq(ToSet(I.sig.params)) /\ I.parts \in Seq({"text", "arg", "number"})
    BY <1>2 DEF IsInstruction
  <2>2. Len(I.sig.params) \in Nat /\ IsSeq(I.parts)
    BY <2>1, LenProperties, SeqOver
  <2>3. Pops(I) = Len(I.sig.params)
    BY <1>2, PopsOf
  <2> QED BY <1>2, <2>2, <2>3
<1>4. DOMAIN args = 1 .. Pops(I) /\ ToSet(args) \subseteq Held
  BY <1>2, <1>3, ArgumentsKnown
<1>5. ASSUME NEW k \in 1 .. Len(I.parts), I.parts[k] = "arg"
      PROVE  args[ArgsBefore(I.parts, k)] \in Held
  <2> DEFINE m == ArgsBefore(I.parts, k)
             n == ArgsBefore(I.parts, Len(I.parts))
  <2>1. m \in Nat \ {0} /\ n \in Nat /\ m <= n
    BY <1>3, <1>5, ArgsCounted
  <2>2. \A j \in 1 .. n : ~(j > Len(I.sig.params))
    BY <1>2 DEF Refused
  <2> HIDE DEF m, n, args
  <2>3. m \in DOMAIN args
    BY <1>3, <1>4, <2>1, <2>2
  <2> QED BY <1>4, <2>3 DEF ToSet, m
<1>6. Building(built)
  <2> HIDE DEF args
  <2>1. built = Recipe(args)
    OBVIOUS
  <2> HIDE DEF built
  <2> QED BY <1>2, <1>3, <1>5, <2>1, RecipeBuilds
<1> HIDE DEF built, args
<1>7. Emits(Held, built.is, next, built.next) /\ next \in Defined(built.is)
  BY <1>6 DEF Building
<1>8. i.op = "finish" /\ i.def = built.next /\ i.uses = <<next>> /\ i.edges = <<>>
  BY DEF Ir
<1>9. i.op \notin Terminators /\ ToSet(i.uses) \subseteq Held \cup Defined(built.is)
  BY <1>7, <1>8, TupleSets DEF Terminators
<1>10. Pushes(Held \cup {built.next}, pushed)
  BY PushesOne
<1> HIDE DEF i, pushed
<1>11. Emits(Held, t, next, built.next + 1) /\ Defined(t) = Defined(built.is) \cup {built.next}
  BY <1>7, <1>8, <1>9, EmitsOneMore
<1>12. Pushes(Held \cup Defined(t), pushed)
  BY <1>10, <1>11 DEF Pushes
<1> HIDE DEF t
<1>13. next + used = built.next + 1
  <2>1. built.next \in Nat
    BY <1>7 DEF Emits, Numbered
  <2> QED BY <1>2, <2>1
<1>14. \A l \in DOMAIN locals' : locals'[l].value \in Held \cup Defined(t)
  BY <1>1, <1>2
<1>15. {"concat"} \subseteq Normal
  BY DEF Normal
<1> HIDE DEF used
<1>16. Emits(Held, t, next, next + used)
  BY <1>11, <1>13
<1> QED BY <1>1, <1>2, <1>3, <1>12, <1>14, <1>15, <1>16, EmitStep

-----------------------------------------------------------------------------
(* The instructions that end a block. *)

\* An edge supplies the entry of its target with values from the frame.
LEMMA BranchArgsKnown ==
    ASSUME NEW left, IsSeq(left), ToSet(left) \subseteq ToSet(stack), NEW e, IsEntry(e), Mergeable(e, left)
    PROVE  Len(BranchArgs(e, left)) = Len(e.params) /\ ToSet(BranchArgs(e, left)) \subseteq Held
<1> DEFINE low == [k \in DOMAIN e.slots |-> locals[e.slots[k]].value]
           high == Values(left)
<1>1. /\ IsSeq(e.slots) /\ e.depth \in Nat /\ Len(e.params) = Len(e.slots) + e.depth
      /\ ToSet(e.slots) \subseteq DOMAIN locals /\ e.depth = Len(left)
  BY DEF IsEntry, Mergeable
<1>2. /\ Len(e.slots) \in Nat /\ DOMAIN e.slots = 1 .. Len(e.slots)
      /\ \A k \in 1 .. Len(e.slots) : e.slots[k] \in DOMAIN locals
  BY <1>1, SeqIs
<1>3. IsSeq(low) /\ Len(low) = Len(e.slots)
  <2>1. DOMAIN low = 1 .. Len(e.slots) /\ low = [k \in 1 .. Len(e.slots) |-> low[k]]
    BY <1>2
  <2> HIDE DEF low
  <2> QED BY <1>2, <2>1, SeqMade
<1>4. \A k \in DOMAIN low : low[k] \in Held
  BY <1>2 DEF Held, FrameValues
<1>5. ToSet(low) \subseteq Held
  BY <1>4 DEF ToSet
<1>6. /\ IsSeq(high) /\ Len(high) = Len(left)
      /\ \A v \in ToSet(high) : \E x \in ToSet(left) : v = x.value
  BY ValuesOf
<1>7. ToSet(high) \subseteq Held
  BY <1>6 DEF Held, FrameValues
<1>8. BranchArgs(e, left) = low \o high
  BY DEF BranchArgs
<1> HIDE DEF low, high
<1>9. Len(low \o high) = Len(low) + Len(high) /\ ToSet(low \o high) = ToSet(low) \cup ToSet(high)
  BY <1>3, <1>6, Joined
<1> QED BY <1>1, <1>3, <1>5, <1>6, <1>7, <1>8, <1>9

\* The block ends with a terminator that uses what is known, and its edges are those of the plan.
LEMMA EndStep ==
    ASSUME Planned(code), LowerNow, pc # 0,
           NEW is, NEW op, NEW uses, NEW keys, NEW targets, NEW left, NEW n,
           EndBlock(is, op, uses, keys, targets, left, n),
           Emits(Held, is, next, n), IsSeq(targets), IsSeq(left), ToSet(left) \subseteq ToSet(stack),
           op \in Terminators, ToSet(uses) \subseteq Held \cup Defined(is),
           StraightCode(code) => ToSet(targets) = ToSet(Successors(code, Head(order)))
    PROVE  LowerNow'
<1> DEFINE r == Reached(targets, left, n)
           F == r.entries
           m == r.next
           X == ToSet(targets)
           edge(t) == [block |-> t, args |-> BranchArgs(F[t], left)]
           edges == [k \in DOMAIN targets |-> edge(targets[k])]
           end == [Terminator(op, uses, edges) EXCEPT !.keys = keys]
           b == Head(order)
           block == [params |-> IF b = 1 THEN <<>> ELSE entries[b].params, instrs |-> instrs \o is \o <<end>>]
           C == Put(blocks, b, block)
<1>1. /\ \A t \in X : Mergeable(F[t], left)
      /\ entries' = F /\ next' = m /\ blocks' = C /\ order' = Tail(order) /\ instrs' = <<>> /\ pc' = 0
      /\ method' = method /\ visited' = visited /\ locals' = locals /\ stack' = stack
  BY DEF EndBlock, walk, frame
<1>2. code' = code /\ Parameters' = Parameters
  BY <1>1 DEF code, Parameters
<1>3. Sane(code, order, pc, locals, stack, next, instrs, entries)
  BY DEF LowerNow, LowerInv
<1>4. IsSeq(instrs) /\ IsFiniteSet(DOMAIN locals) /\ \A t \in DOMAIN entries : IsEntry(entries[t])
  BY <1>3 DEF Sane, InBlock
<1>5. n \in Nat /\ IsSeq(is)
  BY DEF Emits, Body, Numbered
<1>6. Extends(F, m, entries, n, X)
  <2> HIDE DEF r
  <2>1. r = Reached(targets, left, n)
    BY DEF r
  <2> QED BY <1>4, <1>5, <2>1, ReachedExtends
<1>7. \A t \in X : IsEntry(F[t])
  <2> HIDE DEF F, X
  <2> QED BY <1>4, <1>6 DEF Extends
<1>8. end.op = op /\ end.def = None /\ end.uses = uses /\ end.edges = edges
  BY DEF Terminator, Check, Ir
<1>9. \A e \in ToSet(edges) :
        /\ ToSet(e.args) \subseteq Held
        /\ e.block \in X /\ Len(e.args) = Len(F[e.block].params)
  <2> SUFFICES ASSUME NEW e \in ToSet(edges)
               PROVE  ToSet(e.args) \subseteq Held /\ e.block \in X /\ Len(e.args) = Len(F[e.block].params)
    OBVIOUS
  <2>1. PICK k \in DOMAIN targets : e = edge(targets[k])
    BY DEF ToSet
  <2> DEFINE t == targets[k]
             entry == F[t]
  <2>2. t \in X
    BY DEF ToSet
  <2>3. IsEntry(entry) /\ Mergeable(entry, left)
    BY <1>1, <1>7, <2>2
  <2>4. e.block = t /\ e.args = BranchArgs(entry, left)
    BY <2>1
  <2> HIDE DEF entry, t, X, edge, edges
  <2>5. Len(BranchArgs(entry, left)) = Len(entry.params) /\ ToSet(BranchArgs(entry, left)) \subseteq Held
    BY <2>3, BranchArgsKnown
  <2> HIDE DEF F
  <2>6. entry = F[t]
    BY DEF entry
  <2> QED BY <2>2, <2>4, <2>5, <2>6
<1> HIDE DEF edges
<1>10. block.params = IF b = 1 THEN <<>> ELSE entries[b].params
  OBVIOUS
<1>11. block.instrs = Append(instrs \o is, end)
  <2> HIDE DEF end
  <2>1. IsSeq(instrs \o is)
    BY <1>4, <1>5, Joined
  <2>2. (instrs \o is) \o <<end>> = Append(instrs \o is, end)
    BY <2>1, AppendTwo
  <2> QED BY <2>2
<1>12. C = Put(blocks, b, block)
  OBVIOUS
<1> HIDE DEF end, block, C, F, m, X
<1>13. \A e \in ToSet(end.edges) :
         /\ ToSet(e.args) \subseteq Held
         /\ e.block \in X /\ Len(e.args) = Len(F[e.block].params)
  BY <1>8, <1>9
<1>14. end.op \in Terminators /\ ToSet(end.uses) \subseteq Held \cup Defined(is)
  BY <1>8
<1>15. StraightCode(code) => X = ToSet(Successors(code, Head(order)))
  BY DEF X
<1>16. LowerInv(code, visited, Len(Parameters), Tail(order), 0, locals, stack, m, <<>>, F, C)
  BY <1>6, <1>8, <1>10, <1>11, <1>12, <1>13, <1>14, <1>15, EndKeeps DEF LowerNow, Held
<1> QED BY <1>1, <1>2, <1>16 DEF LowerNow

\* No opcode is of two kinds.
LEMMA Classes ==
    /\ Normal \cap (Conditional \cup Returns \cup {"goto", "switch"}) = {}
    /\ Conditional \cap (Returns \cup {"goto", "switch"}) = {}
    /\ Returns \cap {"goto", "switch"} = {}
BY DEF Normal, Binary, Unary, Conditional, BranchOperands, Returns

\* A block's successors, by the kind of its last instruction.
LEMMA SuccessorsOf ==
    ASSUME NEW c, NEW b, NEW last, last = End(c, b) - 1, NEW op, op = c[last].op
    PROVE  /\ op \in Returns => Successors(c, b) = <<>>
           /\ op \in Conditional => Successors(c, b) = Append(c[last].to, last + 1)
           /\ op \in {"goto", "switch"} => Successors(c, b) = c[last].to
           /\ op \in Normal => Successors(c, b) = <<last + 1>>
<1>1. Successors(c, b) = CASE op \in Returns -> <<>>
                            [] op \in Conditional -> Append(c[last].to, last + 1)
                            [] op \in {"goto", "switch"} -> c[last].to
                            [] OTHER -> <<last + 1>>
  BY DEF Successors
<1>2. op \in Returns => op \notin Conditional /\ op \notin {"goto", "switch"} /\ op \notin Normal
  BY Classes
<1>3. op \in Conditional => op \notin {"goto", "switch"} /\ op \notin Normal
  BY Classes
<1>4. op \in {"goto", "switch"} => op \notin Normal
  BY Classes
<1> QED BY <1>1, <1>2, <1>3, <1>4

\* Straight code has its branches at the ends of its blocks.
LEMMA BranchIsLast ==
    ASSUME Planned(code), LowerNow, NEW ops, At(ops), ops \cap Normal = {}, StraightCode(code)
    PROVE  pc = End(code, Head(order)) - 1
<1> DEFINE b == Head(order)
           e == End(code, b)
<1>1. pc < e /\ I.op \in ops /\ pc \in b .. e /\ b \in Leaders(code)
  BY Finds
<1>2. code[pc].op \notin Normal
  BY <1>1 DEF I
<1>3. \A i \in b .. e - 2 : code[i].op \in Normal
  BY <1>1 DEF StraightCode
<1>4. b \in Nat /\ e \in Nat
  <2> HIDE DEF b, e
  <2>1. IsSeq(code) /\ Leaders(code) \subseteq DOMAIN code
    BY DEF Planned
  <2>2. b \in 1 .. Len(code) /\ Len(code) \in Nat
    BY <1>1, <2>1, SeqIs
  <2> QED BY <1>1, <2>2 DEF Planned, EndsAt, b, e
<1> HIDE DEF b, e
<1>5. pc \notin b .. e - 2
  BY <1>2, <1>3
<1> QED BY <1>1, <1>4, <1>5 DEF b, e

\* What is left of the stack.
LEMMA UnderPart ==
    ASSUME IsSeq(stack), NEW k \in Nat, k <= Len(stack)
    PROVE  IsSeq(Under(k)) /\ ToSet(Under(k)) \subseteq ToSet(stack)
<1>1. Len(stack) \in Nat
  BY SeqIs
<1>2. Len(stack) - k \in Int /\ Len(stack) - k <= Len(stack)
  BY <1>1
<1>3. /\ IsSeq(SubSeq(stack, 1, Len(stack) - k))
      /\ ToSet(SubSeq(stack, 1, Len(stack) - k)) \subseteq ToSet(stack)
  BY <1>2, Part
<1> QED BY <1>3 DEF Under

\* The edge to the only target.
LEMMA GotoKeeps == ASSUME Planned(code), LowerNow, Goto PROVE LowerNow'
<1> DEFINE is == <<>>
           uses == <<>>
           keys == <<>>
<1>1. At({"goto"}) /\ EndBlock(is, "branch", uses, keys, I.to, stack, next)
  BY DEF Goto
<1>2. I.op \in {"goto"} /\ IsInstruction(I) /\ pc # 0 /\ IsSeq(stack) /\ next \in Nat \ {0}
  BY <1>1, Finds
<1>3. IsSeq(I.to)
  BY <1>2 DEF IsInstruction, IsSeq
<1>4. Emits(Held, is, next, next) /\ ToSet(uses) \subseteq Held \cup Defined(is)
  BY <1>2, EmitsNothing, SeqEmpty
<1>5. "branch" \in Terminators /\ {"goto"} \cap Normal = {}
  BY Classes DEF Terminators
<1>6. StraightCode(code) => ToSet(I.to) = ToSet(Successors(code, Head(order)))
  <2> SUFFICES ASSUME StraightCode(code) PROVE ToSet(I.to) = ToSet(Successors(code, Head(order)))
    OBVIOUS
  <2>1. pc = End(code, Head(order)) - 1
    BY <1>1, <1>5, BranchIsLast
  <2> QED BY <1>2, <2>1, SuccessorsOf DEF I
<1> HIDE DEF is, uses, keys
<1> QED BY <1>1, <1>2, <1>3, <1>4, <1>5, <1>6, EndStep

\* The edges to the cases and the default, which are the instruction's targets.
LEMMA SwitchKeeps == ASSUME Planned(code), LowerNow, Switch PROVE LowerNow'
<1> DEFINE is == <<>>
           uses == <<Top(1).value>>
           targets == Append(Tail(I.to), Head(I.to))
           left == Under(1)
<1>1. At({"switch"}) /\ EndBlock(is, "switch", uses, I.keys, targets, left, next)
  BY DEF Switch
<1>2. /\ I.op \in {"switch"} /\ IsInstruction(I) /\ pc # 0 /\ IsSeq(stack) /\ next \in Nat \ {0}
      /\ ~(Len(stack) < Pops(I)) /\ Len(stack) \in Nat
      /\ \A k \in 1 .. Len(stack) : Top(k).value \in Held
  BY <1>1, Finds
<1>3. IsSeq(I.to) /\ I.to # <<>>
  BY <1>2 DEF IsInstruction, IsSeq
<1>4. IsSeq(targets) /\ ToSet(targets) = ToSet(I.to)
  <2>1. IsSeq(Tail(I.to)) /\ ToSet(I.to) = {Head(I.to)} \cup ToSet(Tail(I.to))
    BY <1>3, HeadOf
  <2> QED BY <2>1, Appended
<1>5. 1 <= Len(stack)
  BY <1>2, PopsOf
<1>6. IsSeq(left) /\ ToSet(left) \subseteq ToSet(stack)
  BY <1>2, <1>5, UnderPart
<1>7. Top(1).value \in Held
  BY <1>2, <1>5
<1>8. Emits(Held, is, next, next) /\ ToSet(uses) \subseteq Held \cup Defined(is)
  BY <1>2, <1>7, EmitsNothing, TupleSets
<1>9. "switch" \in Terminators /\ {"switch"} \cap Normal = {}
  BY Classes DEF Terminators
<1>10. StraightCode(code) => ToSet(targets) = ToSet(Successors(code, Head(order)))
  <2> SUFFICES ASSUME StraightCode(code) PROVE ToSet(targets) = ToSet(Successors(code, Head(order)))
    OBVIOUS
  <2>1. pc = End(code, Head(order)) - 1
    BY <1>1, <1>9, BranchIsLast
  <2> QED BY <1>2, <1>4, <2>1, SuccessorsOf DEF I
<1> HIDE DEF is, uses, targets, left
<1> QED BY <1>1, <1>2, <1>4, <1>6, <1>8, <1>9, <1>10, EndStep

\* No edge.
LEMMA ReturnKeeps == ASSUME Planned(code), LowerNow, Return PROVE LowerNow'
<1> DEFINE is == <<>>
           uses == IF I.op = "xreturn" THEN <<Top(1).value>> ELSE <<>>
           keys == <<>>
           targets == <<>>
           left == Under(Pops(I))
<1>1. At(Returns) /\ EndBlock(is, I.op, uses, keys, targets, left, next)
  BY DEF Return
<1>2. /\ I.op \in Returns /\ pc # 0 /\ IsSeq(stack) /\ next \in Nat \ {0}
      /\ ~(Len(stack) < Pops(I)) /\ Len(stack) \in Nat
      /\ \A k \in 1 .. Len(stack) : Top(k).value \in Held
  BY <1>1, Finds
<1>3. Pops(I) = IF I.op = "xreturn" THEN 1 ELSE 0
  <2>1. I.op = "xreturn" \/ I.op = "return"
    BY <1>2 DEF Returns
  <2> QED BY <2>1, PopsOf
<1>4. Pops(I) \in Nat /\ Pops(I) <= Len(stack)
  BY <1>2, <1>3
<1>5. IsSeq(left) /\ ToSet(left) \subseteq ToSet(stack)
  BY <1>2, <1>4, UnderPart
<1>6. ToSet(uses) \subseteq Held
  <2>1. CASE I.op = "xreturn"
    <3>1. Top(1).value \in Held
      BY <1>2, <1>3, <1>4, <2>1
    <3> QED BY <2>1, <3>1, TupleSets
  <2>2. CASE I.op # "xreturn"
    BY <2>2, SeqEmpty
  <2> QED BY <2>1, <2>2
<1>7. Emits(Held, is, next, next) /\ IsSeq(targets) /\ ToSet(targets) = {}
  BY <1>2, EmitsNothing, SeqEmpty
<1>8. I.op \in Terminators /\ Returns \cap Normal = {}
  BY <1>2, Classes DEF Terminators, Returns
<1>9. StraightCode(code) => ToSet(targets) = ToSet(Successors(code, Head(order)))
  <2> SUFFICES ASSUME StraightCode(code) PROVE ToSet(targets) = ToSet(Successors(code, Head(order)))
    OBVIOUS
  <2>1. pc = End(code, Head(order)) - 1
    BY <1>1, <1>8, BranchIsLast
  <2> QED BY <1>2, <2>1, SuccessorsOf DEF I
<1> HIDE DEF is, uses, keys, targets, left
<1> QED BY <1>1, <1>2, <1>5, <1>6, <1>7, <1>8, <1>9, EndStep

\* The instruction before the next leader ends no block, so the plan falls through too.
LEMMA FallthroughKeeps == ASSUME Planned(code), LowerNow, Fallthrough PROVE LowerNow'
<1> DEFINE is == <<>>
           uses == <<>>
           keys == <<>>
           targets == <<pc>>
           b == Head(order)
<1>1. pc # 0 /\ pc = End(code, b) /\ EndBlock(is, "branch", uses, keys, targets, stack, next)
  BY DEF Fallthrough, AtEnd
<1>2. Sane(code, order, pc, locals, stack, next, instrs, entries)
  BY DEF LowerNow, LowerInv
<1>3. /\ IsSeq(stack) /\ next \in Nat \ {0} /\ order # <<>>
      /\ b \in ToSet(order) /\ ToSet(order) \subseteq Leaders(code)
      /\ pc # b => code[pc - 1].op \in Normal
  BY <1>1, <1>2, HeadOf DEF Sane, InBlock, BlocksLeft
<1>4. pc # b /\ pc \in Nat
  <2> HIDE DEF b
  <2>1. IsSeq(code) /\ Leaders(code) \subseteq DOMAIN code /\ EndsAt(code, b)
    BY <1>3 DEF Planned
  <2>2. b \in 1 .. Len(code) /\ Len(code) \in Nat
    BY <1>3, <2>1, SeqIs
  <2> QED BY <1>1, <2>1, <2>2 DEF EndsAt
<1>5. Successors(code, b) = <<pc>>
  <2> DEFINE last == End(code, b) - 1
  <2>1. last = pc - 1 /\ last + 1 = pc
    BY <1>1, <1>4
  <2>2. code[last].op \in Normal
    BY <1>3, <1>4, <2>1
  <2> QED BY <2>1, <2>2, SuccessorsOf
<1>6. Emits(Held, is, next, next) /\ ToSet(uses) \subseteq Held \cup Defined(is)
  BY <1>3, EmitsNothing, SeqEmpty
<1>7. "branch" \in Terminators /\ IsSeq(targets) /\ ToSet(targets) = ToSet(Successors(code, b))
  BY <1>5, TupleSets DEF Terminators
<1> HIDE DEF is, uses, keys, targets
<1> QED BY <1>1, <1>3, <1>6, <1>7, EndStep

\* The last of one, and of two.
LEMMA LastOfTwo == \A x, y : Len(<<x, y>>) = 2 /\ Last(<<x>>) = x /\ Last(<<x, y>>) = y
BY DEF Last

\* A comparison defines the condition of its branch last.
LEMMA ComparedEmits ==
    ASSUME next \in Nat \ {0}, NEW kind \in {"zero", "pair", "null"}, NEW rel, rel \notin Terminators,
           Top(1).value \in Held, kind = "pair" => Top(2).value \in Held,
           NEW is, is = Compared(kind, rel)
    PROVE  Emits(Held, is, next, next + Len(is)) /\ Last(is).def \in Defined(is)
<1>1. CASE kind = "zero"
  <2> DEFINE i == Ir("constant", next, IntType, <<>>)
             j == Ir(rel, next + 1, BooleanType, <<Top(1).value, next>>)
             s == <<i>>
             t == <<i, j>>
  <2>1. is = t
    BY <1>1 DEF Compared
  <2>2. i.op = "constant" /\ i.def = next /\ i.uses = <<>> /\ i.edges = <<>>
    BY DEF Ir
  <2>3. j.op = rel /\ j.def = next + 1 /\ j.uses = <<Top(1).value, next>> /\ j.edges = <<>>
    BY DEF Ir
  <2>4. i.op \notin Terminators /\ ToSet(i.uses) \subseteq Held
    BY <2>2, SeqEmpty DEF Terminators
  <2>5. ToSet(j.uses) \subseteq Held \cup {next}
    BY <2>3, TupleSets
  <2> HIDE DEF i, j
  <2>6. t = Append(s, j) /\ Len(t) = 2 /\ Last(t) = j
    BY TupleSets, LastOfTwo
  <2> HIDE DEF t
  <2>7. Emits(Held, s, next, next + 1) /\ Defined(s) = {next}
    BY <2>2, <2>4, EmitsOne
  <2> HIDE DEF s
  <2>8. Emits(Held, t, next, (next + 1) + 1) /\ Defined(t) = {next} \cup {next + 1}
    BY <2>3, <2>5, <2>6, <2>7, EmitsOneMore
  <2>9. (next + 1) + 1 = next + 2
    OBVIOUS
  <2> QED BY <2>1, <2>3, <2>6, <2>8, <2>9
<1>2. CASE kind # "zero"
  <2> DEFINE uses == IF kind = "pair" THEN <<Top(2).value, Top(1).value>> ELSE <<Top(1).value>>
             i == Ir(rel, next, BooleanType, uses)
             s == <<i>>
  <2>1. is = s
    BY <1>2 DEF Compared
  <2>2. ToSet(uses) \subseteq Held
    BY TupleSets
  <2>3. i.op = rel /\ i.def = next /\ i.uses = uses /\ i.edges = <<>>
    BY DEF Ir
  <2> HIDE DEF i, uses
  <2>4. Len(s) = 1 /\ Last(s) = i
    BY TupleSets, LastOfTwo
  <2>5. Emits(Held, s, next, next + 1) /\ Defined(s) = {next}
    BY <2>2, <2>3, EmitsOne
  <2> HIDE DEF s
  <2> QED BY <2>1, <2>3, <2>4, <2>5
<1> QED BY <1>1, <1>2

\* A branch pops what it compares.
LEMMA PopsOfBranch ==
    ASSUME NEW i, i.op \in Conditional
    PROVE  Pops(i) = IF BranchOperands[i.op][1] = "pair" THEN 2 ELSE 1
<1> DEFINE two == BranchOperands[i.op][1] = "pair"
<1>1. i.op \notin DOMAIN Rearrange /\ i.op \notin DOMAIN Binary /\ i.op \notin DOMAIN Unary
  BY DEF Conditional, BranchOperands, Rearrange, Binary, Unary
<1>2. /\ i.op \notin {"iaload", "aaload", "saload", "putfield", "iastore", "aastore", "sastore"}
      /\ i.op \notin {"invokestatic", "concat", "invokespecial", "print"}
      /\ i.op \notin {"const", "load", "iinc", "getstatic", "new", "goto", "return"}
  BY DEF Conditional, BranchOperands
<1>3. Pops(i) = IF two THEN 2 ELSE 1
  <2>1. two <=> BranchOperands[i.op][1] = "pair"
    OBVIOUS
  <2> HIDE DEF two
  <2> QED BY <1>1, <1>2, <2>1 DEF Pops
<1> QED BY <1>3

\* The comparison, and the edges to the target and past the branch.
LEMMA IfKeeps == ASSUME Planned(code), LowerNow, If PROVE LowerNow'
<1> DEFINE kind == BranchOperands[I.op][1]
           rel == BranchOperands[I.op][2]
           is == Compared(kind, rel)
           uses == <<Last(is).def>>
           keys == <<>>
           targets == <<I.to[1], pc + 1>>
           left == Under(Pops(I))
           n == next + Len(is)
<1>1. At(Conditional) /\ EndBlock(is, "cond_branch", uses, keys, targets, left, n)
  BY DEF If
<1>2. /\ I.op \in Conditional /\ IsInstruction(I) /\ pc # 0 /\ IsSeq(stack) /\ next \in Nat \ {0}
      /\ ~(Len(stack) < Pops(I)) /\ Len(stack) \in Nat
      /\ \A k \in 1 .. Len(stack) : Top(k).value \in Held
  BY <1>1, Finds
<1>3. kind \in {"zero", "pair", "null"} /\ rel \notin Terminators
  BY <1>2, OpsOf
<1>4. Pops(I) = IF kind = "pair" THEN 2 ELSE 1
  BY <1>2, PopsOfBranch
<1> HIDE DEF kind, rel
<1>5. Pops(I) \in Nat /\ Pops(I) <= Len(stack)
  BY <1>2, <1>4
<1>6. Top(1).value \in Held /\ (kind = "pair" => Top(2).value \in Held)
  BY <1>2, <1>4, <1>5
<1>7. IsSeq(left) /\ ToSet(left) \subseteq ToSet(stack)
  BY <1>2, <1>5, UnderPart
<1>8. Emits(Held, is, next, n) /\ Last(is).def \in Defined(is)
  BY <1>2, <1>3, <1>6, ComparedEmits
<1>9. ToSet(uses) \subseteq Held \cup Defined(is)
  BY <1>8, TupleSets
<1>10. "cond_branch" \in Terminators /\ Conditional \cap Normal = {}
  BY Classes DEF Terminators
<1>11. IsSeq(targets) /\ ToSet(targets) = {I.to[1], pc + 1}
  <2> DEFINE s == <<I.to[1]>>
  <2>1. IsSeq(s) /\ targets = Append(s, pc + 1)
    BY TupleSets
  <2>2. ToSet(targets) = {I.to[1], pc + 1}
    BY TupleSets
  <2> HIDE DEF s, targets
  <2> QED BY <2>1, <2>2, Appended
<1>12. StraightCode(code) => ToSet(targets) = ToSet(Successors(code, Head(order)))
  <2> SUFFICES ASSUME StraightCode(code) PROVE ToSet(targets) = ToSet(Successors(code, Head(order)))
    OBVIOUS
  <2>1. pc = End(code, Head(order)) - 1
    BY <1>1, <1>10, BranchIsLast
  <2>2. Successors(code, Head(order)) = Append(I.to, pc + 1)
    BY <1>2, <2>1, SuccessorsOf DEF I
  <2>3. IsSeq(I.to) /\ Len(I.to) = 1
    BY <1>2 DEF IsInstruction, IsSeq
  <2>4. ToSet(I.to) = {I.to[1]}
    <3>1. DOMAIN I.to = {1}
      BY <2>3, SeqIs
    <3> QED BY <3>1 DEF ToSet
  <2>5. ToSet(Append(I.to, pc + 1)) = ToSet(I.to) \cup {pc + 1}
    BY <2>3, Appended
  <2> QED BY <1>11, <2>2, <2>4, <2>5
<1> HIDE DEF is, uses, keys, targets, left, n
<1> QED BY <1>1, <1>2, <1>7, <1>8, <1>9, <1>10, <1>11, <1>12, EndStep

-----------------------------------------------------------------------------
(* The method. *)

\* A method's parameters are its first values.
LEMMA ParametersMade ==
    ASSUME IsMethod(method)
    PROVE  IsSeq(Parameters) /\ \A k \in DOMAIN Parameters : Parameters[k].value = k
<1> DEFINE this == IF method.static THEN <<>> ELSE <<Object("C")>>
           declared == [k \in DOMAIN method.params |-> IrType(method.params[k])]
           types == this \o declared
           params == [k \in DOMAIN types |-> Typed(k, types[k])]
<1>1. IsSeq(method.params)
  BY DEF IsMethod, IsSeq
<1>2. Len(method.params) \in Nat /\ DOMAIN method.params = 1 .. Len(method.params)
  BY <1>1, SeqIs
<1>3. IsSeq(declared)
  <2>1. /\ DOMAIN declared = 1 .. Len(method.params)
        /\ declared = [k \in 1 .. Len(method.params) |-> declared[k]]
    BY <1>2
  <2> HIDE DEF declared
  <2> QED BY <1>2, <2>1, SeqMade
<1>4. IsSeq(this)
  <2>1. IsSeq(<<>>) /\ IsSeq(<<Object("C")>>)
    BY SeqEmpty, TupleSets
  <2> QED BY <2>1
<1>5. Parameters = params
  BY DEF Parameters
<1> HIDE DEF this, declared
<1>6. DOMAIN types = 1 .. Len(types) /\ Len(types) \in Nat
  BY <1>3, <1>4, Joined, SeqIs
<1> HIDE DEF types
<1>7. \A k \in DOMAIN params : params[k].value = k
  BY DEF Typed
<1>8. DOMAIN params = 1 .. Len(types) /\ params = [k \in 1 .. Len(types) |-> params[k]]
  BY <1>6
<1> HIDE DEF params
<1>9. IsSeq(params)
  BY <1>6, <1>8, SeqMade
<1> QED BY <1>5, <1>7, <1>9

\* Before its code is lowered a method has no frame, and nothing was lowered.
Unstarted == stack = <<>> /\ DOMAIN entries = {} /\ DOMAIN blocks = {}

\* The invariant: the walk of the blocks, then their lowering, and no reason to reject before.
LoweringInv ==
    /\ IsMethod(method)
    /\ phase \in {"plan", "walk"} => Unstarted
    /\ phase = "plan" => order = <<>>
    /\ phase = "walk" => Planned(code) /\ WalkInv(code, path, visited, order)
    /\ phase = "lower" => Planned(code) /\ LowerNow
    /\ phase # "rejected" => reason = ""
    /\ OnlyTypesRefused

\* The invariant holds of a method before its plan.
LEMMA InitLowering == Init => LoweringInv
<1> SUFFICES ASSUME Init PROVE LoweringInv
  OBVIOUS
<1>1. phase = "plan" /\ reason = "" /\ order = <<>> /\ stack = <<>>
      /\ entries = [b \in {} |-> <<>>] /\ blocks = [b \in {} |-> <<>>]
  BY DEF Init
<1>2. IsMethod(method)
  BY MethodsAssumption DEF Init
<1>3. Unstarted
  BY <1>1 DEF Unstarted
<1>4. OnlyTypesRefused
  BY <1>1 DEF OnlyTypesRefused
<1> QED BY <1>1, <1>2, <1>3, <1>4 DEF LoweringInv

\* A step of the lowering of the blocks.
LEMMA LowersOn ==
    ASSUME LoweringInv, phase = "lower", phase' = phase, method' = method, reason' = reason, LowerNow'
    PROVE  LoweringInv'
<1>1. IsMethod(method) /\ Planned(code) /\ reason = ""
  BY DEF LoweringInv
<1>2. code' = code
  BY DEF code
<1>3. OnlyTypesRefused'
  BY <1>1 DEF OnlyTypesRefused
<1> QED BY <1>1, <1>2, <1>3 DEF LoweringInv

\* The plan is made, and the walk starts.
LEMMA PlanStep == ASSUME LoweringInv, Plan PROVE LoweringInv'
<1>1. /\ phase = "plan" /\ ~Unplanned /\ phase' = "walk" /\ path' = <<<<1, 1>>>> /\ visited' = {1}
      /\ method' = method /\ reason' = reason /\ order' = order
      /\ stack' = stack /\ entries' = entries /\ blocks' = blocks
  BY DEF Plan, lowerVars, frame
<1>2. IsMethod(method) /\ order = <<>> /\ reason = "" /\ Unstarted
  BY <1>1 DEF LoweringInv
<1>3. Planned(code) /\ code' = code
  BY <1>1, <1>2, PlanMade DEF code
<1>4. WalkInv(code, <<<<1, 1>>>>, {1}, <<>>)
  BY <1>3, WalkBegins
<1>5. Unstarted' /\ OnlyTypesRefused'
  BY <1>1, <1>2 DEF Unstarted, OnlyTypesRefused
<1>6. WalkInv(code', path', visited', order')
  BY <1>1, <1>2, <1>3, <1>4, Zenon
<1> QED BY <1>1, <1>2, <1>3, <1>5, <1>6 DEF LoweringInv

\* The path goes on from its last block.
LEMMA VisitStep == ASSUME LoweringInv, Visit PROVE LoweringInv'
<1> DEFINE block == Last(path)[1]
           child == Last(path)[2]
           on == <<block, child + 1>>
           stay == Append(Front(path), on)
           b == Successors(code, block)[child]
           at == <<b, 1>>
<1>1. /\ phase = "walk" /\ path # <<>> /\ child <= Len(Successors(code, block))
      /\ IF b \in visited THEN path' = stay /\ visited' = visited
         ELSE path' = Append(stay, at) /\ visited' = visited \cup {b}
      /\ method' = method /\ phase' = phase /\ reason' = reason /\ order' = order
      /\ stack' = stack /\ entries' = entries /\ blocks' = blocks
  BY DEF Visit, lowerVars, frame
<1>2. /\ IsMethod(method) /\ reason = "" /\ Unstarted
      /\ Planned(code) /\ WalkInv(code, path, visited, order) /\ code' = code
  BY <1>1 DEF LoweringInv, code
<1>3. Onward(path, block, child, stay)
  <2>1. on[1] = block /\ on[2] = child + 1
    OBVIOUS
  <2>2. stay = Append(SubSeq(path, 1, Len(path) - 1), on)
    BY DEF Front
  <2>3. block = path[Len(path)][1] /\ child = path[Len(path)][2]
    BY DEF Last
  <2> HIDE DEF on, stay, block, child
  <2> QED BY <2>1, <2>2, <2>3 DEF Onward
<1>4. StartsOn(at, b)
  BY DEF StartsOn
<1> HIDE DEF stay, at
<1>5. WalkInv(code, path', visited', order)
  <2>1. CASE b \in visited
    <3>1. WalkInv(code, stay, visited, order)
      BY <1>1, <1>2, <1>3, <2>1, WalkStays
    <3> QED BY <1>1, <2>1, <3>1
  <2>2. CASE b \notin visited
    <3>1. WalkInv(code, Append(stay, at), visited \cup {b}, order)
      <4> DEFINE d == b
      <4>1. d = Successors(code, block)[child] /\ StartsOn(at, d) /\ d \notin visited
        BY <1>4, <2>2
      <4> HIDE DEF d, block, child
      <4>2. WalkInv(code, Append(stay, at), visited \cup {d}, order)
        BY <1>1, <1>2, <1>3, <4>1, WalkEnters
      <4> QED BY <4>1, <4>2
    <3> QED BY <1>1, <2>2, <3>1
  <2> QED BY <2>1, <2>2
<1>6. Unstarted' /\ OnlyTypesRefused'
  BY <1>1, <1>2 DEF Unstarted, OnlyTypesRefused
<1> HIDE DEF block, child, b
<1>7. WalkInv(code', path', visited', order')
  BY <1>1, <1>2, <1>5, Zenon
<1> QED BY <1>1, <1>2, <1>6, <1>7 DEF LoweringInv

\* A block whose successors were all visited is left.
LEMMA LeaveStep == ASSUME LoweringInv, Leave PROVE LoweringInv'
<1> DEFINE block == Last(path)[1]
           q == Front(path)
           u == Append(order, block)
<1>1. /\ phase = "walk" /\ path # <<>> /\ Last(path)[2] > Len(Successors(code, block))
      /\ path' = q /\ order' = u
      /\ method' = method /\ phase' = phase /\ reason' = reason /\ visited' = visited
      /\ stack' = stack /\ entries' = entries /\ blocks' = blocks
  BY DEF Leave, lowerVars, frame
<1>2. /\ IsMethod(method) /\ reason = "" /\ Unstarted
      /\ Planned(code) /\ WalkInv(code, path, visited, order) /\ code' = code
  BY <1>1 DEF LoweringInv, code
<1>3. block = path[Len(path)][1] /\ path[Len(path)][2] > Len(Successors(code, block))
  BY <1>1 DEF Last
<1>4. q = SubSeq(path, 1, Len(path) - 1) /\ u = Append(order, block)
  BY DEF Front
<1> HIDE DEF block, q, u
<1>5. WalkInv(code, q, visited, u)
  BY <1>1, <1>2, <1>3, <1>4, WalkLeaves
<1>6. Unstarted' /\ OnlyTypesRefused'
  BY <1>1, <1>2 DEF Unstarted, OnlyTypesRefused
<1>7. WalkInv(code', path', visited', order')
  BY <1>1, <1>2, <1>5, Zenon
<1> QED BY <1>1, <1>2, <1>6, <1>7 DEF LoweringInv

\* The blocks are in order, and the entry's block starts.
LEMMA SeedStep == ASSUME LoweringInv, Seed PROVE LoweringInv'
<1> DEFINE P == Parameters
           is == [k \in DOMAIN P |-> [Ir("param", k, P[k].type, <<>>) EXCEPT !.n = k - 1]]
           L == [s \in 0 .. Len(P) - 1 |-> P[s + 1]]
           r == Reverse(order)
<1>1. /\ phase = "walk" /\ path = <<>> /\ phase' = "lower" /\ order' = r /\ pc' = 1
      /\ locals' = L /\ next' = Len(P) + 1 /\ instrs' = is
      /\ method' = method /\ reason' = reason /\ visited' = visited
      /\ stack' = stack /\ entries' = entries /\ blocks' = blocks
  BY DEF Seed, walk, ReversePostorder
<1>2. /\ IsMethod(method) /\ reason = "" /\ Unstarted
      /\ Planned(code) /\ WalkInv(code, path, visited, order)
  BY <1>1 DEF LoweringInv
<1>3. code' = code /\ Parameters' = P
  BY <1>1 DEF code, Parameters
<1>4. IsSeq(P) /\ \A k \in DOMAIN P : P[k].value = k
  BY <1>2, ParametersMade
<1>5. Ordered(code, visited, r)
  BY <1>1, <1>2, WalkEnds
<1>6. /\ DOMAIN is = DOMAIN P /\ is = [k \in DOMAIN P |-> is[k]]
      /\ \A k \in DOMAIN is : is[k].op = "param" /\ is[k].def = k /\ is[k].uses = <<>> /\ is[k].edges = <<>>
  BY DEF Ir
<1>7. stack = <<>> /\ DOMAIN entries = {} /\ DOMAIN blocks = {}
  BY <1>2 DEF Unstarted
<1>8. L = [s \in 0 .. Len(P) - 1 |-> P[s + 1]]
  OBVIOUS
<1> HIDE DEF is, L, r, P
<1>9. LowerInv(code, visited, Len(P), r, 1, L, <<>>, Len(P) + 1, is, entries, blocks)
  BY <1>2, <1>4, <1>5, <1>6, <1>7, <1>8, SeedMakes
<1>10. LowerNow'
  BY <1>1, <1>3, <1>7, <1>9, Zenon DEF LowerNow
<1>11. OnlyTypesRefused'
  BY <1>1, <1>2 DEF OnlyTypesRefused
<1> QED BY <1>1, <1>2, <1>3, <1>10, <1>11 DEF LoweringInv

\* The next block starts with the frame of its entry.
LEMMA NextBlockStep == ASSUME LoweringInv, NextBlock PROVE LoweringInv'
<1> DEFINE e == entries[Head(order)]
           M == Restored(e)
           T == SubSeq(e.params, Len(e.slots) + 1, Len(e.params))
<1>1. /\ phase = "lower" /\ pc = 0 /\ order # <<>> /\ Head(order) \in DOMAIN entries
      /\ locals' = M /\ stack' = T /\ pc' = Head(order)
      /\ method' = method /\ phase' = phase /\ reason' = reason /\ visited' = visited /\ order' = order
      /\ next' = next /\ instrs' = instrs /\ entries' = entries /\ blocks' = blocks
  BY DEF NextBlock, walk
<1>2. /\ Planned(code)
      /\ LowerInv(code, visited, Len(Parameters), order, 0, locals, stack, next, instrs, entries, blocks)
  BY <1>1 DEF LoweringInv, LowerNow
<1>3. code' = code /\ Parameters' = Parameters
  BY <1>1 DEF code, Parameters
<1>4. e = entries[Head(order)] /\ M = Restored(e) /\ T = SubSeq(e.params, Len(e.slots) + 1, Len(e.params))
  OBVIOUS
<1> HIDE DEF e, M, T
<1>5. LowerInv(code, visited, Len(Parameters), order, Head(order), M, T, next, instrs, entries, blocks)
  BY <1>1, <1>2, <1>4, EnterKeeps
<1>6. LowerNow'
  BY <1>1, <1>3, <1>5, Zenon DEF LowerNow
<1> QED BY <1>1, <1>6, LowersOn

\* What was lowered passes the verifier.
LEMMA FinishStep == ASSUME LoweringInv, Finish PROVE LoweringInv'
<1>1. phase = "lower" /\ phase' = "lowered" /\ method' = method /\ reason' = reason
  BY DEF Finish
<1>2. IsMethod(method) /\ reason = ""
  BY <1>1 DEF LoweringInv
<1>3. OnlyTypesRefused'
  BY <1>1, <1>2 DEF OnlyTypesRefused
<1> QED BY <1>1, <1>2, <1>3 DEF LoweringInv

\* Why the lowering of a method fails.
LEMMA Failures ==
    /\ Failure = "frame" => phase = "lower" /\ pc = 0 /\ order # <<>> /\ Head(order) \notin DOMAIN entries
    /\ Failure = "verify" => phase = "lower" /\ pc = 0 /\ order = <<>>
<1> DEFINE known == Head(order) \in DOMAIN entries
           verified == Verified(Function)
           refused == Refused(I)
           unmergeable == Unmergeable
           unplanned == Unplanned
           atEnd == AtEnd
<1>1. Failure = CASE phase = "plan" /\ unplanned -> "plan"
                  [] phase = "lower" /\ pc = 0 /\ order # <<>> /\ ~known -> "frame"
                  [] phase = "lower" /\ pc = 0 /\ order = <<>> /\ ~verified -> "verify"
                  [] phase = "lower" /\ pc # 0 /\ ~atEnd /\ refused -> "opcode"
                  [] phase = "lower" /\ pc # 0 /\ (atEnd \/ ~refused) /\ unmergeable -> "merge"
                  [] OTHER -> ""
  BY DEF Failure
<1> HIDE DEF known, verified, refused, unmergeable, unplanned, atEnd
<1>2. /\ Failure = "frame" => phase = "lower" /\ pc = 0 /\ order # <<>> /\ ~known
      /\ Failure = "verify" => phase = "lower" /\ pc = 0 /\ order = <<>>
  BY <1>1
<1> QED BY <1>2 DEF known

\* Straight code is not rejected for its order, nor for what the verifier requires but types.
LEMMA RejectStep == ASSUME LoweringInv, Reject PROVE LoweringInv'
<1>1. /\ phase' = "rejected" /\ reason' = Failure /\ method' = method /\ blocks' = blocks
  BY DEF Reject, lowerVars
<1>2. IsMethod(method)
  BY DEF LoweringInv
<1>3. code' = code /\ Straight' = Straight /\ Function' = Function
  BY <1>1 DEF code, Straight, Function, Parameters
<1>4. ASSUME Straight PROVE Failure # "frame" /\ (Failure = "verify" => WellFormed(Function))
  <2>1. StraightCode(code)
    BY <1>4 DEF Straight, StraightCode
  <2>2. phase = "lower" => LowerNow
    BY DEF LoweringInv
  <2>3. Failure # "frame"
    <3> SUFFICES ASSUME Failure = "frame" PROVE FALSE
      OBVIOUS
    <3>1. phase = "lower" /\ pc = 0 /\ order # <<>> /\ Head(order) \notin DOMAIN entries
      BY Failures
    <3>2. LowerInv(code, visited, Len(Parameters), order, 0, locals, stack, next, instrs, entries, blocks)
      BY <2>2, <3>1 DEF LowerNow
    <3> QED BY <2>1, <3>1, <3>2, NextIsKnown
  <2>4. ASSUME Failure = "verify" PROVE WellFormed(Function)
    <3>1. phase = "lower" /\ pc = 0 /\ order = <<>>
      BY <2>4, Failures
    <3> DEFINE P == Parameters
    <3>2. LowerInv(code, visited, Len(P), order, 0, locals, stack, next, instrs, entries, blocks)
      BY <2>2, <3>1 DEF LowerNow
    <3>3. IsSeq(P) /\ \A k \in DOMAIN P : P[k].value = k
      BY <1>2, ParametersMade
    <3> DEFINE fn == Function
    <3>4. fn.params = P /\ fn.blocks = blocks
      BY DEF Function
    <3> HIDE DEF P, fn
    <3>5. WellFormed(fn)
      BY <2>1, <3>1, <3>2, <3>3, <3>4, LoweredWellFormed
    <3> QED BY <3>5 DEF fn
  <2> QED BY <2>3, <2>4
<1>5. OnlyTypesRefused'
  <2>1. (WellFormed(Function))' <=> WellFormed(Function)
    BY <1>3
  <2> QED BY <1>1, <1>3, <1>4, <2>1 DEF OnlyTypesRefused
<1> QED BY <1>1, <1>2, <1>5 DEF LoweringInv

\* Every step keeps the invariant.
LEMMA NextLowering == LoweringInv /\ [Lower]_vars => LoweringInv'
<1> SUFFICES ASSUME LoweringInv, [Lower]_vars PROVE LoweringInv'
  OBVIOUS
<1>1. phase = "lower" => Planned(code) /\ LowerNow
  BY DEF LoweringInv
<1>2. CASE Plan
  BY <1>2, PlanStep
<1>3. CASE Visit
  BY <1>3, VisitStep
<1>4. CASE Leave
  BY <1>4, LeaveStep
<1>5. CASE Seed
  BY <1>5, SeedStep
<1>6. CASE NextBlock
  BY <1>6, NextBlockStep
<1>7. CASE Finish
  BY <1>7, FinishStep
<1>8. CASE Reject
  BY <1>8, RejectStep
<1>9. CASE Constant
  <2>1. phase = "lower" /\ phase' = phase /\ method' = method /\ reason' = reason
    BY <1>9 DEF Constant, At, Emit
  <2> QED BY <1>1, <1>9, <2>1, ConstantKeeps, LowersOn
<1>10. CASE Load
  <2>1. phase = "lower" /\ phase' = phase /\ method' = method /\ reason' = reason
    BY <1>10 DEF Load, At, Emit
  <2> QED BY <1>1, <1>10, <2>1, LoadKeeps, LowersOn
<1>11. CASE Store
  <2>1. phase = "lower" /\ phase' = phase /\ method' = method /\ reason' = reason
    BY <1>11 DEF Store, At, Emit
  <2> QED BY <1>1, <1>11, <2>1, StoreKeeps, LowersOn
<1>12. CASE Increment
  <2>1. phase = "lower" /\ phase' = phase /\ method' = method /\ reason' = reason
    BY <1>12 DEF Increment, At, Emit
  <2> QED BY <1>1, <1>12, <2>1, IncrementKeeps, LowersOn
<1>13. CASE Rearranged
  <2>1. phase = "lower" /\ phase' = phase /\ method' = method /\ reason' = reason
    BY <1>13 DEF Rearranged, At, Emit
  <2> QED BY <1>1, <1>13, <2>1, RearrangedKeeps, LowersOn
<1>14. CASE Arithmetic
  <2>1. phase = "lower" /\ phase' = phase /\ method' = method /\ reason' = reason
    BY <1>14 DEF Arithmetic, At, Emit
  <2> QED BY <1>1, <1>14, <2>1, ArithmeticKeeps, LowersOn
<1>15. CASE UnaryOp
  <2>1. phase = "lower" /\ phase' = phase /\ method' = method /\ reason' = reason
    BY <1>15 DEF UnaryOp, At, Emit
  <2> QED BY <1>1, <1>15, <2>1, UnaryOpKeeps, LowersOn
<1>16. CASE NewArray
  <2>1. phase = "lower" /\ phase' = phase /\ method' = method /\ reason' = reason
    BY <1>16 DEF NewArray, At, Emit
  <2> QED BY <1>1, <1>16, <2>1, NewArrayKeeps, LowersOn
<1>17. CASE ArrayLength
  <2>1. phase = "lower" /\ phase' = phase /\ method' = method /\ reason' = reason
    BY <1>17 DEF ArrayLength, At, Emit
  <2> QED BY <1>1, <1>17, <2>1, ArrayLengthKeeps, LowersOn
<1>18. CASE ArrayLoad
  <2>1. phase = "lower" /\ phase' = phase /\ method' = method /\ reason' = reason
    BY <1>18 DEF ArrayLoad, At, Emit
  <2> QED BY <1>1, <1>18, <2>1, ArrayLoadKeeps, LowersOn
<1>19. CASE ArrayStore
  <2>1. phase = "lower" /\ phase' = phase /\ method' = method /\ reason' = reason
    BY <1>19 DEF ArrayStore, At, Emit
  <2> QED BY <1>1, <1>19, <2>1, ArrayStoreKeeps, LowersOn
<1>20. CASE GetStatic
  <2>1. phase = "lower" /\ phase' = phase /\ method' = method /\ reason' = reason
    BY <1>20 DEF GetStatic, At, Emit
  <2> QED BY <1>1, <1>20, <2>1, GetStaticKeeps, LowersOn
<1>21. CASE PutStatic
  <2>1. phase = "lower" /\ phase' = phase /\ method' = method /\ reason' = reason
    BY <1>21 DEF PutStatic, At, Emit
  <2> QED BY <1>1, <1>21, <2>1, PutStaticKeeps, LowersOn
<1>22. CASE GetField
  <2>1. phase = "lower" /\ phase' = phase /\ method' = method /\ reason' = reason
    BY <1>22 DEF GetField, At, Emit
  <2> QED BY <1>1, <1>22, <2>1, GetFieldKeeps, LowersOn
<1>23. CASE PutField
  <2>1. phase = "lower" /\ phase' = phase /\ method' = method /\ reason' = reason
    BY <1>23 DEF PutField, At, Emit
  <2> QED BY <1>1, <1>23, <2>1, PutFieldKeeps, LowersOn
<1>24. CASE New
  <2>1. phase = "lower" /\ phase' = phase /\ method' = method /\ reason' = reason
    BY <1>24 DEF New, At, Emit
  <2> QED BY <1>1, <1>24, <2>1, NewKeeps, LowersOn
<1>25. CASE CheckCast
  <2>1. phase = "lower" /\ phase' = phase /\ method' = method /\ reason' = reason
    BY <1>25 DEF CheckCast, At, Emit
  <2> QED BY <1>1, <1>25, <2>1, CheckCastKeeps, LowersOn
<1>26. CASE InstanceOf
  <2>1. phase = "lower" /\ phase' = phase /\ method' = method /\ reason' = reason
    BY <1>26 DEF InstanceOf, At, Emit
  <2> QED BY <1>1, <1>26, <2>1, InstanceOfKeeps, LowersOn
<1>27. CASE Call
  <2>1. phase = "lower" /\ phase' = phase /\ method' = method /\ reason' = reason
    BY <1>27 DEF Call, At, Emit
  <2> QED BY <1>1, <1>27, <2>1, CallKeeps, LowersOn
<1>28. CASE PrintCall
  <2>1. phase = "lower" /\ phase' = phase /\ method' = method /\ reason' = reason
    BY <1>28 DEF PrintCall, At, Emit
  <2> QED BY <1>1, <1>28, <2>1, PrintCallKeeps, LowersOn
<1>29. CASE Concat
  <2>1. phase = "lower" /\ phase' = phase /\ method' = method /\ reason' = reason
    BY <1>29 DEF Concat, At, Emit
  <2> QED BY <1>1, <1>29, <2>1, ConcatKeeps, LowersOn
<1>30. CASE If
  <2>1. phase = "lower" /\ phase' = phase /\ method' = method /\ reason' = reason
    BY <1>30 DEF If, At, EndBlock
  <2> QED BY <1>1, <1>30, <2>1, IfKeeps, LowersOn
<1>31. CASE Goto
  <2>1. phase = "lower" /\ phase' = phase /\ method' = method /\ reason' = reason
    BY <1>31 DEF Goto, At, EndBlock
  <2> QED BY <1>1, <1>31, <2>1, GotoKeeps, LowersOn
<1>32. CASE Switch
  <2>1. phase = "lower" /\ phase' = phase /\ method' = method /\ reason' = reason
    BY <1>32 DEF Switch, At, EndBlock
  <2> QED BY <1>1, <1>32, <2>1, SwitchKeeps, LowersOn
<1>33. CASE Return
  <2>1. phase = "lower" /\ phase' = phase /\ method' = method /\ reason' = reason
    BY <1>33 DEF Return, At, EndBlock
  <2> QED BY <1>1, <1>33, <2>1, ReturnKeeps, LowersOn
<1>34. CASE Fallthrough
  <2>1. phase = "lower" /\ phase' = phase /\ method' = method /\ reason' = reason
    BY <1>34 DEF Fallthrough, AtEnd, EndBlock
  <2> QED BY <1>1, <1>34, <2>1, FallthroughKeeps, LowersOn
<1>35. CASE UNCHANGED vars
  <2>1. /\ method' = method /\ phase' = phase /\ reason' = reason /\ path' = path /\ visited' = visited
        /\ order' = order /\ pc' = pc /\ locals' = locals /\ stack' = stack /\ next' = next
        /\ instrs' = instrs /\ entries' = entries /\ blocks' = blocks
    BY <1>35 DEF vars, walk
  <2>2. code' = code /\ Parameters' = Parameters
    BY <2>1 DEF code, Parameters
  <2>3. Unstarted' <=> Unstarted
    BY <2>1 DEF Unstarted
  <2>4. LowerNow' <=> LowerNow
    BY <2>1, <2>2, Zenon DEF LowerNow
  <2>5. Straight' = Straight /\ Function' = Function
    BY <2>1, <2>2 DEF Straight, Function
  <2>6. OnlyTypesRefused'
    BY <2>1, <2>5 DEF OnlyTypesRefused, LoweringInv
  <2>7. WalkInv(code', path', visited', order') <=> WalkInv(code, path, visited, order)
    BY <2>1, <2>2, Zenon
  <2> QED BY <2>1, <2>2, <2>3, <2>4, <2>6, <2>7 DEF LoweringInv
<1> QED
  BY <1>2, <1>3, <1>4, <1>5, <1>6, <1>7, <1>8, <1>9, <1>10, <1>11, <1>12, <1>13,
     <1>14, <1>15, <1>16, <1>17, <1>18, <1>19, <1>20, <1>21, <1>22, <1>23, <1>24, <1>25,
     <1>26, <1>27, <1>28, <1>29, <1>30, <1>31, <1>32, <1>33, <1>34, <1>35
  DEF Lower

\* The invariant of the lowering of a method.
THEOREM LoweringInvariant == LowerSpec => []LoweringInv
<1>1. Init => LoweringInv
  BY InitLowering
<1>2. LoweringInv /\ [Lower]_vars => LoweringInv'
  BY NextLowering
<1> QED BY <1>1, <1>2, PTL DEF LowerSpec

\* While a block is lowered, its locals and its operand stack only hold values that the block
\* takes as a parameter or has defined (lower/state.rs), whatever the method.
THEOREM FramesHoldTheirValues == LowerSpec => []FrameInScope
<1>1. LoweringInv => FrameInScope
  <2> SUFFICES ASSUME LoweringInv, phase = "lower", pc # 0 PROVE FrameInScope
    BY DEF FrameInScope
  <2>1. FrameValues(locals, stack) \subseteq Given(entries, Head(order)) \cup Defined(instrs)
    BY DEF LoweringInv, LowerNow, LowerInv, Sane, InBlock
  <2>2. \A v \in ToSet(stack) \cup {locals[s] : s \in DOMAIN locals} :
          v.value \in Given(entries, Head(order)) \/ v.value \in Defined(instrs)
    BY <2>1 DEF FrameValues
  <2>3. \A v : v \in Given(entries, Head(order)) =>
          Head(order) # 1 /\ v \in {p.value : p \in ToSet(entries[Head(order)].params)}
    BY DEF Given
  <2> QED BY <2>2, <2>3 DEF FrameInScope, Defined
<1> QED BY <1>1, LoweringInvariant, PTL

\* Of code without dead instructions, every block but the entry is reached before it is lowered,
\* and what is built is in SSA form, its blocks terminated and its edges complete: whatever the
\* method, the verifier only ever objects to types (lower/bytecode.rs, ir_verify.rs).
THEOREM StraightCodeIsWellFormed == LowerSpec => []OnlyTypesRefused
<1>1. LoweringInv => OnlyTypesRefused
  BY DEF LoweringInv
<1> QED BY <1>1, LoweringInvariant, PTL
=============================================================================
