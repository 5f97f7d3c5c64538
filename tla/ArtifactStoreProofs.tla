-------------------------- MODULE ArtifactStoreProofs --------------------------
(***************************************************************************)
(* Proofs about the artifact store: its six safety properties, for any     *)
(* processes, snapshot names and commands.  The inductive invariant        *)
(* StoreInv says at every step what the properties say of a store that is  *)
(* quiet.  Its parts, one section each:                                    *)
(*   types, the places of a command, numbers and meetings;                 *)
(*   what a writer that met no other did to the manifest stays done;       *)
(*   the benchmark reports are the runs';                                  *)
(*   who can cost the manifest;                                            *)
(*   among writers of which no two met (Peace): what the manifest and the  *)
(*   copies of it record is what is on the disk, and what that gives runs  *)
(*   from a snapshot and inspect --verify.                                 *)
(* For each part: Init has it, a Start keeps it, a step of Work keeps it.  *)
(***************************************************************************)
EXTENDS ArtifactStore, TLAPS

-----------------------------------------------------------------------------
(* Types.                                                                  *)

LEMMA CommandFields ==
    ASSUME NEW c \in Command
    PROVE  /\ c.op \in {"build", "run", "snapshot", "inspect"}
           /\ c.op = "build" => c.force \in BOOLEAN
           /\ c.op = "run" => /\ c.from \in Names \cup {NoName} /\ c.iterations \in Nat \ {0}
                              /\ c.once \in BOOLEAN /\ c.record \in BOOLEAN
           /\ c.op = "snapshot" => c.name \in Names /\ c.verify \in BOOLEAN
BY DEF Command

LEMMA TypeInit == Init => TypeOK
<1> SUFFICES ASSUME Init PROVE TypeOK
  OBVIOUS
<1> USE DEF Init
<1>1. MaxCommands \in Nat
  BY StoreAssumption DEF StoreAssumption
<1>2. 0 \in Version
  BY <1>1 DEF Version
<1>3. NoRecord \in Record /\ Blank \in Manifest
  BY <1>2 DEF NoRecord, Record, Blank, Manifest
<1>4. [op |-> "inspect", verify |-> FALSE, json |-> FALSE] \in Command
  BY DEF Command
<1>5. meta \in Manifest \cup Unreadable /\ inode \in Nat /\ dir \in BOOLEAN /\ app \in Version
  BY <1>2 DEF Unreadable
<1>6. mem \in [Names -> Version] /\ vmstate \in [Names -> Version] /\ started \in Version
  BY <1>2
<1>7. pc \in [Procs -> Labels] /\ cmd \in [Procs -> Command] /\ id \in [Procs -> Version]
  BY <1>2, <1>4 DEF Labels
<1>8. /\ loaded \in [Procs -> Manifest] /\ fd \in [Procs -> Nat]
      /\ measured \in [Procs -> Nat] /\ restored \in [Procs -> Record]
  BY <1>3
<1>9. /\ done \subseteq [id : Version, cmd : Command, how : {"ok", "bad", "cut"}, at : Labels]
      /\ emptied \in Version /\ met \subseteq SUBSET Version
  BY <1>2
<1> QED BY <1>5, <1>6, <1>7, <1>8, <1>9 DEF TypeOK

Ended == [id : Version, cmd : Command, how : {"ok", "bad", "cut"}, at : Labels]

\* How a step of p may change where p is and what has ended.
LEMMA GotoType ==
    ASSUME TypeOK, NEW p \in Procs, NEW l \in Labels, Goto(p, l)
    PROVE  pc' \in [Procs -> Labels] /\ done' \subseteq Ended
BY DEF TypeOK, Goto, Ended

LEMMA EndType ==
    ASSUME TypeOK, NEW p \in Procs, NEW how \in {"ok", "bad", "cut"}, End(p, how)
    PROVE  pc' \in [Procs -> Labels] /\ done' \subseteq Ended
<1>1. [id |-> id[p], cmd |-> cmd[p], how |-> how, at |-> pc[p]] \in Ended
  BY DEF TypeOK, Ended
<1>2. "idle" \in Labels
  BY DEF Labels
<1> QED BY <1>1, <1>2 DEF TypeOK, End, Ended

LEMMA FilesType == ASSUME TypeOK, NEW s \in Names PROVE Files(s) \in Record
BY DEF TypeOK, Files, Record

DiskType ==
    /\ meta \in Manifest \cup Unreadable
    /\ inode \in Nat /\ dir \in BOOLEAN /\ app \in Version
    /\ mem \in [Names -> Version] /\ vmstate \in [Names -> Version]

ProcType ==
    /\ cmd \in [Procs -> Command]
    /\ id \in [Procs -> Version]
    /\ loaded \in [Procs -> Manifest]
    /\ fd \in [Procs -> Nat]
    /\ measured \in [Procs -> Nat]
    /\ restored \in [Procs -> Record]

HistoryType ==
    /\ started \in Version
    /\ pc \in [Procs -> Labels]
    /\ done \subseteq Ended
    /\ emptied \in Version
    /\ met \subseteq SUBSET Version

LEMMA TypeParts == TypeOK <=> DiskType /\ ProcType /\ HistoryType
BY DEF TypeOK, DiskType, ProcType, HistoryType, Ended

LEMMA StartType == ASSUME TypeOK, NEW p \in Procs, Start(p) PROVE TypeOK'
<1> USE DEF Start
<1>0. DiskType /\ ProcType /\ HistoryType
  BY TypeParts
<1>1. started + 1 \in Version /\ 0 \in Version
  BY <1>0, StoreAssumption DEF StoreAssumption, HistoryType, Version
<1>2. PICK c \in Commands : /\ cmd' = [cmd EXCEPT ![p] = c]
                            /\ Goto(p, IF c.op = "build" THEN "exists" ELSE "load")
  OBVIOUS
<1>3. c \in Command
  BY StoreAssumption DEF StoreAssumption
<1>4. NoRecord \in Record /\ Blank \in Manifest
  BY <1>1 DEF NoRecord, Record, Blank, Manifest
<1>5. DiskType'
  BY <1>0 DEF DiskType, diskVars
<1>6. ProcType'
  BY <1>0, <1>1, <1>2, <1>3, <1>4 DEF ProcType
<1>7. pc' \in [Procs -> Labels] /\ done' \subseteq Ended
  BY <1>2, GotoType DEF Labels
<1>8. met' \subseteq SUBSET Version
  <2>1. {{started + 1, id[q]} : q \in {r \in Procs : pc[r] # "idle"}} \subseteq SUBSET Version
    BY <1>0, <1>1 DEF ProcType
  <2> QED BY <1>0, <2>1 DEF HistoryType
<1>9. HistoryType'
  BY <1>0, <1>1, <1>7, <1>8 DEF HistoryType
<1> QED BY <1>5, <1>6, <1>9 DEF TypeOK, DiskType, ProcType, HistoryType, Ended

\* A step of p that starts no command: the history keeps its type when p goes on
\* or ends, and what it leaves alone keeps its own.
Onward(p) == (\E l \in Labels : Goto(p, l)) \/ (\E how \in {"ok", "bad", "cut"} : End(p, how))

LEMMA OnwardCut == ASSUME NEW p \in Procs, Cut(p) PROVE Onward(p)
BY DEF Cut, Onward

LEMMA OnwardEnd ==
    ASSUME NEW p \in Procs, NEW how \in {"ok", "bad", "cut"}, End(p, how) PROVE Onward(p)
BY DEF Onward

LEMMA OnwardGoto == ASSUME NEW p \in Procs, NEW l \in Labels, Goto(p, l) PROVE Onward(p)
BY DEF Onward

LEMMA WorkHistory ==
    ASSUME TypeOK, NEW p \in Procs, Onward(p), emptied' \in Version, UNCHANGED <<started, met>>
    PROVE  HistoryType'
<1>1. pc' \in [Procs -> Labels] /\ done' \subseteq Ended
  <2>1. CASE \E l \in Labels : Goto(p, l)
    BY <2>1, GotoType
  <2>2. CASE \E how \in {"ok", "bad", "cut"} : End(p, how)
    BY <2>2, EndType
  <2> QED BY <2>1, <2>2 DEF Onward
<1> QED BY <1>1, TypeParts DEF HistoryType

LEMMA AllTyped == ASSUME DiskType', ProcType', HistoryType' PROVE TypeOK'
BY DEF TypeOK, DiskType, ProcType, HistoryType, Ended

\* The steps that change neither the disk nor the process's own variables.
LEMMA StillType ==
    ASSUME TypeOK, NEW p \in Procs, Onward(p), UNCHANGED <<diskVars, started, procVars, emptied, met>>
    PROVE  TypeOK'
<1>0. DiskType /\ ProcType /\ HistoryType
  BY TypeParts
<1>1. DiskType' /\ ProcType'
  BY <1>0 DEF DiskType, ProcType, diskVars, procVars
<1>2. HistoryType'
  BY <1>0, WorkHistory DEF HistoryType
<1> QED BY <1>1, <1>2, AllTyped

LEMMA ExistsType == ASSUME TypeOK, NEW p \in Procs, Exists(p), UNCHANGED met PROVE TypeOK'
<1>1. Onward(p)
  BY OnwardCut, OnwardGoto DEF Exists, Labels
<1> QED BY <1>1, StillType DEF Exists

LEMMA ServeType == ASSUME TypeOK, NEW p \in Procs, Serve(p), UNCHANGED met PROVE TypeOK'
<1>1. Onward(p)
  BY OnwardCut, OnwardEnd DEF Serve
<1> QED BY <1>1, StillType DEF Serve

LEMMA CheckType == ASSUME TypeOK, NEW p \in Procs, Check(p), UNCHANGED met PROVE TypeOK'
<1>1. Onward(p)
  BY OnwardCut, OnwardEnd DEF Check
<1> QED BY <1>1, StillType DEF Check

LEMMA GoneType == ASSUME NEW f \in [Names -> Version], NEW g \in Gone(f) PROVE g \in [Names -> Version]
<1>1. 0 \in Version
  BY StoreAssumption DEF StoreAssumption, Version
<1> QED BY <1>1 DEF Gone

LEMMA RemoveType == ASSUME TypeOK, NEW p \in Procs, Remove(p), UNCHANGED met PROVE TypeOK'
<1> USE DEF Remove
<1>0. DiskType /\ ProcType /\ HistoryType
  BY TypeParts
<1>1. Onward(p)
  BY OnwardCut, OnwardGoto DEF Labels
<1>2. 0 \in Version
  BY StoreAssumption DEF StoreAssumption, Version
<1>3. DiskType'
  BY <1>0, <1>2, GoneType DEF DiskType, Unreadable
<1>4. ProcType'
  BY <1>0 DEF ProcType, procVars
<1>5. HistoryType'
  BY <1>0, <1>1, WorkHistory DEF HistoryType
<1> QED BY <1>3, <1>4, <1>5, AllTyped

LEMMA CreateType == ASSUME TypeOK, NEW p \in Procs, Create(p), UNCHANGED met PROVE TypeOK'
<1> USE DEF Create
<1>0. DiskType /\ ProcType /\ HistoryType
  BY TypeParts
<1>1. Onward(p)
  BY OnwardCut, OnwardGoto DEF Labels
<1>2. DiskType' /\ ProcType'
  BY <1>0 DEF DiskType, ProcType, procVars
<1>3. emptied' \in Version
  BY <1>0 DEF HistoryType, ProcType
<1>4. HistoryType'
  BY <1>1, <1>3, WorkHistory
<1> QED BY <1>2, <1>4, AllTyped

LEMMA CompileType == ASSUME TypeOK, NEW p \in Procs, Compile(p), UNCHANGED met PROVE TypeOK'
<1> USE DEF Compile
<1>0. DiskType /\ ProcType /\ HistoryType
  BY TypeParts
<1>1. Onward(p)
  BY OnwardCut, OnwardGoto DEF Labels
<1>2. DiskType' /\ ProcType'
  BY <1>0 DEF DiskType, ProcType, procVars
<1>3. HistoryType'
  BY <1>0, <1>1, WorkHistory DEF HistoryType
<1> QED BY <1>2, <1>3, AllTyped

LEMMA LoadType == ASSUME TypeOK, NEW p \in Procs, Load(p), UNCHANGED met PROVE TypeOK'
<1> USE DEF Load
<1>0. DiskType /\ ProcType /\ HistoryType
  BY TypeParts
<1>1. Onward(p)
  BY OnwardCut, OnwardGoto DEF Labels
<1>2. loaded' \in [Procs -> Manifest]
  BY <1>0 DEF DiskType, ProcType
<1>3. DiskType' /\ ProcType'
  BY <1>0, <1>2 DEF DiskType, ProcType, diskVars
<1>4. HistoryType'
  BY <1>0, <1>1, WorkHistory DEF HistoryType
<1> QED BY <1>3, <1>4, AllTyped

LEMMA FileReportType ==
    ASSUME TypeOK, NEW p \in Procs, FileReport(p)
    PROVE  loaded' \in [Procs -> Manifest]
<1>0. ProcType
  BY TypeParts
<1>1. loaded[p] \in Manifest /\ id[p] \in Version
  BY <1>0 DEF ProcType
<1>2. [loaded[p] EXCEPT !.benchmarks = loaded[p].benchmarks \cup {id[p]}] \in Manifest
  BY <1>1 DEF Manifest
<1> QED BY <1>0, <1>2 DEF ProcType, FileReport

LEMMA RecordingType ==
    ASSUME TypeOK, NEW p \in Procs, Recording(p)
    PROVE  Onward(p) /\ loaded' \in [Procs -> Manifest]
<1>1. CASE cmd[p].record
  BY <1>1, OnwardGoto, FileReportType DEF Recording, Labels
<1>2. CASE ~cmd[p].record
  BY <1>2, OnwardGoto, OnwardEnd, TypeParts DEF Recording, Labels, ProcType
<1> QED BY <1>1, <1>2

LEMMA LaunchType == ASSUME TypeOK, NEW p \in Procs, LaunchIteration(p), UNCHANGED met,
                           cmd[p].op = "run"
                    PROVE TypeOK'
<1> USE DEF LaunchIteration
<1>0. DiskType /\ ProcType /\ HistoryType
  BY TypeParts
<1>1. Onward(p) /\ loaded' \in [Procs -> Manifest]
  BY <1>0, OnwardCut, OnwardGoto, RecordingType DEF Labels, ProcType
<1>2. cmd[p].from \in Names \cup {NoName}
  BY <1>0, CommandFields DEF ProcType
<1>3. restored' \in [Procs -> Record]
  BY <1>0, <1>2, FilesType DEF ProcType
<1>4. measured' \in [Procs -> Nat]
  BY <1>0 DEF ProcType
<1>5. DiskType' /\ ProcType'
  BY <1>0, <1>1, <1>3, <1>4 DEF DiskType, ProcType, diskVars
<1>6. HistoryType'
  BY <1>0, <1>1, WorkHistory DEF HistoryType
<1> QED BY <1>5, <1>6, AllTyped

LEMMA CaptureType ==
    ASSUME TypeOK, NEW p \in Procs, Capture(p) \/ CaptureRest(p), UNCHANGED met
    PROVE  TypeOK'
<1> USE DEF Capture, CaptureRest, Captured
<1>0. DiskType /\ ProcType /\ HistoryType
  BY TypeParts
<1>1. Onward(p)
  BY OnwardCut, OnwardGoto DEF Labels
<1>2. DiskType'
  BY <1>0 DEF DiskType, ProcType
<1>3. ProcType'
  BY <1>0 DEF ProcType, procVars
<1>4. HistoryType'
  BY <1>0, <1>1, WorkHistory DEF HistoryType
<1> QED BY <1>2, <1>3, <1>4, AllTyped

LEMMA VerifyType ==
    ASSUME TypeOK, NEW p \in Procs, VerifyRestore(p), UNCHANGED met, cmd[p].op = "snapshot"
    PROVE  TypeOK'
<1> USE DEF VerifyRestore
<1>0. DiskType /\ ProcType /\ HistoryType
  BY TypeParts
<1>1. Onward(p)
  BY OnwardCut, OnwardGoto DEF Labels
<1>2. Files(cmd[p].name) \in Record
  BY <1>0, CommandFields, FilesType DEF ProcType
<1>3. DiskType' /\ ProcType'
  BY <1>0, <1>2 DEF DiskType, ProcType, diskVars
<1>4. HistoryType'
  BY <1>0, <1>1, WorkHistory DEF HistoryType
<1> QED BY <1>3, <1>4, AllTyped

LEMMA PutSnapshotType ==
    ASSUME NEW m \in Manifest, NEW s \in Names, NEW r \in Record
    PROVE  PutSnapshot(m, s, r) \in Manifest
BY DEF PutSnapshot, Manifest

LEMMA HashType == ASSUME TypeOK, NEW p \in Procs, Hash(p), UNCHANGED met PROVE TypeOK'
<1> USE DEF Hash
<1>0. DiskType /\ ProcType /\ HistoryType
  BY TypeParts
<1>1. Onward(p)
  BY OnwardCut, OnwardGoto DEF Labels
<1>2. loaded' \in [Procs -> Manifest]
  <2>1. loaded[p] \in Manifest /\ cmd[p] \in Command /\ app \in Version
    BY <1>0 DEF ProcType, DiskType
  <2>2. [loaded[p] EXCEPT !.app = app] \in Manifest
    BY <2>1 DEF Manifest
  <2>3. CASE loaded' = [loaded EXCEPT ![p].app = app]
    BY <1>0, <2>2, <2>3 DEF ProcType
  <2>4. CASE /\ cmd[p].op = "snapshot"
             /\ loaded' = [loaded EXCEPT ![p] = PutSnapshot(@, cmd[p].name, Files(cmd[p].name))]
    <3>1. PutSnapshot(loaded[p], cmd[p].name, Files(cmd[p].name)) \in Manifest
      BY <2>1, <2>4, CommandFields, FilesType, PutSnapshotType
    <3> QED BY <1>0, <2>4, <3>1 DEF ProcType
  <2> QED BY <1>0, <2>3, <2>4 DEF ProcType
<1>3. DiskType' /\ ProcType'
  BY <1>0, <1>2 DEF DiskType, ProcType, diskVars
<1>4. HistoryType'
  BY <1>0, <1>1, WorkHistory DEF HistoryType
<1> QED BY <1>3, <1>4, AllTyped

LEMMA SaveOpenType == ASSUME TypeOK, NEW p \in Procs, SaveOpen(p), UNCHANGED met PROVE TypeOK'
<1> USE DEF SaveOpen
<1>0. DiskType /\ ProcType /\ HistoryType
  BY TypeParts
<1>1. Onward(p)
  BY OnwardCut, OnwardGoto DEF Labels
<1>2. inode' \in Nat
  BY <1>0 DEF DiskType
<1>3. DiskType' /\ ProcType'
  BY <1>0, <1>2 DEF DiskType, ProcType, Unreadable
<1>4. HistoryType'
  BY <1>0, <1>1, WorkHistory DEF HistoryType
<1> QED BY <1>3, <1>4, AllTyped

LEMMA SaveWriteType == ASSUME TypeOK, NEW p \in Procs, SaveWrite(p), UNCHANGED met PROVE TypeOK'
<1> USE DEF SaveWrite
<1>0. DiskType /\ ProcType /\ HistoryType
  BY TypeParts
<1>1. Onward(p)
  BY OnwardCut, OnwardEnd, OnwardGoto DEF Labels
<1>2. meta' \in Manifest \cup Unreadable
  BY <1>0 DEF DiskType, ProcType, Unreadable
<1>3. DiskType' /\ ProcType'
  BY <1>0, <1>2 DEF DiskType, ProcType, procVars
<1>4. HistoryType'
  BY <1>0, <1>1, WorkHistory DEF HistoryType
<1> QED BY <1>3, <1>4, AllTyped

-----------------------------------------------------------------------------
(* Where a command may be, and the numbers of the commands.                *)

Building  == {"exists", "remove", "create", "compile"}
Capturing == {"capture", "capture_mem", "capture_vmstate", "verify_restore"}
Saving    == {"save_open", "save_write"}

Place(p) ==
    /\ pc[p] \in Building => cmd[p].op = "build"
    /\ pc[p] \in {"launch", "serve"} => cmd[p].op = "run"
    /\ pc[p] \in Capturing => cmd[p].op = "snapshot"
    /\ pc[p] = "check" => cmd[p].op = "inspect"
    /\ pc[p] = "load" => cmd[p].op # "build"
    /\ pc[p] = "hash" => cmd[p].op \in {"build", "snapshot"}
    /\ pc[p] \in Saving => Writes(cmd[p])

PlaceInv == \A p \in Procs : Place(p)

\* What a step that starts no command leaves alone, and how p goes on.
EndRecord(p, how) == [id |-> id[p], cmd |-> cmd[p], how |-> how, at |-> pc[p]]

Frame(p) ==
    /\ pc[p] # "idle"
    /\ UNCHANGED <<started, cmd, id, met>>
    /\ \A q \in Procs \ {p} : /\ pc'[q] = pc[q] /\ loaded'[q] = loaded[q] /\ fd'[q] = fd[q]
                              /\ measured'[q] = measured[q] /\ restored'[q] = restored[q]
    /\ \/ pc'[p] \in Labels \ {"idle"} /\ done' = done
       \/ pc'[p] = "idle" /\ \E how \in {"ok", "bad", "cut"} : done' = done \cup {EndRecord(p, how)}
    /\ emptied' = emptied \/ (pc[p] = "create" /\ emptied' = id[p] /\ pc'[p] = "compile")

LEMMA GotoFrame ==
    ASSUME TypeOK, NEW p \in Procs, NEW l \in Labels \ {"idle"}, Goto(p, l)
    PROVE  /\ \A q \in Procs \ {p} : pc'[q] = pc[q]
           /\ pc'[p] = l /\ pc'[p] \in Labels \ {"idle"} /\ done' = done
BY DEF Goto, TypeOK

LEMMA EndFrame ==
    ASSUME TypeOK, NEW p \in Procs, NEW how \in {"ok", "bad", "cut"}, End(p, how)
    PROVE  /\ \A q \in Procs \ {p} : pc'[q] = pc[q]
           /\ pc'[p] = "idle" /\ done' = done \cup {EndRecord(p, how)}
BY DEF End, EndRecord, TypeOK

\* The part of the frame that says where p goes.
Moves(p) ==
    /\ \A q \in Procs \ {p} : pc'[q] = pc[q]
    /\ \/ pc'[p] \in Labels \ {"idle"} /\ done' = done
       \/ pc'[p] = "idle" /\ \E how \in {"ok", "bad", "cut"} : done' = done \cup {EndRecord(p, how)}

LEMMA CutMoves == ASSUME TypeOK, NEW p \in Procs, Cut(p) PROVE Moves(p)
BY EndFrame DEF Cut, Moves

LEMMA EndMoves == ASSUME TypeOK, NEW p \in Procs, NEW how \in {"ok", "bad", "cut"}, End(p, how) PROVE Moves(p)
BY EndFrame DEF Moves

LEMMA GotoMoves ==
    ASSUME TypeOK, NEW p \in Procs, NEW l \in Labels \ {"idle"}, Goto(p, l) PROVE Moves(p)
BY GotoFrame DEF Moves

LEMMA WorkFrame ==
    ASSUME TypeOK, NEW p \in Procs, Work(p), UNCHANGED met
    PROVE  Frame(p)
<1>0. ProcType
  BY TypeParts
<1> USE DEF procVars, ProcType
<1>1. CASE Exists(p)
  <2>1. Moves(p)
    BY <1>1, CutMoves, GotoMoves DEF Exists, Labels
  <2> QED BY <1>1, <2>1 DEF Exists, Frame, Moves
<1>2. CASE Remove(p)
  <2>1. Moves(p)
    BY <1>2, CutMoves, GotoMoves DEF Remove, Labels
  <2> QED BY <1>2, <2>1 DEF Remove, Frame, Moves
<1>3. CASE Create(p)
  <2>1. Moves(p)
    BY <1>3, CutMoves, GotoMoves DEF Create, Labels
  <2>2. emptied' = emptied \/ (emptied' = id[p] /\ pc'[p] = "compile")
    BY <1>3, GotoFrame DEF Create, Labels
  <2> QED BY <1>3, <2>1, <2>2 DEF Create, Frame, Moves
<1>4. CASE Compile(p)
  <2>1. Moves(p)
    BY <1>4, CutMoves, GotoMoves DEF Compile, Labels
  <2> QED BY <1>4, <2>1 DEF Compile, Frame, Moves
<1>5. CASE Load(p)
  <2>1. Moves(p)
    BY <1>5, CutMoves, GotoMoves DEF Load, Labels
  <2> QED BY <1>0, <1>5, <2>1 DEF Load, Frame, Moves
<1>6. CASE LaunchIteration(p)
  <2>1. Moves(p)
    BY <1>6, CutMoves, GotoMoves, EndMoves DEF LaunchIteration, Recording, Labels
  <2>2. \A q \in Procs \ {p} : loaded'[q] = loaded[q]
    BY <1>0, <1>6 DEF LaunchIteration, Recording, FileReport
  <2> QED BY <1>0, <1>6, <2>1, <2>2 DEF LaunchIteration, Frame, Moves
<1>7. CASE Capture(p)
  <2>1. Moves(p)
    BY <1>7, CutMoves, GotoMoves DEF Capture, Labels
  <2> QED BY <1>7, <2>1 DEF Capture, Frame, Moves
<1>8. CASE CaptureRest(p)
  <2>1. Moves(p)
    BY <1>8, CutMoves, GotoMoves DEF CaptureRest, Captured, Labels
  <2> QED BY <1>8, <2>1 DEF CaptureRest, Frame, Moves
<1>9. CASE VerifyRestore(p)
  <2>1. Moves(p)
    BY <1>9, CutMoves, GotoMoves DEF VerifyRestore, Labels
  <2> QED BY <1>0, <1>9, <2>1 DEF VerifyRestore, Frame, Moves
<1>10. CASE Hash(p)
  <2>1. Moves(p)
    BY <1>10, CutMoves, GotoMoves DEF Hash, Labels
  <2> QED BY <1>0, <1>10, <2>1 DEF Hash, Frame, Moves
<1>11. CASE SaveOpen(p)
  <2>1. Moves(p)
    BY <1>11, CutMoves, GotoMoves DEF SaveOpen, Labels
  <2> QED BY <1>0, <1>11, <2>1 DEF SaveOpen, Frame, Moves
<1>12. CASE SaveWrite(p)
  <2>1. Moves(p)
    BY <1>12, CutMoves, GotoMoves, EndMoves DEF SaveWrite, Labels
  <2> QED BY <1>12, <2>1 DEF SaveWrite, Frame, Moves
<1>13. CASE Serve(p)
  <2>1. Moves(p)
    BY <1>13, CutMoves, EndMoves DEF Serve
  <2> QED BY <1>13, <2>1 DEF Serve, Frame, Moves
<1>14. CASE Check(p)
  <2>1. Moves(p)
    BY <1>14, CutMoves, EndMoves DEF Check
  <2> QED BY <1>14, <2>1 DEF Check, Frame, Moves
<1> QED BY <1>1, <1>2, <1>3, <1>4, <1>5, <1>6, <1>7, <1>8, <1>9, <1>10, <1>11, <1>12, <1>13, <1>14
        DEF Work

LEMMA StartFrame ==
    ASSUME TypeOK, NEW p \in Procs, Start(p)
    PROVE  /\ pc[p] = "idle" /\ pc'[p] \in {"exists", "load"}
           /\ pc'[p] = "exists" <=> cmd'[p].op = "build"
           /\ started' = started + 1 /\ id'[p] = started + 1
           /\ \A q \in Procs \ {p} : /\ pc'[q] = pc[q] /\ cmd'[q] = cmd[q] /\ id'[q] = id[q]
                                     /\ loaded'[q] = loaded[q] /\ measured'[q] = measured[q]
                                     /\ restored'[q] = restored[q]
           /\ cmd'[p] \in Command
           /\ loaded'[p] = Blank /\ restored'[p] = NoRecord
           /\ met' = met \cup {{started + 1, id[q]} : q \in {r \in Procs : pc[r] # "idle"}}
           /\ UNCHANGED <<diskVars, fd, emptied, done>>
<1>0. ProcType /\ pc \in [Procs -> Labels]
  BY TypeParts DEF HistoryType
<1>1. PICK c \in Commands : /\ cmd' = [cmd EXCEPT ![p] = c]
                            /\ Goto(p, IF c.op = "build" THEN "exists" ELSE "load")
  BY DEF Start
<1>2. c \in Command
  BY StoreAssumption DEF StoreAssumption
<1>3. cmd'[p] = c /\ \A q \in Procs \ {p} : cmd'[q] = cmd[q]
  BY <1>0, <1>1 DEF ProcType
<1>4. /\ pc'[p] = IF c.op = "build" THEN "exists" ELSE "load"
      /\ \A q \in Procs \ {p} : pc'[q] = pc[q]
      /\ done' = done
  BY <1>0, <1>1 DEF Goto
<1> QED BY <1>0, <1>2, <1>3, <1>4 DEF Start, ProcType

LEMMA PlaceInit == Init => PlaceInv
BY DEF Init, PlaceInv, Place, Building, Capturing, Saving

LEMMA PlaceWork ==
    ASSUME TypeOK, PlaceInv, NEW p \in Procs, Work(p), UNCHANGED met
    PROVE  PlaceInv'
<1>1. Frame(p)
  BY WorkFrame
<1>2. ASSUME NEW q \in Procs, q # p PROVE Place(q)'
  BY <1>1, <1>2 DEF PlaceInv, Place, Frame
<1>3. Place(p) /\ cmd[p] \in Command
  BY TypeParts DEF PlaceInv, ProcType
<1>4. cmd' = cmd
  BY <1>1 DEF Frame
<1> USE DEF Place, Building, Capturing, Saving, Labels
<1>5. ASSUME NEW how \in {"ok", "bad", "cut"}, End(p, how) PROVE Place(p)'
  BY <1>5, EndFrame
<1>6. ASSUME Cut(p) PROVE Place(p)'
  BY <1>5, <1>6 DEF Cut
<1>7. Place(p)'
  <2>1. CASE Exists(p)
    BY <1>3, <1>4, <1>6, <2>1, GotoFrame DEF Exists
  <2>2. CASE Remove(p)
    BY <1>3, <1>4, <1>6, <2>2, GotoFrame DEF Remove
  <2>3. CASE Create(p)
    BY <1>3, <1>4, <1>6, <2>3, GotoFrame DEF Create
  <2>4. CASE Compile(p)
    BY <1>3, <1>4, <1>6, <2>4, GotoFrame DEF Compile
  <2>5. CASE Load(p)
    BY <1>3, <1>4, <1>6, <2>5, GotoFrame, CommandFields DEF Load
  <2>6. CASE LaunchIteration(p)
    BY <1>3, <1>4, <1>5, <1>6, <2>6, GotoFrame DEF LaunchIteration, Recording, Writes
  <2>7. CASE Capture(p)
    BY <1>3, <1>4, <1>6, <2>7, GotoFrame DEF Capture
  <2>8. CASE CaptureRest(p)
    BY <1>3, <1>4, <1>6, <2>8, GotoFrame DEF CaptureRest, Captured
  <2>9. CASE VerifyRestore(p)
    BY <1>3, <1>4, <1>6, <2>9, GotoFrame DEF VerifyRestore
  <2>10. CASE Hash(p)
    BY <1>3, <1>4, <1>6, <2>10, GotoFrame DEF Hash, Writes
  <2>11. CASE SaveOpen(p)
    BY <1>3, <1>4, <1>6, <2>11, GotoFrame DEF SaveOpen
  <2>12. CASE SaveWrite(p)
    BY <1>3, <1>4, <1>5, <1>6, <2>12, GotoFrame DEF SaveWrite
  <2>13. CASE Serve(p)
    BY <1>5, <1>6, <2>13 DEF Serve
  <2>14. CASE Check(p)
    BY <1>5, <1>6, <2>14 DEF Check
  <2> QED BY <2>1, <2>2, <2>3, <2>4, <2>5, <2>6, <2>7, <2>8, <2>9, <2>10, <2>11, <2>12, <2>13, <2>14
          DEF Work
<1> QED BY <1>2, <1>7 DEF PlaceInv

LEMMA PlaceStart ==
    ASSUME TypeOK, PlaceInv, NEW p \in Procs, Start(p)
    PROVE  PlaceInv'
<1>1. ASSUME NEW q \in Procs, q # p PROVE Place(q)'
  BY <1>1, StartFrame DEF PlaceInv, Place
<1>2. Place(p)'
  BY StartFrame DEF Place, Building, Capturing, Saving
<1> QED BY <1>1, <1>2 DEF PlaceInv

LEMMA WorkType ==
    ASSUME TypeOK, PlaceInv, NEW p \in Procs, Work(p), UNCHANGED met
    PROVE  TypeOK'
<1>1. Place(p)
  BY DEF PlaceInv
<1>2. ASSUME LaunchIteration(p) PROVE TypeOK'
  BY <1>1, <1>2, LaunchType DEF Place, LaunchIteration
<1>3. ASSUME VerifyRestore(p) PROVE TypeOK'
  BY <1>1, <1>3, VerifyType DEF Place, VerifyRestore, Capturing
<1> QED BY <1>2, <1>3, ExistsType, RemoveType, CreateType, CompileType, LoadType, CaptureType,
           HashType, SaveOpenType, SaveWriteType, ServeType, CheckType DEF Work

(***************************************************************************)
(* Numbers: a command that is running has the number of none that ended,   *)
(* and two whose times overlapped have met.                                *)
(***************************************************************************)
Active(p) == pc[p] # "idle"

RunningNumbers ==
    \A p \in Procs : Active(p) =>
      /\ id[p] \in 1 .. started
      /\ \A q \in Procs : Active(q) /\ q # p => id[p] # id[q] /\ {id[p], id[q]} \in met
      /\ \A d \in done : d.id # id[p] /\ (id[p] < d.id => {id[p], d.id} \in met)

DoneNumbers ==
    /\ \A d \in done : d.id \in 1 .. started
    /\ \A d, e \in done : d.id = e.id => d = e

MetNumbers == \A m \in met : m \subseteq 1 .. started /\ \A x \in Nat : m # {x}

\* The command that made the directory anew is a build, running or ended.
Emptier(c, x) == c.op = "build" /\ x = emptied

EmptiedBy ==
    \/ emptied = 0
    \/ \E p \in Procs : Emptier(cmd[p], id[p]) /\ pc[p] \in {"compile", "hash", "save_open", "save_write"}
    \/ \E d \in done : Emptier(d.cmd, d.id) /\ d.at \in {"compile", "hash", "save_open", "save_write"}

NumberInv == RunningNumbers /\ DoneNumbers /\ MetNumbers

LEMMA NumberInit == Init => NumberInv /\ EmptiedBy
BY DEF Init, NumberInv, RunningNumbers, DoneNumbers, MetNumbers, EmptiedBy, Active

LEMMA NumberStart ==
    ASSUME TypeOK, NumberInv, NEW p \in Procs, Start(p)
    PROVE  NumberInv'
<1>0. started \in Nat /\ \A q \in Procs : id[q] \in Nat
  BY StoreAssumption, TypeParts DEF HistoryType, ProcType, Version, StoreAssumption
<1>1. MetNumbers'
  <2> SUFFICES ASSUME NEW m \in met' PROVE m \subseteq 1 .. started' /\ \A x \in Nat : m # {x}
    BY DEF MetNumbers
  <2>1. CASE m \in met
    BY <1>0, <2>1, StartFrame DEF NumberInv, MetNumbers
  <2>2. CASE m \notin met
    <3>1. PICK q \in Procs : pc[q] # "idle" /\ m = {started + 1, id[q]}
      BY <2>2, StartFrame
    <3>2. id[q] \in 1 .. started
      BY <3>1 DEF NumberInv, RunningNumbers, Active
    <3> QED BY <1>0, <3>1, <3>2, StartFrame
  <2> QED BY <2>1, <2>2
<1>2. DoneNumbers'
  BY <1>0, StartFrame DEF NumberInv, DoneNumbers
<1>3. ASSUME NEW q \in Procs, q # p, Active(q)'
      PROVE  /\ id'[q] \in 1 .. started'
             /\ \A r \in Procs : Active(r)' /\ r # q => id'[q] # id'[r] /\ {id'[q], id'[r]} \in met'
             /\ \A d \in done' : d.id # id'[q] /\ (id'[q] < d.id => {id'[q], d.id} \in met')
  <2>1. Active(q) /\ id'[q] = id[q] /\ id[q] \in 1 .. started
    BY <1>3, StartFrame DEF Active, NumberInv, RunningNumbers
  <2>2. ASSUME NEW r \in Procs, Active(r)', r # q PROVE id'[q] # id'[r] /\ {id'[q], id'[r]} \in met'
    <3>1. CASE r = p
      <4>1. {started + 1, id[q]} \in met'
        BY <2>1, StartFrame DEF Active
      <4>2. id'[q] = id[q] /\ id'[r] = started + 1
        BY <2>1, <3>1, StartFrame
      <4>3. {id'[q], id'[r]} = {started + 1, id[q]}
        BY <4>2
      <4>4. id[q] # started + 1
        BY <1>0, <2>1
      <4> QED BY <4>1, <4>2, <4>3, <4>4
    <3>2. CASE r # p
      BY <2>1, <2>2, <3>2, StartFrame DEF Active, NumberInv, RunningNumbers
    <3> QED BY <3>1, <3>2
  <2>3. \A d \in done' : d.id # id'[q] /\ (id'[q] < d.id => {id'[q], d.id} \in met')
    BY <2>1, StartFrame DEF NumberInv, RunningNumbers
  <2> QED BY <1>0, <2>1, <2>2, <2>3, StartFrame
<1>4. /\ id'[p] \in 1 .. started'
      /\ \A r \in Procs : Active(r)' /\ r # p => id'[p] # id'[r] /\ {id'[p], id'[r]} \in met'
      /\ \A d \in done' : d.id # id'[p] /\ (id'[p] < d.id => {id'[p], d.id} \in met')
  <2>1. ASSUME NEW r \in Procs, Active(r)', r # p PROVE id'[p] # id'[r] /\ {id'[p], id'[r]} \in met'
    <3>1. Active(r) /\ id'[r] = id[r] /\ id[r] \in 1 .. started
      BY <2>1, StartFrame DEF Active, NumberInv, RunningNumbers
    <3>2. {started + 1, id[r]} \in met'
      BY <3>1, StartFrame DEF Active
    <3>3. id'[r] = id[r] /\ id'[p] = started + 1
      BY <3>1, StartFrame
    <3>4. {id'[p], id'[r]} = {started + 1, id[r]}
      BY <3>3
    <3>5. id[r] # started + 1
      BY <1>0, <3>1
    <3> QED BY <3>2, <3>3, <3>4, <3>5
  <2>2. ASSUME NEW d \in done' PROVE d.id # id'[p] /\ ~(id'[p] < d.id)
    <3>1. d.id \in 1 .. started
      BY StartFrame DEF NumberInv, DoneNumbers
    <3> QED BY <1>0, <3>1, StartFrame
  <2> QED BY <1>0, <2>1, <2>2, StartFrame
<1>5. RunningNumbers'
  BY <1>3, <1>4 DEF RunningNumbers
<1> QED BY <1>1, <1>2, <1>5 DEF NumberInv

LEMMA NumberWork ==
    ASSUME TypeOK, NumberInv, NEW p \in Procs, Frame(p)
    PROVE  NumberInv'
<1>0. started \in Nat /\ \A q \in Procs : id[q] \in Nat
  BY StoreAssumption, TypeParts DEF HistoryType, ProcType, Version, StoreAssumption
<1>1. MetNumbers'
  BY DEF Frame, NumberInv, MetNumbers
<1>2. ASSUME NEW d \in done' PROVE d \in done \/ (d.id = id[p] /\ pc'[p] = "idle")
  BY <1>2 DEF Frame, EndRecord
<1>3. ASSUME NEW d \in done', d \notin done, NEW e \in done', e \notin done PROVE d = e
  BY <1>3 DEF Frame
<1>4. Active(p) /\ id' = id /\ met' = met /\ started' = started
  BY DEF Frame, Active
<1>5. DoneNumbers'
  <2>1. \A d \in done' : d.id \in 1 .. started'
    BY <1>2, <1>4 DEF NumberInv, DoneNumbers, RunningNumbers
  <2>2. ASSUME NEW d \in done', NEW e \in done', d.id = e.id PROVE d = e
    BY <1>2, <1>3, <1>4, <2>2 DEF NumberInv, DoneNumbers, RunningNumbers
  <2> QED BY <2>1, <2>2 DEF DoneNumbers
<1>6. ASSUME NEW q \in Procs, Active(q)' PROVE Active(q)
  BY <1>4, <1>6 DEF Frame, Active
<1>7. ASSUME NEW q \in Procs, Active(q)', NEW d \in done'
      PROVE  d.id # id[q] /\ (id[q] < d.id => {id[q], d.id} \in met)
  <2>1. CASE d \in done
    BY <1>6, <1>7, <2>1 DEF NumberInv, RunningNumbers
  <2>2. CASE d \notin done
    <3>1. q # p /\ d.id = id[p]
      BY <1>2, <1>7, <2>2 DEF Active
    <3> QED BY <1>4, <1>6, <1>7, <3>1 DEF NumberInv, RunningNumbers
  <2> QED BY <2>1, <2>2
<1>8. RunningNumbers'
  BY <1>4, <1>6, <1>7 DEF NumberInv, RunningNumbers
<1> QED BY <1>1, <1>5, <1>8 DEF NumberInv

LEMMA EmptiedStart ==
    ASSUME TypeOK, EmptiedBy, NEW p \in Procs, Start(p)
    PROVE  EmptiedBy'
<1>1. emptied' = emptied /\ done' = done /\ pc[p] = "idle"
  BY StartFrame
<1>2. \A q \in Procs \ {p} : pc'[q] = pc[q] /\ cmd'[q] = cmd[q] /\ id'[q] = id[q]
  BY StartFrame
<1> QED BY <1>1, <1>2 DEF EmptiedBy, Emptier

LEMMA EmptiedWork ==
    ASSUME TypeOK, PlaceInv, EmptiedBy, NEW p \in Procs, Work(p), UNCHANGED met
    PROVE  EmptiedBy'
<1> DEFINE L == {"compile", "hash", "save_open", "save_write"}
<1>0. Frame(p)
  BY WorkFrame
<1>1. CASE emptied' # emptied
  <2>1. pc[p] = "create" /\ emptied' = id[p] /\ pc'[p] = "compile" /\ cmd[p].op = "build"
    BY <1>0, <1>1 DEF Frame, PlaceInv, Place, Building
  <2>2. cmd'[p] = cmd[p] /\ id'[p] = id[p]
    BY <1>0 DEF Frame
  <2>3. Emptier(cmd[p], id[p])' /\ pc'[p] \in L
    BY <2>1, <2>2 DEF Emptier
  <2> QED BY <2>3 DEF EmptiedBy
<1>2. CASE emptied' = emptied /\ Emptier(cmd[p], id[p]) /\ pc[p] \in L
  <2>1. pc'[p] \in L \/ pc'[p] = "idle"
    <3>0. cmd[p].op = "build" /\ cmd' = cmd
      BY <1>0, <1>2 DEF Emptier, Frame
    <3>1. CASE Compile(p)
      BY <3>1, EndFrame, GotoFrame DEF Compile, Cut, Labels
    <3>2. CASE Hash(p)
      BY <3>2, EndFrame, GotoFrame DEF Hash, Cut, Labels
    <3>3. CASE SaveOpen(p)
      BY <3>3, EndFrame, GotoFrame DEF SaveOpen, Cut, Labels
    <3>4. CASE SaveWrite(p)
      BY <3>0, <3>4, EndFrame DEF SaveWrite, Cut
    <3> QED BY <1>2, <3>1, <3>2, <3>3, <3>4
            DEF Work, Exists, Remove, Create, Load, LaunchIteration, Capture, CaptureRest,
                VerifyRestore, Serve, Check
  <2>2. CASE pc'[p] = "idle"
    <3>1. PICK how \in {"ok", "bad", "cut"} : done' = done \cup {EndRecord(p, how)}
      BY <1>0, <2>2 DEF Frame, Labels
    <3>2. /\ EndRecord(p, how).cmd = cmd[p] /\ EndRecord(p, how).id = id[p]
          /\ EndRecord(p, how).at = pc[p] /\ EndRecord(p, how) \in done'
      BY <3>1 DEF EndRecord
    <3>3. \E d \in done' : d.cmd = cmd[p] /\ d.id = id[p] /\ d.at = pc[p]
      BY <3>2
    <3> QED BY <1>2, <3>3 DEF EmptiedBy, Emptier
  <2>3. CASE pc'[p] \in L
    BY <1>0, <1>2, <2>3 DEF EmptiedBy, Emptier, Frame
  <2> QED BY <2>1, <2>2, <2>3
<1>3. CASE emptied' = emptied /\ ~(Emptier(cmd[p], id[p]) /\ pc[p] \in L)
  <2>1. done \subseteq done'
    BY <1>0 DEF Frame
  <2> QED BY <1>0, <1>3, <2>1 DEF EmptiedBy, Emptier, Frame
<1> QED BY <1>1, <1>2, <1>3

(***************************************************************************)
(* Lone(x): command x met no writer, running or ended.  Only a step may    *)
(* end it, none restores it; and while a lone command runs, no other one   *)
(* touches the disk.                                                       *)
(***************************************************************************)
Lone(x) ==
    /\ \A e \in Writers : {x, e.id} \notin met
    /\ \A q \in Procs : Active(q) /\ Writes(cmd[q]) => {x, id[q]} \notin met

LEMMA LoneWork ==
    ASSUME TypeOK, NEW p \in Procs, Frame(p), NEW x, Lone(x)'
    PROVE  Lone(x)
<1>1. Writers \subseteq Writers' /\ met' = met /\ id' = id /\ cmd' = cmd
  BY DEF Frame, Writers
<1>2. ASSUME NEW q \in Procs, Active(q), Writes(cmd[q]) PROVE {x, id[q]} \notin met
  <2>1. CASE Active(q)'
    BY <1>1, <1>2, <2>1 DEF Lone
  <2>2. CASE ~Active(q)'
    <3>1. q = p /\ pc'[p] = "idle"
      BY <1>2, <2>2 DEF Frame, Active
    <3>2. PICK how \in {"ok", "bad", "cut"} : done' = done \cup {EndRecord(p, how)}
      BY <3>1 DEF Frame, Labels
    <3>3. EndRecord(p, how).id = id[p] /\ EndRecord(p, how).cmd = cmd[p] /\ EndRecord(p, how) \in done'
      BY <3>2 DEF EndRecord
    <3>4. EndRecord(p, how) \in Writers'
      BY <1>2, <3>1, <3>3 DEF Writers
    <3> QED BY <1>1, <3>1, <3>3, <3>4 DEF Lone
  <2> QED BY <2>1, <2>2
<1> QED BY <1>1, <1>2 DEF Lone

LEMMA LoneStart ==
    ASSUME TypeOK, NEW p \in Procs, Start(p), NEW x, Lone(x)'
    PROVE  Lone(x)
<1>1. Writers' = Writers /\ met \subseteq met'
  BY StartFrame DEF Writers
<1>2. ASSUME NEW q \in Procs, Active(q) PROVE Active(q)' /\ cmd'[q] = cmd[q] /\ id'[q] = id[q]
  BY <1>2, StartFrame DEF Active
<1> QED BY <1>1, <1>2 DEF Lone

\* Two that run have met, so a lone one runs beside no other writer.
LEMMA LoneNoWriter ==
    ASSUME NumberInv, NEW p \in Procs, Active(p), Lone(id[p]),
           NEW q \in Procs, q # p, Active(q)
    PROVE  ~Writes(cmd[q])
BY DEF NumberInv, RunningNumbers, Lone

\* A writer that runs and has not met command d, which ended, started after it.
LEMMA LoneLater ==
    ASSUME TypeOK, NumberInv, NEW d \in done, Lone(d.id),
           NEW p \in Procs, Active(p), Writes(cmd[p])
    PROVE  id[p] > d.id
<1>1. {d.id, id[p]} \notin met
  BY DEF Lone
<1>2. id[p] \in Nat /\ d.id \in Nat
  BY DEF NumberInv, RunningNumbers, DoneNumbers
<1>3. d.id # id[p] /\ ~(id[p] < d.id)
  BY <1>1 DEF NumberInv, RunningNumbers
<1> QED BY <1>2, <1>3

\* And one that has not met the build which made the directory, after that.
LEMMA LoneEmptied ==
    ASSUME TypeOK, NumberInv, EmptiedBy, Lone(emptied),
           NEW p \in Procs, Active(p), Writes(cmd[p])
    PROVE  id[p] > emptied \/ (id[p] = emptied /\ cmd[p].op = "build")
<1>0. id[p] \in Nat /\ id[p] # 0
  BY DEF NumberInv, RunningNumbers
<1>1. CASE emptied = 0
  BY <1>0, <1>1
<1>2. CASE \E q \in Procs : Emptier(cmd[q], id[q]) /\ pc[q] \in {"compile", "hash", "save_open", "save_write"}
  <2>1. PICK q \in Procs : Emptier(cmd[q], id[q]) /\ pc[q] \in {"compile", "hash", "save_open", "save_write"}
    BY <1>2
  <2>2. Active(q) /\ id[q] = emptied /\ cmd[q].op = "build"
    BY <2>1 DEF Active, Emptier
  <2> QED BY <2>2, LoneNoWriter
<1>3. CASE \E d \in done : Emptier(d.cmd, d.id) /\ d.at \in {"compile", "hash", "save_open", "save_write"}
  <2>1. PICK d \in done : Emptier(d.cmd, d.id)
    BY <1>3
  <2> QED BY <2>1, LoneLater DEF Emptier
<1> QED BY <1>1, <1>2, <1>3 DEF EmptiedBy

\* A command that is no writer leaves the disk alone.
LEMMA ReaderStep ==
    ASSUME TypeOK, PlaceInv, NEW p \in Procs, Work(p), ~Writes(cmd[p])
    PROVE  UNCHANGED <<diskVars, emptied>>
<1>1. Place(p)
  BY DEF PlaceInv
<1>2. pc[p] \notin Building /\ pc[p] \notin Capturing /\ pc[p] \notin Saving /\ pc[p] # "hash"
  BY <1>1 DEF Place, Writes
<1> QED BY <1>2 DEF Work, Exists, Remove, Create, Compile, Load, LaunchIteration, Capture, CaptureRest,
            VerifyRestore, Hash, SaveOpen, SaveWrite, Serve, Check, Building, Capturing, Saving, diskVars

-----------------------------------------------------------------------------
(***************************************************************************)
(* What a command does to the manifest, and that it stays done: Effect is  *)
(* what command x leaves in a manifest m, Superseded a later snapshot of   *)
(* the same name, and Held a writer that ended well, met no other and has  *)
(* not been superseded.                                                    *)
(***************************************************************************)
Own(x) == [mem |-> x, vmstate |-> x]

Effect(x, c, m) ==
    /\ c.op = "run" => x \in m.benchmarks
    /\ c.op = "snapshot" => m.snapshots[c.name] = Own(x)

Superseded(x, c) ==
    /\ c.op = "snapshot"
    /\ \/ \E e \in Captures(c.name) : e.id > x
       \/ \E q \in Procs : /\ pc[q] \notin {"idle", "load", "capture"} /\ id[q] > x
                           /\ cmd[q].op = "snapshot" /\ cmd[q].name = c.name

Held(d) ==
    /\ d.how = "ok" /\ Writes(d.cmd) /\ d.id > emptied
    /\ Lone(d.id) /\ ~Superseded(d.id, d.cmd)

\* The manifest a running writer will save.
Holds(q) == Writes(cmd[q]) /\ pc[q] \notin {"idle", "load"}

Keeps(d) ==
    /\ Readable => Effect(d.id, d.cmd, meta)
    /\ \A q \in Procs : Holds(q) =>
         IF cmd[q].op = "build" THEN pc[q] \in {"exists", "remove", "create"}
         ELSE Effect(d.id, d.cmd, loaded[q])

KeptInv == \A d \in done : Held(d) => Keeps(d)

\* The same of a lone command while it runs: nobody has touched what it wrote.
Undisturbed(p) ==
    /\ pc[p] = "save_write" => meta = Empty /\ fd[p] = inode
    /\ pc[p] = "serve" /\ Writes(cmd[p]) => Effect(id[p], cmd[p], meta)
    /\ pc[p] \in Saving => Effect(id[p], cmd[p], loaded[p])
    /\ pc[p] \in {"capture_mem", "verify_restore"} \/ (pc[p] = "hash" /\ cmd[p].op = "snapshot")
         => vmstate[cmd[p].name] = id[p]
    /\ pc[p] \in {"capture_vmstate", "verify_restore"} \/ (pc[p] = "hash" /\ cmd[p].op = "snapshot")
         => mem[cmd[p].name] = id[p]

OwnInv == \A p \in Procs : Active(p) /\ Lone(id[p]) => Undisturbed(p)

\* A snapshot command never goes back to where it has written nothing.
LEMMA NoWayBack ==
    ASSUME TypeOK, PlaceInv, NEW p \in Procs, Work(p), UNCHANGED met,
           pc[p] \notin {"idle", "load", "capture"}
    PROVE  pc'[p] \notin {"load", "capture"}
<1>1. Frame(p)
  BY WorkFrame
<1>2. CASE pc'[p] = "idle"
  BY <1>2
<1>3. ASSUME NEW how \in {"ok", "bad", "cut"}, End(p, how) PROVE pc'[p] = "idle"
  BY <1>3, EndFrame
<1>4. ASSUME NEW l \in Labels \ {"idle"}, Goto(p, l) PROVE pc'[p] = l
  BY <1>4, GotoFrame
<1>5. ASSUME Cut(p) PROVE pc'[p] = "idle"
  BY <1>3, <1>5 DEF Cut
<1>6. CASE LaunchIteration(p) \/ SaveWrite(p) \/ Serve(p) \/ Check(p)
  BY <1>3, <1>4, <1>5, <1>6 DEF LaunchIteration, Recording, SaveWrite, Serve, Check, Labels
<1>7. CASE Exists(p) \/ Remove(p) \/ Create(p) \/ Compile(p)
  BY <1>4, <1>5, <1>7 DEF Exists, Remove, Create, Compile, Labels
<1>8. CASE CaptureRest(p) \/ VerifyRestore(p) \/ Hash(p) \/ SaveOpen(p)
  BY <1>4, <1>5, <1>8 DEF CaptureRest, Captured, VerifyRestore, Hash, SaveOpen, Labels
<1> QED BY <1>6, <1>7, <1>8 DEF Work, Load, Capture

LEMMA SupersededWork ==
    ASSUME TypeOK, PlaceInv, NEW p \in Procs, Work(p), UNCHANGED met,
           NEW d \in done, d.id > emptied', Superseded(d.id, d.cmd), NumberInv
    PROVE  Superseded(d.id, d.cmd)'
<1>0. Frame(p)
  BY WorkFrame
<1>1. d.cmd.op = "snapshot"
  BY DEF Superseded
<1>2. d.id \in Nat /\ emptied' \in Nat /\ (\A e \in done : e.id \in Nat) /\ \A q \in Procs : id[q] \in Nat
  BY TypeParts, WorkType, StoreAssumption
     DEF TypeOK, HistoryType, ProcType, Ended, Version, StoreAssumption, NumberInv, DoneNumbers
<1>3. CASE \E e \in Captures(d.cmd.name) : e.id > d.id
  <2>1. PICK e \in Captures(d.cmd.name) : e.id > d.id
    BY <1>3
  <2>2. e \in done /\ e.cmd.op = "snapshot" /\ e.cmd.name = d.cmd.name /\ e.at \notin {"load", "capture"}
    BY <2>1 DEF Captures, Since
  <2>3. e \in done' /\ e.id > emptied'
    BY <1>0, <1>2, <2>1, <2>2 DEF Frame
  <2>4. e \in Captures(d.cmd.name)'
    BY <2>2, <2>3 DEF Captures, Since
  <2> QED BY <1>1, <2>1, <2>4 DEF Superseded
<1>4. CASE \E q \in Procs : /\ pc[q] \notin {"idle", "load", "capture"} /\ id[q] > d.id
                            /\ cmd[q].op = "snapshot" /\ cmd[q].name = d.cmd.name
  <2>1. PICK q \in Procs : /\ pc[q] \notin {"idle", "load", "capture"} /\ id[q] > d.id
                           /\ cmd[q].op = "snapshot" /\ cmd[q].name = d.cmd.name
    BY <1>4
  <2>2. cmd' = cmd /\ id' = id
    BY <1>0 DEF Frame
  <2>3. CASE pc'[q] # "idle"
    <3>1. pc'[q] \notin {"idle", "load", "capture"}
      BY <1>0, <2>1, <2>3, NoWayBack DEF Frame
    <3> QED BY <1>1, <2>1, <2>2, <3>1 DEF Superseded
  <2>4. CASE pc'[q] = "idle"
    <3>1. q = p
      BY <1>0, <2>1, <2>4 DEF Frame
    <3>2. PICK how \in {"ok", "bad", "cut"} : done' = done \cup {EndRecord(p, how)}
      BY <1>0, <2>4, <3>1 DEF Frame, Labels
    <3> DEFINE e == EndRecord(p, how)
    <3>3. e.id = id[q] /\ e.cmd = cmd[q] /\ e.at = pc[q] /\ e \in done'
      BY <3>1, <3>2 DEF EndRecord
    <3>4. e.id > emptied' /\ e.id > d.id
      BY <1>2, <2>1, <3>3
    <3> HIDE DEF e
    <3>5. e \in Captures(d.cmd.name)'
      BY <2>1, <3>3, <3>4 DEF Captures, Since
    <3> QED BY <1>1, <3>4, <3>5 DEF Superseded
  <2> QED BY <2>3, <2>4
<1> QED BY <1>3, <1>4 DEF Superseded

\* What is held was held before the step: a later build puts it out of scope for good.
LEMMA HeldWork ==
    ASSUME TypeOK, PlaceInv, NumberInv, NEW p \in Procs, Work(p), UNCHANGED met,
           NEW d \in done, Held(d)'
    PROVE  /\ Held(d) /\ emptied' = emptied
           /\ \A q \in Procs : Active(q) /\ Writes(cmd[q]) => id[q] > d.id
<1>0. Frame(p)
  BY WorkFrame
<1>1. Lone(d.id)
  BY <1>0, LoneWork DEF Held
<1>2. ASSUME NEW q \in Procs, Active(q), Writes(cmd[q]) PROVE id[q] > d.id
  BY <1>1, <1>2, LoneLater
<1>3. emptied' = emptied
  <2> SUFFICES ASSUME emptied' # emptied PROVE FALSE
    OBVIOUS
  <2>1. emptied' = id[p] /\ pc[p] = "create" /\ cmd[p].op = "build"
    BY <1>0 DEF Frame, PlaceInv, Place, Building
  <2>2. id[p] > d.id
    BY <1>2, <2>1 DEF Active, Writes
  <2>3. d.id \in Nat /\ id[p] \in Nat /\ d.id > id[p]
    BY <2>1, TypeParts DEF Held, ProcType, Version, NumberInv, DoneNumbers
  <2> QED BY <2>2, <2>3
<1>4. ~Superseded(d.id, d.cmd)
  BY SupersededWork DEF Held
<1> QED BY <1>1, <1>2, <1>3, <1>4 DEF Held

\* What a step does to the manifest, and to the one a writer holds.
LEMMA MetaStep ==
    ASSUME TypeOK, PlaceInv, NEW p \in Procs, Work(p)
    PROVE  \/ meta' = meta \/ meta' \in Unreadable
           \/ pc[p] = "save_write" /\ meta' = loaded[p]
BY DEF Work, Exists, Remove, Create, Compile, Load, LaunchIteration, Capture, CaptureRest,
       VerifyRestore, Hash, SaveOpen, SaveWrite, Serve, Check, diskVars, Unreadable

HoldsNext(p) ==
    \/ loaded'[p] = loaded[p]
    \/ pc[p] = "load" /\ Readable /\ loaded'[p] = meta
    \/ /\ pc[p] = "launch" /\ pc'[p] = "save_open" /\ cmd[p].op = "run" /\ cmd[p].record
       /\ loaded'[p] = [loaded[p] EXCEPT !.benchmarks = @ \cup {id[p]}]
    \/ pc[p] = "hash" /\ cmd[p].op = "build" /\ loaded'[p] = [loaded[p] EXCEPT !.app = app]
    \/ /\ pc[p] = "hash" /\ cmd[p].op = "snapshot"
       /\ loaded'[p] = PutSnapshot(loaded[p], cmd[p].name, Files(cmd[p].name))

LEMMA HoldsStep ==
    ASSUME TypeOK, PlaceInv, NEW p \in Procs, Work(p)
    PROVE  HoldsNext(p)
<1>0. ProcType /\ Place(p)
  BY TypeParts DEF PlaceInv
<1> USE DEF HoldsNext
<1>1. CASE loaded' = loaded
  BY <1>1
<1>2. CASE Load(p)
  BY <1>0, <1>2 DEF Load, ProcType, Readable
<1>3. CASE LaunchIteration(p)
  <2>1. pc[p] = "launch" /\ cmd[p].op = "run"
    BY <1>0, <1>3 DEF LaunchIteration, Place
  <2>2. CASE FileReport(p) /\ cmd[p].record /\ Goto(p, "save_open")
    BY <1>0, <2>1, <2>2, GotoFrame DEF FileReport, ProcType, Labels
  <2> QED BY <1>1, <1>3, <2>2 DEF LaunchIteration, Recording
<1>4. CASE Hash(p)
  BY <1>0, <1>1, <1>4 DEF Hash, ProcType
<1> QED BY <1>1, <1>2, <1>3, <1>4
        DEF Work, Exists, Remove, Create, Compile, Capture, CaptureRest, VerifyRestore, SaveOpen,
            SaveWrite, Serve, Check, procVars

LEMMA OwnInit == Init => OwnInv /\ KeptInv
BY DEF Init, OwnInv, KeptInv, Active

LEMMA OwnStart ==
    ASSUME TypeOK, NumberInv, OwnInv, NEW p \in Procs, Start(p)
    PROVE  OwnInv'
<1>0. UNCHANGED <<diskVars, fd>>
  BY StartFrame
<1>1. ASSUME NEW q \in Procs, q # p, Active(q)', Lone(id[q])' PROVE Undisturbed(q)'
  <2>1. /\ pc'[q] = pc[q] /\ cmd'[q] = cmd[q] /\ id'[q] = id[q] /\ loaded'[q] = loaded[q]
    BY <1>1, StartFrame
  <2>2. Lone(id[q])
    BY <1>1, <2>1, LoneStart
  <2>3. Undisturbed(q)
    BY <1>1, <2>1, <2>2 DEF OwnInv, Active
  <2> QED BY <1>0, <2>1, <2>3 DEF Undisturbed, diskVars
<1>2. Undisturbed(p)'
  BY StartFrame DEF Undisturbed, Saving
<1> QED BY <1>1, <1>2 DEF OwnInv

LEMMA OwnOther ==
    ASSUME TypeOK, PlaceInv, NumberInv, OwnInv, NEW p \in Procs, Work(p), UNCHANGED met,
           NEW q \in Procs, q # p, Active(q)', Lone(id[q])'
    PROVE  Undisturbed(q)'
<1>0. Frame(p)
  BY WorkFrame
<1>1. /\ pc'[q] = pc[q] /\ cmd'[q] = cmd[q] /\ id'[q] = id[q] /\ loaded'[q] = loaded[q] /\ fd'[q] = fd[q]
  BY <1>0 DEF Frame
<1>2. Lone(id[q]) /\ Active(q) /\ Active(p)
  BY <1>0, <1>1, LoneWork DEF Frame, Active
<1>3. ~Writes(cmd[p])
  BY <1>2, LoneNoWriter
<1>4. UNCHANGED diskVars
  BY <1>3, ReaderStep
<1>5. Undisturbed(q)
  BY <1>2 DEF OwnInv
<1> QED BY <1>1, <1>4, <1>5 DEF Undisturbed, diskVars

LEMMA OwnSelf ==
    ASSUME TypeOK, PlaceInv, NumberInv, OwnInv, NEW p \in Procs, Work(p), UNCHANGED met,
           Active(p)', Lone(id[p])'
    PROVE  Undisturbed(p)'
<1>0. Frame(p) /\ Place(p) /\ ProcType /\ DiskType
  BY WorkFrame, TypeParts DEF PlaceInv
<1>1. cmd'[p] = cmd[p] /\ id'[p] = id[p]
  BY <1>0 DEF Frame
<1>2. Lone(id[p]) /\ Active(p)
  BY <1>0, <1>1, LoneWork DEF Frame, Active
<1>3. Undisturbed(p)
  BY <1>2 DEF OwnInv
<1>4. ASSUME NEW how \in {"ok", "bad", "cut"}, End(p, how) PROVE FALSE
  BY <1>4, EndFrame DEF Active
<1>5. ~Cut(p)
  BY <1>4 DEF Cut
<1>6. cmd[p] \in Command /\ loaded[p] \in Manifest /\ id[p] \in Version
  BY <1>0 DEF ProcType
<1> USE DEF Undisturbed, Saving
<1>7. CASE Exists(p)
  BY <1>5, <1>7, GotoFrame DEF Exists, Labels
<1>8. CASE Remove(p)
  BY <1>5, <1>8, GotoFrame DEF Remove, Labels
<1>9. CASE Create(p)
  BY <1>5, <1>9, GotoFrame DEF Create, Labels
<1>10. CASE Compile(p)
  <2>1. pc'[p] = "hash" /\ cmd'[p].op = "build"
    BY <1>0, <1>1, <1>5, <1>10, GotoFrame DEF Compile, Labels, Place, Building
  <2> QED BY <2>1
<1>11. CASE Load(p)
  <2>1. pc'[p] \in {"launch", "capture", "check"}
    BY <1>5, <1>11, GotoFrame DEF Load, Labels
  <2> QED BY <2>1
<1>12. CASE LaunchIteration(p)
  <2>1. cmd[p].op = "run"
    BY <1>0, <1>12 DEF LaunchIteration, Place
  <2>2. CASE Goto(p, "launch")
    BY <2>2, GotoFrame DEF Labels
  <2>3. CASE cmd[p].record /\ Goto(p, "save_open") /\ FileReport(p)
    <3>1. pc'[p] = "save_open"
      BY <2>3, GotoFrame DEF Labels
    <3>2. id[p] \in loaded'[p].benchmarks
      BY <1>0, <1>6, <2>3 DEF FileReport, ProcType, Manifest
    <3> QED BY <1>1, <2>1, <3>1, <3>2 DEF Effect
  <2>4. CASE ~cmd[p].record /\ Goto(p, "serve")
    <3>1. pc'[p] = "serve" /\ ~Writes(cmd[p])
      BY <2>1, <2>4, GotoFrame DEF Labels, Writes
    <3> QED BY <1>1, <3>1
  <2> QED BY <1>4, <1>5, <1>12, <2>2, <2>3, <2>4 DEF LaunchIteration, Recording
<1>13. CASE Capture(p)
  <2>1. cmd[p].name \in Names /\ vmstate \in [Names -> Version] /\ mem \in [Names -> Version]
    BY <1>0, <1>6, <1>13, CommandFields DEF Capture, Place, Capturing, DiskType
  <2>2. CASE vmstate' = [vmstate EXCEPT ![cmd[p].name] = id[p]] /\ Goto(p, "capture_mem")
    BY <1>1, <2>1, <2>2, GotoFrame DEF Labels
  <2>3. CASE mem' = [mem EXCEPT ![cmd[p].name] = id[p]] /\ Goto(p, "capture_vmstate")
    BY <1>1, <2>1, <2>3, GotoFrame DEF Labels
  <2> QED BY <1>5, <1>13, <2>2, <2>3 DEF Capture
<1>14. CASE CaptureRest(p)
  <2>1. cmd[p].name \in Names /\ vmstate \in [Names -> Version] /\ mem \in [Names -> Version]
    BY <1>0, <1>6, <1>14, CommandFields DEF CaptureRest, Place, Capturing, DiskType
  <2>2. pc'[p] \in {"verify_restore", "hash"}
    BY <1>5, <1>14, GotoFrame DEF CaptureRest, Captured, Labels
  <2>3. vmstate'[cmd[p].name] = id[p] /\ mem'[cmd[p].name] = id[p]
    BY <1>3, <1>5, <1>14, <2>1 DEF CaptureRest
  <2> QED BY <1>1, <2>2, <2>3
<1>15. CASE VerifyRestore(p)
  <2>1. pc'[p] = "hash" /\ vmstate' = vmstate /\ mem' = mem /\ pc[p] = "verify_restore"
    BY <1>5, <1>15, GotoFrame DEF VerifyRestore, Labels, diskVars
  <2> QED BY <1>1, <1>3, <2>1
<1>16. CASE Hash(p)
  <2>1. pc'[p] = "save_open"
    BY <1>5, <1>16, GotoFrame DEF Hash, Labels
  <2>2. CASE cmd[p].op = "build"
    BY <1>1, <2>1, <2>2 DEF Effect
  <2>3. CASE cmd[p].op = "snapshot"
    <3>1. cmd[p].name \in Names
      BY <1>6, <2>3, CommandFields
    <3>2. loaded'[p] = PutSnapshot(loaded[p], cmd[p].name, Files(cmd[p].name))
      BY <1>0, <1>5, <1>16, <2>3 DEF Hash, ProcType
    <3>3. Files(cmd[p].name) = Own(id[p])
      BY <1>3, <1>16, <2>3 DEF Hash, Files, Own
    <3>4. loaded'[p].snapshots[cmd[p].name] = Own(id[p])
      BY <1>6, <3>1, <3>2, <3>3 DEF PutSnapshot, Manifest
    <3> QED BY <1>1, <2>1, <2>3, <3>4 DEF Effect
  <2> QED BY <1>5, <1>16, <2>2, <2>3 DEF Hash
<1>17. CASE SaveOpen(p)
  <2>1. pc'[p] = "save_write" /\ pc[p] = "save_open" /\ loaded' = loaded
    BY <1>5, <1>17, GotoFrame DEF SaveOpen, Labels
  <2>2. meta' = Empty /\ fd'[p] = inode'
    BY <1>0, <1>5, <1>17 DEF SaveOpen, ProcType
  <2>3. Effect(id[p], cmd[p], loaded[p])
    BY <1>3, <2>1
  <2> QED BY <1>1, <2>1, <2>2, <2>3
<1>18. CASE SaveWrite(p)
  <2>1. pc'[p] = "serve" /\ pc[p] = "save_write"
    BY <1>4, <1>5, <1>18, GotoFrame DEF SaveWrite, Labels
  <2>2. meta = Empty /\ fd[p] = inode /\ Effect(id[p], cmd[p], loaded[p])
    BY <1>3, <2>1
  <2>3. Empty # Absent
    BY DEF Empty, Absent
  <2>4. meta' = loaded[p]
    BY <1>5, <1>18, <2>2, <2>3 DEF SaveWrite
  <2> QED BY <1>1, <2>1, <2>2, <2>4
<1>19. CASE Serve(p) \/ Check(p)
  BY <1>4, <1>5, <1>19 DEF Serve, Check
<1> QED BY <1>7, <1>8, <1>9, <1>10, <1>11, <1>12, <1>13, <1>14, <1>15, <1>16, <1>17, <1>18, <1>19
        DEF Work

LEMMA KeptStart ==
    ASSUME TypeOK, NumberInv, KeptInv, NEW p \in Procs, Start(p)
    PROVE  KeptInv'
<1>0. /\ done' = done /\ meta' = meta /\ emptied' = emptied /\ pc[p] = "idle"
      /\ pc'[p] \in {"exists", "load"} /\ (pc'[p] = "exists" <=> cmd'[p].op = "build")
  BY StartFrame DEF diskVars
<1>1. \A q \in Procs \ {p} : pc'[q] = pc[q] /\ cmd'[q] = cmd[q] /\ id'[q] = id[q] /\ loaded'[q] = loaded[q]
  BY StartFrame
<1> SUFFICES ASSUME NEW d \in done, Held(d)' PROVE Keeps(d)'
  BY <1>0 DEF KeptInv
<1>2. Lone(d.id)
  BY LoneStart DEF Held
<1>3. ~Superseded(d.id, d.cmd)
  <2> SUFFICES ASSUME Superseded(d.id, d.cmd) PROVE Superseded(d.id, d.cmd)'
    BY DEF Held
  <2>1. Captures(d.cmd.name)' = Captures(d.cmd.name)
    BY <1>0 DEF Captures, Since
  <2>2. ASSUME NEW q \in Procs, pc[q] \notin {"idle", "load", "capture"}
        PROVE  pc'[q] = pc[q] /\ cmd'[q] = cmd[q] /\ id'[q] = id[q]
    BY <1>0, <1>1, <2>2
  <2> QED BY <2>1, <2>2 DEF Superseded
<1>4. Keeps(d)
  BY <1>0, <1>2, <1>3 DEF KeptInv, Held
<1>5. (Readable => Effect(d.id, d.cmd, meta))'
  BY <1>0, <1>4 DEF Keeps, Readable, Effect
<1>6. ASSUME NEW q \in Procs, Holds(q)'
      PROVE  IF cmd'[q].op = "build" THEN pc'[q] \in {"exists", "remove", "create"}
             ELSE Effect(d.id, d.cmd, loaded'[q])
  <2>1. CASE q = p
    BY <1>0, <1>6, <2>1 DEF Holds
  <2>2. CASE q # p
    BY <1>1, <1>4, <1>6, <2>2 DEF Keeps, Holds
  <2> QED BY <2>1, <2>2
<1> QED BY <1>5, <1>6 DEF Keeps, Effect

\* Of the manifest a snapshot saves, only the record of its own name is new.
LEMMA PutOther ==
    ASSUME NEW m \in Manifest, NEW s \in Names, NEW n \in Names, s # n, NEW r
    PROVE  PutSnapshot(m, s, r).snapshots[n] = m.snapshots[n]
BY DEF PutSnapshot, Manifest

LEMMA PutBenchmarks ==
    ASSUME NEW m \in Manifest, NEW s \in Names, NEW r
    PROVE  PutSnapshot(m, s, r).benchmarks = m.benchmarks
BY DEF PutSnapshot, Manifest

\* A command that had ended before the step.
LEMMA KeptOld ==
    ASSUME TypeOK, PlaceInv, NumberInv, KeptInv, NEW p \in Procs, Work(p), UNCHANGED met,
           NEW d \in done, Held(d)'
    PROVE  Keeps(d)'
<1>0. Frame(p) /\ Place(p) /\ ProcType /\ DiskType
  BY WorkFrame, TypeParts DEF PlaceInv
<1>1. /\ Held(d) /\ emptied' = emptied
      /\ \A q \in Procs : Active(q) /\ Writes(cmd[q]) => id[q] > d.id
  BY HeldWork
<1>2. Keeps(d)
  BY <1>1 DEF KeptInv
<1>3. cmd' = cmd /\ id' = id
  BY <1>0 DEF Frame
<1>4. d.cmd \in Command /\ loaded[p] \in Manifest /\ cmd[p] \in Command
  BY <1>0, TypeParts DEF HistoryType, Ended, ProcType
<1>5. (Readable => Effect(d.id, d.cmd, meta))'
  <2> SUFFICES ASSUME meta' \notin Unreadable PROVE Effect(d.id, d.cmd, meta')
    BY DEF Readable, Effect
  <2>1. CASE meta' = meta
    BY <1>2, <2>1 DEF Keeps, Readable
  <2>2. CASE pc[p] = "save_write" /\ meta' = loaded[p]
    <3>1. Writes(cmd[p])
      BY <1>0, <2>2 DEF Place, Saving
    <3> QED BY <1>2, <2>2, <3>1 DEF Keeps, Holds
  <2> QED BY <2>1, <2>2, MetaStep
<1>6. ASSUME NEW q \in Procs, Holds(q)'
      PROVE  IF cmd'[q].op = "build" THEN pc'[q] \in {"exists", "remove", "create"}
             ELSE Effect(d.id, d.cmd, loaded'[q])
  <2>1. CASE q # p
    BY <1>0, <1>2, <1>6, <2>1 DEF Keeps, Holds, Frame
  <2>2. CASE q = p
    <3>1. Writes(cmd[p]) /\ pc'[p] # "idle" /\ pc[p] # "idle"
      BY <1>0, <1>3, <1>6, <2>2 DEF Holds, Frame
    <3>2. CASE cmd[p].op = "build"
      <4>1. pc[p] # "load"
        BY <1>0, <3>2 DEF Place
      <4>2. pc[p] \in {"exists", "remove", "create"}
        BY <1>2, <3>1, <3>2, <4>1 DEF Keeps, Holds
      <4>3. ~Cut(p)
        BY <3>1, EndFrame DEF Cut
      <4>4. CASE Exists(p) \/ Remove(p)
        BY <1>3, <2>2, <3>2, <4>3, <4>4, GotoFrame DEF Exists, Remove, Labels
      <4>5. CASE Create(p)
        <5>1. emptied' = id[p]
          BY <4>3, <4>5 DEF Create
        <5>2. id[p] > d.id /\ d.id > emptied /\ id[p] \in Nat /\ d.id \in Nat /\ emptied \in Nat
          BY <1>0, <1>1, <3>1, TypeParts, StoreAssumption
             DEF Active, Held, ProcType, HistoryType, Version, NumberInv, DoneNumbers, StoreAssumption
        <5> QED BY <1>1, <5>1, <5>2
      <4> QED BY <4>2, <4>4, <4>5
              DEF Work, Compile, Load, LaunchIteration, Capture, CaptureRest, VerifyRestore, Hash,
                  SaveOpen, SaveWrite, Serve, Check
    <3>3. CASE cmd[p].op # "build"
      <4>1. pc[p] # "load" => Effect(d.id, d.cmd, loaded[p])
        BY <1>2, <3>1, <3>3 DEF Keeps, Holds
      <4>2. Effect(d.id, d.cmd, loaded'[p])
        <5>1. CASE loaded'[p] = loaded[p] /\ pc[p] # "load"
          BY <4>1, <5>1
        <5>2. CASE pc[p] = "load" /\ Readable /\ loaded'[p] = meta
          BY <1>2, <5>2 DEF Keeps
        <5>3. CASE /\ pc[p] = "launch"
                   /\ loaded'[p] = [loaded[p] EXCEPT !.benchmarks = @ \cup {id[p]}]
          <6>1. Effect(d.id, d.cmd, loaded[p])
            BY <4>1, <5>3
          <6>2. /\ loaded'[p].snapshots = loaded[p].snapshots
                /\ loaded[p].benchmarks \subseteq loaded'[p].benchmarks
            BY <1>4, <5>3 DEF Manifest
          <6> QED BY <6>1, <6>2 DEF Effect
        <5>4. CASE /\ pc[p] = "hash" /\ cmd[p].op = "snapshot"
                   /\ loaded'[p] = PutSnapshot(loaded[p], cmd[p].name, Files(cmd[p].name))
          <6>1. Effect(d.id, d.cmd, loaded[p])
            BY <4>1, <5>4
          <6>2. cmd[p].name \in Names
            BY <1>4, <5>4, CommandFields
          <6>3. ASSUME d.cmd.op = "snapshot" PROVE d.cmd.name \in Names /\ d.cmd.name # cmd[p].name
            <7>1. d.cmd.name \in Names
              BY <1>4, <6>3, CommandFields
            <7>2. id[p] > d.id
              BY <1>1, <3>1 DEF Active
            <7> QED BY <1>1, <5>4, <6>3, <7>1, <7>2 DEF Held, Superseded
          <6>4. loaded'[p].benchmarks = loaded[p].benchmarks
            BY <1>4, <5>4, <6>2, PutBenchmarks
          <6>5. d.cmd.op = "snapshot" => loaded'[p].snapshots[d.cmd.name] = loaded[p].snapshots[d.cmd.name]
            BY <1>4, <5>4, <6>2, <6>3, PutOther
          <6> QED BY <6>1, <6>4, <6>5 DEF Effect
        <5>5. pc[p] = "load" => Load(p) /\ ~Cut(p)
          BY <3>1, EndFrame
             DEF Cut, Work, Exists, Remove, Create, Compile, LaunchIteration, Capture, CaptureRest,
                 VerifyRestore, Hash, SaveOpen, SaveWrite, Serve, Check
        <5>6. pc[p] = "load" => Readable /\ loaded'[p] = meta
          BY <1>0, <5>5 DEF Load, Readable, ProcType
        <5> QED BY <3>3, <5>1, <5>2, <5>3, <5>4, <5>6, HoldsStep DEF HoldsNext
      <4> QED BY <1>3, <2>2, <3>3, <4>2
    <3> QED BY <3>2, <3>3
  <2> QED BY <2>1, <2>2
<1> QED BY <1>5, <1>6 DEF Keeps, Effect

\* A command that ends well with the step.
LEMMA KeptNew ==
    ASSUME TypeOK, PlaceInv, NumberInv, OwnInv, NEW p \in Procs, Work(p), UNCHANGED met,
           NEW d \in done', d \notin done, Held(d)'
    PROVE  Keeps(d)'
<1>0. Frame(p) /\ Place(p)
  BY WorkFrame DEF PlaceInv
<1>1. pc'[p] = "idle" /\ d.id = id[p] /\ d.cmd = cmd[p] /\ d.at = pc[p]
  BY <1>0 DEF Frame, EndRecord
<1>2. cmd' = cmd /\ id' = id /\ Active(p)
  BY <1>0 DEF Frame, Active
<1>3. Lone(id[p]) /\ Writes(cmd[p]) /\ d.how = "ok"
  <2>1. Lone(d.id)
    BY <1>0, LoneWork DEF Held
  <2> QED BY <1>1, <2>1 DEF Held
<1>4. Undisturbed(p)
  BY <1>2, <1>3 DEF OwnInv
<1>5. ASSUME NEW q \in Procs, Holds(q)' PROVE FALSE
  <2>1. q # p
    BY <1>1, <1>5 DEF Holds
  <2>2. Active(q) /\ Writes(cmd[q])
    BY <1>0, <1>2, <1>5, <2>1 DEF Holds, Frame, Active
  <2> QED BY <1>2, <1>3, <2>1, <2>2, LoneNoWriter
<1>6. ASSUME NEW l \in Labels \ {"idle"}, Goto(p, l) PROVE FALSE
  BY <1>1, <1>6, GotoFrame
<1>7. ~Cut(p)
  BY <1>3, EndFrame DEF Cut, EndRecord
<1>8. SaveWrite(p) \/ Serve(p)
  <2>1. ~(Exists(p) \/ Remove(p) \/ Create(p) \/ Compile(p))
    BY <1>6, <1>7 DEF Exists, Remove, Create, Compile, Labels
  <2>2. ~(Load(p) \/ Capture(p) \/ CaptureRest(p) \/ VerifyRestore(p))
    BY <1>6, <1>7 DEF Load, Capture, CaptureRest, Captured, VerifyRestore, Labels
  <2>3. ~(Hash(p) \/ SaveOpen(p))
    BY <1>6, <1>7 DEF Hash, SaveOpen, Labels
  <2>4. ~LaunchIteration(p)
    BY <1>0, <1>3, <1>6, <1>7 DEF LaunchIteration, Recording, Labels, Place, Writes
  <2>5. ~Check(p)
    BY <1>0, <1>3 DEF Check, Place, Writes
  <2> QED BY <2>1, <2>2, <2>3, <2>4, <2>5 DEF Work
<1>9. Effect(d.id, d.cmd, meta')
  <2>1. CASE SaveWrite(p)
    <3>1. pc[p] = "save_write" /\ meta = Empty /\ fd[p] = inode /\ Effect(id[p], cmd[p], loaded[p])
      BY <1>4, <2>1 DEF SaveWrite, Undisturbed, Saving
    <3>2. meta' = loaded[p]
      BY <1>7, <2>1, <3>1 DEF SaveWrite, Empty, Absent
    <3> QED BY <1>1, <3>1, <3>2
  <2>2. CASE Serve(p)
    BY <1>1, <1>3, <1>4, <2>2 DEF Serve, Undisturbed, diskVars
  <2> QED BY <1>8, <2>1, <2>2
<1> QED BY <1>5, <1>9 DEF Keeps, Effect, Readable

LEMMA KeptWork ==
    ASSUME TypeOK, PlaceInv, NumberInv, OwnInv, KeptInv, NEW p \in Procs, Work(p), UNCHANGED met
    PROVE  OwnInv' /\ KeptInv'
<1>1. OwnInv'
  <2> SUFFICES ASSUME NEW q \in Procs, Active(q)', Lone(id[q])' PROVE Undisturbed(q)'
    BY DEF OwnInv
  <2> QED BY OwnOther, OwnSelf
<1>2. KeptInv'
  <2> SUFFICES ASSUME NEW d \in done', Held(d)' PROVE Keeps(d)'
    BY DEF KeptInv
  <2> QED BY KeptOld, KeptNew
<1> QED BY <1>1, <1>2

-----------------------------------------------------------------------------
(***************************************************************************)
(* Whose reports the manifest may list: once a lone build has made the     *)
(* directory, those of runs that started after it.                         *)
(***************************************************************************)
Runs ==
    {d.id : d \in Since("run")}
      \cup {id[q] : q \in {r \in Procs : Active(r) /\ cmd[r].op = "run" /\ id[r] > emptied}}

Empties(p) ==
    /\ Active(p) /\ cmd[p].op = "build" => loaded[p].benchmarks = {}
    /\ pc[p] = "create" /\ Lone(id[p]) => meta = Absent

ReportsInv ==
    /\ meta # Absent => dir
    /\ \A p \in Procs : Empties(p)
    /\ Lone(emptied) =>
         /\ Readable => meta.benchmarks \subseteq Runs
         /\ \A q \in Procs : Holds(q) => loaded[q].benchmarks \subseteq Runs

LEMMA ReportsInit == Init => ReportsInv
BY DEF Init, ReportsInv, Empties, Active, Readable, Unreadable, Holds

LEMMA RunsGrow ==
    ASSUME TypeOK, NEW p \in Procs, Frame(p), emptied' = emptied
    PROVE  Runs \subseteq Runs'
<1> SUFFICES ASSUME NEW x \in Runs PROVE x \in Runs'
  OBVIOUS
<1>1. done \subseteq done' /\ cmd' = cmd /\ id' = id
  BY DEF Frame
<1>2. CASE \E d \in Since("run") : x = d.id
  BY <1>1, <1>2 DEF Since, Runs
<1>3. CASE \E q \in Procs : Active(q) /\ cmd[q].op = "run" /\ id[q] > emptied /\ x = id[q]
  <2>1. PICK q \in Procs : Active(q) /\ cmd[q].op = "run" /\ id[q] > emptied /\ x = id[q]
    BY <1>3
  <2>2. CASE Active(q)'
    BY <1>1, <2>1, <2>2 DEF Runs
  <2>3. CASE ~Active(q)'
    <3>1. q = p /\ pc'[p] = "idle"
      BY <2>1, <2>3 DEF Frame, Active
    <3>2. PICK how \in {"ok", "bad", "cut"} : done' = done \cup {EndRecord(p, how)}
      BY <3>1 DEF Frame, Labels
    <3>3. EndRecord(p, how).id = x /\ EndRecord(p, how).cmd.op = "run" /\ EndRecord(p, how) \in done'
      BY <2>1, <3>1, <3>2 DEF EndRecord
    <3>4. EndRecord(p, how) \in Since("run")'
      BY <2>1, <3>3 DEF Since
    <3> QED BY <3>3, <3>4 DEF Runs
  <2> QED BY <2>2, <2>3
<1> QED BY <1>2, <1>3 DEF Runs

LEMMA ReportsStart ==
    ASSUME TypeOK, NumberInv, ReportsInv, NEW p \in Procs, Start(p)
    PROVE  ReportsInv'
<1>0. /\ done' = done /\ meta' = meta /\ dir' = dir /\ emptied' = emptied /\ pc[p] = "idle"
      /\ pc'[p] \in {"exists", "load"} /\ (pc'[p] = "exists" <=> cmd'[p].op = "build")
      /\ loaded'[p] = Blank
  BY StartFrame DEF diskVars
<1>1. \A q \in Procs \ {p} : pc'[q] = pc[q] /\ cmd'[q] = cmd[q] /\ id'[q] = id[q] /\ loaded'[q] = loaded[q]
  BY StartFrame
<1>2. ASSUME NEW q \in Procs PROVE Empties(q)'
  <2>1. CASE q = p
    BY <1>0, <2>1 DEF Empties, Blank
  <2>2. CASE q # p
    <3>1. Lone(id[q])' => Lone(id[q])
      <4> SUFFICES ASSUME Lone(id[q])' PROVE Lone(id[q])
        OBVIOUS
      <4>1. id'[q] = id[q]
        BY <1>1, <2>2
      <4> QED BY <4>1, LoneStart
    <3> QED BY <1>0, <1>1, <2>2, <3>1 DEF Empties, ReportsInv, Active
  <2> QED BY <2>1, <2>2
<1>3. ASSUME Lone(emptied)' PROVE Lone(emptied)
  BY <1>0, <1>3, LoneStart
<1>4. Runs \subseteq Runs'
  <2>1. ASSUME NEW q \in Procs, Active(q)
        PROVE  Active(q)' /\ cmd'[q] = cmd[q] /\ id'[q] = id[q]
    BY <1>0, <1>1, <2>1 DEF Active
  <2>2. Since("run")' = Since("run")
    BY <1>0 DEF Since
  <2> QED BY <1>0, <2>1, <2>2 DEF Runs
<1>5. ASSUME Lone(emptied)', NEW q \in Procs, Holds(q)' PROVE loaded'[q].benchmarks \subseteq Runs'
  <2>1. CASE q = p
    BY <1>0, <2>1 DEF Blank
  <2>2. CASE q # p
    BY <1>1, <1>3, <1>4, <1>5, <2>2 DEF ReportsInv, Holds
  <2> QED BY <2>1, <2>2
<1> QED BY <1>0, <1>2, <1>3, <1>4, <1>5 DEF ReportsInv, Readable

\* The directory: nothing saves a manifest without making it.
LEMMA DirStep ==
    ASSUME TypeOK, PlaceInv, NEW p \in Procs, Work(p), meta # Absent => dir
    PROVE  meta' # Absent => dir'
BY DEF Work, Exists, Remove, Create, Compile, Load, LaunchIteration, Capture, CaptureRest,
       VerifyRestore, Hash, SaveOpen, SaveWrite, Serve, Check, diskVars

LEMMA EmptiesWork ==
    ASSUME TypeOK, PlaceInv, NumberInv, ReportsInv, NEW p \in Procs, Work(p), UNCHANGED met,
           NEW q \in Procs
    PROVE  Empties(q)'
<1>0. Frame(p) /\ Place(p) /\ DiskType /\ ProcType
  BY WorkFrame, TypeParts DEF PlaceInv
<1>1. cmd'[q] = cmd[q] /\ id'[q] = id[q]
  BY <1>0 DEF Frame
<1>2. ASSUME Lone(id[q])' PROVE Lone(id[q])
  BY <1>0, <1>1, <1>2, LoneWork
<1>3. CASE q # p
  <2>1. pc'[q] = pc[q] /\ loaded'[q] = loaded[q]
    BY <1>0, <1>3 DEF Frame
  <2>2. ASSUME pc[q] = "create", Lone(id[q]) PROVE meta' = Absent
    <3>1. ~Writes(cmd[p])
      BY <1>0, <1>3, <2>2, LoneNoWriter DEF Frame, Active
    <3> QED BY <2>2, <3>1, ReaderStep DEF ReportsInv, Empties, diskVars
  <2> QED BY <1>1, <1>2, <2>1, <2>2 DEF ReportsInv, Empties, Active
<1>4. CASE q = p
  <2>1. ASSUME cmd[p].op = "build", Active(p) PROVE loaded'[p].benchmarks = {}
    <3>1. loaded[p].benchmarks = {} /\ loaded[p] \in Manifest
      BY <1>0, <2>1 DEF ReportsInv, Empties, ProcType
    <3>2. CASE loaded'[p] = loaded[p]
      BY <3>1, <3>2
    <3>3. CASE loaded'[p] = [loaded[p] EXCEPT !.app = app]
      BY <3>1, <3>3 DEF Manifest
    <3>4. pc[p] # "load"
      BY <1>0, <2>1 DEF Place
    <3> QED BY <2>1, <3>2, <3>3, <3>4, HoldsStep DEF HoldsNext
  <2>2. ASSUME pc'[p] = "create" PROVE meta' = Absent
    <3>1. ~Cut(p) /\ \A how \in {"ok", "bad", "cut"} : ~End(p, how)
      BY <2>2, EndFrame DEF Cut
    <3>2. \A l \in Labels \ {"idle"} : Goto(p, l) => l = "create"
      BY <2>2, GotoFrame
    <3>3. CASE Exists(p)
      BY <3>1, <3>2, <3>3 DEF Exists, Labels, ReportsInv, diskVars
    <3>4. CASE Remove(p)
      BY <3>1, <3>4 DEF Remove
    <3>5. ~(Create(p) \/ Compile(p) \/ Load(p) \/ LaunchIteration(p) \/ Capture(p))
      BY <3>1, <3>2 DEF Create, Compile, Load, LaunchIteration, Recording, Capture, Labels
    <3>6. ~(CaptureRest(p) \/ VerifyRestore(p) \/ Hash(p) \/ SaveOpen(p) \/ SaveWrite(p))
      BY <3>1, <3>2 DEF CaptureRest, Captured, VerifyRestore, Hash, SaveOpen, SaveWrite, Labels
    <3>7. ~(Serve(p) \/ Check(p))
      BY <3>1 DEF Serve, Check
    <3> QED BY <3>3, <3>4, <3>5, <3>6, <3>7 DEF Work
  <2>3. Active(p)
    BY <1>0 DEF Frame, Active
  <2> QED BY <1>1, <1>4, <2>1, <2>2, <2>3 DEF Empties
<1> QED BY <1>3, <1>4

LEMMA ReportsWork ==
    ASSUME TypeOK, PlaceInv, NumberInv, EmptiedBy, ReportsInv, NEW p \in Procs, Work(p), UNCHANGED met
    PROVE  ReportsInv'
<1>0. Frame(p) /\ Place(p) /\ DiskType /\ ProcType
  BY WorkFrame, TypeParts DEF PlaceInv
<1>1. cmd' = cmd /\ id' = id
  BY <1>0 DEF Frame
<1>2. (meta # Absent => dir)'
  BY DirStep DEF ReportsInv
<1>3. \A q \in Procs : Empties(q)'
  BY EmptiesWork
<1>4. CASE emptied' # emptied /\ Lone(emptied)'
  <2>1. pc[p] = "create" /\ emptied' = id[p] /\ pc'[p] = "compile" /\ cmd[p].op = "build"
    BY <1>0, <1>4 DEF Frame, Place, Building
  <2>2. Lone(id[p])
    BY <1>0, <1>4, <2>1, LoneWork
  <2>3. meta' = Absent /\ loaded' = loaded
    BY <2>1, <2>2
       DEF ReportsInv, Empties, Work, Exists, Remove, Create, Compile, Load, LaunchIteration, Capture,
           CaptureRest, VerifyRestore, Hash, SaveOpen, SaveWrite, Serve, Check, procVars
  <2>4. ASSUME NEW q \in Procs, Holds(q)' PROVE loaded'[q].benchmarks \subseteq Runs'
    <3>1. CASE q = p
      BY <2>1, <2>3, <3>1 DEF ReportsInv, Empties, Active
    <3>2. CASE q # p
      <4>1. Active(q) /\ Writes(cmd[q]) /\ Active(p)
        BY <1>0, <1>1, <2>4, <3>2 DEF Holds, Frame, Active
      <4> QED BY <2>2, <3>2, <4>1, LoneNoWriter
    <3> QED BY <3>1, <3>2
  <2> QED BY <1>2, <1>3, <2>3, <2>4 DEF ReportsInv, Readable, Unreadable
<1>5. CASE emptied' = emptied /\ Lone(emptied)'
  <2>1. Lone(emptied)
    BY <1>0, <1>5, LoneWork
  <2>2. Runs \subseteq Runs'
    BY <1>0, <1>5, RunsGrow
  <2>3. ASSUME meta' \notin Unreadable PROVE meta'.benchmarks \subseteq Runs'
    <3>1. CASE meta' = meta
      BY <2>1, <2>2, <2>3, <3>1 DEF ReportsInv, Readable
    <3>2. CASE pc[p] = "save_write" /\ meta' = loaded[p]
      BY <1>0, <2>1, <2>2, <3>2 DEF ReportsInv, Holds, Place, Saving
    <3> QED BY <2>3, <3>1, <3>2, MetaStep
  <2>4. ASSUME NEW q \in Procs, Holds(q)' PROVE loaded'[q].benchmarks \subseteq Runs'
    <3>1. CASE q # p
      BY <1>0, <1>1, <2>1, <2>2, <2>4, <3>1 DEF ReportsInv, Holds, Frame
    <3>2. CASE q = p
      <4>0. Writes(cmd[p]) /\ Active(p) /\ Active(p)'
        BY <1>0, <1>1, <2>4, <3>2 DEF Holds, Active, Frame
      <4>1. pc[p] # "load" => loaded[p].benchmarks \subseteq Runs'
        BY <2>1, <2>2, <4>0 DEF ReportsInv, Holds, Active
      <4>2. CASE loaded'[p] = loaded[p] /\ pc[p] # "load"
        BY <3>2, <4>1, <4>2
      <4>3. CASE pc[p] = "load" /\ Readable /\ loaded'[p] = meta
        BY <2>1, <2>2, <3>2, <4>3 DEF ReportsInv
      <4>4. CASE /\ pc[p] = "launch" /\ cmd[p].op = "run"
                 /\ loaded'[p] = [loaded[p] EXCEPT !.benchmarks = @ \cup {id[p]}]
        <5>1. id[p] > emptied
          BY <2>1, <4>0, <4>4, LoneEmptied
        <5>2. id[p] \in Runs'
          BY <1>1, <1>5, <4>0, <4>4, <5>1 DEF Runs
        <5>3. loaded'[p].benchmarks = loaded[p].benchmarks \cup {id[p]}
          BY <1>0, <4>4 DEF ProcType, Manifest
        <5> QED BY <3>2, <4>1, <4>4, <5>2, <5>3
      <4>5. CASE pc[p] = "hash" /\ loaded'[p] = [loaded[p] EXCEPT !.app = app]
        <5>1. loaded'[p].benchmarks = loaded[p].benchmarks
          BY <1>0, <4>5 DEF ProcType, Manifest
        <5> QED BY <3>2, <4>1, <4>5, <5>1
      <4>6. CASE /\ pc[p] = "hash" /\ cmd[p].op = "snapshot"
                 /\ loaded'[p] = PutSnapshot(loaded[p], cmd[p].name, Files(cmd[p].name))
        <5>1. cmd[p].name \in Names /\ loaded[p] \in Manifest
          BY <1>0, <4>6, CommandFields DEF ProcType
        <5>2. loaded'[p].benchmarks = loaded[p].benchmarks
          BY <4>6, <5>1, PutBenchmarks
        <5> QED BY <3>2, <4>1, <4>6, <5>2
      <4>7. pc[p] = "load" => Load(p) /\ ~Cut(p)
        BY <4>0, EndFrame
           DEF Active, Cut, Work, Exists, Remove, Create, Compile, LaunchIteration, Capture, CaptureRest,
               VerifyRestore, Hash, SaveOpen, SaveWrite, Serve, Check
      <4>8. pc[p] = "load" => Readable /\ loaded'[p] = meta
        BY <1>0, <4>7 DEF Load, Readable, ProcType
      <4> QED BY <4>2, <4>3, <4>4, <4>5, <4>6, <4>8, HoldsStep DEF HoldsNext
    <3> QED BY <3>1, <3>2
  <2> QED BY <1>2, <1>3, <2>3, <2>4 DEF ReportsInv, Readable
<1> QED BY <1>2, <1>3, <1>4, <1>5 DEF ReportsInv

-----------------------------------------------------------------------------
(***************************************************************************)
(* Who can cost the manifest.  Pen(x): command x has it open for writing   *)
(* or wrote it, or was cut between the two.  Touch(x): that, or x took the *)
(* directory away and has not made it again.                               *)
(***************************************************************************)
Pen(x) ==
    \/ \E d \in Writers : d.id = x /\ (Saved(d) \/ (d.how = "cut" /\ d.at = "save_write"))
    \/ \E q \in Procs : id[q] = x /\ Writes(cmd[q]) /\ pc[q] \in {"save_write", "serve"}

Touch(x) ==
    \/ Pen(x)
    \/ \E d \in Writers : d.id = x /\ Reckless(d)
    \/ \E q \in Procs : id[q] = x /\ pc[q] = "create"

LEMMA PenStart ==
    ASSUME TypeOK, NEW p \in Procs, Start(p), NEW x
    PROVE  (Pen(x) => Pen(x)') /\ (Touch(x) => Touch(x)')
<1>1. done' = done /\ pc[p] = "idle"
  BY StartFrame
<1>2. \A q \in Procs \ {p} : pc'[q] = pc[q] /\ cmd'[q] = cmd[q] /\ id'[q] = id[q]
  BY StartFrame
<1>3. Writers' = Writers
  BY <1>1 DEF Writers
<1>4. Pen(x) => Pen(x)'
  BY <1>1, <1>2, <1>3 DEF Pen
<1>5. Touch(x) => Touch(x)'
  BY <1>1, <1>2, <1>3, <1>4 DEF Touch
<1> QED BY <1>4, <1>5

\* The steps out of the last stages.
LEMMA LastStages ==
    ASSUME TypeOK, NEW p \in Procs, Work(p)
    PROVE  /\ pc[p] = "save_write" => SaveWrite(p)
           /\ pc[p] = "serve" => Serve(p)
           /\ pc[p] = "create" => Create(p)
           /\ pc[p] = "save_open" => SaveOpen(p)
BY DEF Work, Exists, Remove, Create, Compile, Load, LaunchIteration, Capture, CaptureRest,
       VerifyRestore, Hash, SaveOpen, SaveWrite, Serve, Check

LEMMA EndedIn ==
    ASSUME NEW p \in Procs, NEW how \in {"ok", "bad", "cut"}, done' = done \cup {EndRecord(p, how)}
    PROVE  \E d \in done' : d.id = id[p] /\ d.cmd = cmd[p] /\ d.how = how /\ d.at = pc[p]
<1>1. EndRecord(p, how) \in done'
  OBVIOUS
<1>2. /\ EndRecord(p, how).id = id[p] /\ EndRecord(p, how).cmd = cmd[p]
      /\ EndRecord(p, how).how = how /\ EndRecord(p, how).at = pc[p]
  BY DEF EndRecord
<1> QED BY <1>1, <1>2

\* A step from save_write or serve keeps the pen, or ends as one who had it.
LEMMA PenSelf ==
    ASSUME TypeOK, NEW p \in Procs, Work(p), UNCHANGED met, Writes(cmd[p]),
           pc[p] \in {"save_write", "serve"}
    PROVE  Pen(id[p])'
<1>0. Frame(p)
  BY WorkFrame
<1>1. cmd' = cmd /\ id' = id
  BY <1>0 DEF Frame
<1>2. ASSUME NEW how \in {"ok", "cut"}, End(p, how) PROVE Pen(id[p])'
  <2>1. done' = done \cup {EndRecord(p, how)}
    BY <1>2, EndFrame
  <2>2. PICK d \in done' : d.id = id[p] /\ d.cmd = cmd[p] /\ d.how = how /\ d.at = pc[p]
    BY <2>1, EndedIn
  <2>3. d \in Writers'
    BY <2>2 DEF Writers
  <2> QED BY <1>1, <2>2, <2>3 DEF Pen, Saved
<1>3. ASSUME Cut(p) PROVE Pen(id[p])'
  BY <1>2, <1>3 DEF Cut
<1>4. ASSUME Goto(p, "serve") PROVE Pen(id[p])'
  <2>1. pc'[p] = "serve"
    BY <1>4, GotoFrame DEF Labels
  <2> QED BY <1>1, <2>1 DEF Pen
<1> QED BY <1>2, <1>3, <1>4, LastStages DEF SaveWrite, Serve

LEMMA PenWork ==
    ASSUME TypeOK, NEW p \in Procs, Work(p), UNCHANGED met, NEW x, Pen(x)
    PROVE  Pen(x)'
<1>0. Frame(p)
  BY WorkFrame
<1>1. cmd' = cmd /\ id' = id /\ Writers \subseteq Writers'
  BY <1>0 DEF Frame, Writers
<1>2. CASE \E d \in Writers : d.id = x /\ (Saved(d) \/ (d.how = "cut" /\ d.at = "save_write"))
  BY <1>1, <1>2 DEF Pen
<1>3. CASE \E q \in Procs : id[q] = x /\ Writes(cmd[q]) /\ pc[q] \in {"save_write", "serve"}
  <2>1. PICK q \in Procs : id[q] = x /\ Writes(cmd[q]) /\ pc[q] \in {"save_write", "serve"}
    BY <1>3
  <2>2. CASE q # p
    BY <1>0, <1>1, <2>1, <2>2 DEF Pen, Frame
  <2>3. CASE q = p
    <3>1. Pen(id[p])' /\ id'[p] = x
      BY <1>1, <2>1, <2>3, PenSelf
    <3> QED BY <3>1 DEF Pen
  <2> QED BY <2>2, <2>3
<1> QED BY <1>2, <1>3 DEF Pen

\* No build that has yet to make the directory is the one that made it last.
LEMMA NotYetEmptied ==
    ASSUME TypeOK, NumberInv, EmptiedBy, NEW p \in Procs, pc[p] \in {"exists", "remove", "create"}
    PROVE  id[p] # emptied
<1>0. Active(p)
  BY DEF Active
<1>1. id[p] \in 1 .. started
  BY <1>0 DEF NumberInv, RunningNumbers
<1>2. id[p] # 0
  BY <1>1
<1>3. \A q \in Procs : Active(q) /\ q # p => id[p] # id[q]
  BY <1>0 DEF NumberInv, RunningNumbers
<1>4. \A d \in done : d.id # id[p]
  BY <1>0 DEF NumberInv, RunningNumbers
<1>5. CASE \E q \in Procs : Emptier(cmd[q], id[q]) /\ pc[q] \in {"compile", "hash", "save_open", "save_write"}
  BY <1>5, <1>3 DEF Emptier, Active
<1>6. CASE \E d \in done : Emptier(d.cmd, d.id)
  BY <1>6, <1>4 DEF Emptier
<1> QED BY <1>5, <1>6, <1>2 DEF EmptiedBy

LEMMA TouchWork ==
    ASSUME TypeOK, PlaceInv, NumberInv, EmptiedBy, NEW p \in Procs, Work(p), UNCHANGED met,
           emptied' = emptied, NEW x, Touch(x)
    PROVE  Touch(x)'
<1>0. Frame(p) /\ Place(p)
  BY WorkFrame DEF PlaceInv
<1>1. cmd' = cmd /\ id' = id /\ Writers \subseteq Writers'
  BY <1>0 DEF Frame, Writers
<1>2. CASE Pen(x)
  BY <1>2, PenWork DEF Touch
<1>3. CASE \E d \in Writers : d.id = x /\ Reckless(d)
  BY <1>1, <1>3 DEF Touch
<1>4. CASE \E q \in Procs : id[q] = x /\ pc[q] = "create"
  <2>1. PICK q \in Procs : id[q] = x /\ pc[q] = "create"
    BY <1>4
  <2>2. CASE q # p
    BY <1>0, <1>1, <2>1, <2>2 DEF Touch, Frame
  <2>3. CASE q = p
    <3>1. Create(p) /\ emptied' # id[p] /\ Writes(cmd[p])
      BY <1>0, <2>1, <2>3, LastStages, NotYetEmptied DEF Place, Building, Writes
    <3>2. Cut(p)
      BY <3>1 DEF Create
    <3>3. done' = done \cup {EndRecord(p, "cut")}
      BY <3>2, EndFrame DEF Cut
    <3>4. PICK d \in done' : d.id = id[p] /\ d.cmd = cmd[p] /\ d.how = "cut" /\ d.at = pc[p]
      BY <3>3, EndedIn
    <3>5. d \in Writers' /\ Reckless(d) /\ d.id = x
      BY <2>1, <2>3, <3>1, <3>4 DEF Writers, Reckless
    <3> QED BY <3>5 DEF Touch
  <2> QED BY <2>2, <2>3
<1> QED BY <1>2, <1>3, <1>4 DEF Touch

\* What a step does to the manifest's file, and what it makes of p.
Handles(p) ==
    \/ UNCHANGED <<meta, inode, fd>>
    \/ /\ pc[p] = "remove" /\ meta' \in {meta, Absent} /\ UNCHANGED <<inode, fd>>
       /\ \/ pc'[p] = "create"
          \/ done' = done \cup {EndRecord(p, "cut")}
    \/ /\ pc[p] = "save_open" /\ pc'[p] = "save_write" /\ meta' = Empty
       /\ inode' = (IF meta = Absent THEN inode + 1 ELSE inode)
       /\ fd'[p] = inode' /\ \A q \in Procs \ {p} : fd'[q] = fd[q]
    \/ /\ pc[p] = "save_write" /\ UNCHANGED <<inode, fd>>
       /\ meta = Absent \/ fd[p] # inode => meta' = meta
       /\ \/ done' = done \cup {EndRecord(p, "cut")}
          \/ meta = Empty /\ fd[p] = inode => meta' = loaded[p]

LEMMA HandlesStep ==
    ASSUME TypeOK, NEW p \in Procs, Work(p)
    PROVE  Handles(p)
<1>0. ProcType
  BY TypeParts
<1> USE DEF Handles
<1>1. CASE Remove(p)
  <2>1. Cut(p) => done' = done \cup {EndRecord(p, "cut")}
    BY EndFrame DEF Cut
  <2>2. Goto(p, "create") => pc'[p] = "create"
    BY GotoFrame DEF Labels
  <2> QED BY <1>1, <2>1, <2>2 DEF Remove, procVars
<1>2. CASE SaveOpen(p)
  <2>1. Goto(p, "save_write") => pc'[p] = "save_write"
    BY GotoFrame DEF Labels
  <2> QED BY <1>0, <1>2, <2>1 DEF SaveOpen, ProcType
<1>3. CASE SaveWrite(p)
  <2>1. Cut(p) => done' = done \cup {EndRecord(p, "cut")}
    BY EndFrame DEF Cut
  <2>2. Empty # Absent
    BY DEF Empty, Absent
  <2> QED BY <1>3, <2>1, <2>2 DEF SaveWrite, procVars
<1> QED BY <1>1, <1>2, <1>3
        DEF Work, Exists, Create, Compile, Load, LaunchIteration, Capture, CaptureRest, VerifyRestore,
            Hash, Serve, Check, diskVars, procVars

\* Whoever changes the manifest's file has touched it; with the pen unless by removing it.
LEMMA HandlesTouch ==
    ASSUME TypeOK, PlaceInv, NEW p \in Procs, Work(p), UNCHANGED met, ~UNCHANGED <<meta, inode, fd>>
    PROVE  Touch(id[p])' /\ (pc[p] # "remove" => Pen(id[p])')
<1>0. Frame(p) /\ Place(p)
  BY WorkFrame DEF PlaceInv
<1>1. cmd' = cmd /\ id' = id
  BY <1>0 DEF Frame
<1>2. CASE pc[p] = "remove"
  <2>1. pc'[p] = "create" \/ done' = done \cup {EndRecord(p, "cut")}
    BY <1>2, HandlesStep DEF Handles
  <2>2. CASE pc'[p] = "create"
    BY <1>1, <1>2, <2>2 DEF Touch
  <2>3. CASE done' = done \cup {EndRecord(p, "cut")}
    <3>1. PICK d \in done' : d.id = id[p] /\ d.cmd = cmd[p] /\ d.how = "cut" /\ d.at = pc[p]
      BY <2>3, EndedIn
    <3>2. d \in Writers' /\ Reckless(d)
      BY <1>0, <1>2, <3>1 DEF Writers, Reckless, Place, Building, Writes
    <3>3. id'[p] = d.id
      BY <1>1, <3>1
    <3> QED BY <1>2, <3>2, <3>3 DEF Touch
  <2> QED BY <2>1, <2>2, <2>3
<1>3. CASE pc[p] = "save_open"
  <2>1. pc'[p] = "save_write" /\ Writes(cmd[p])
    BY <1>0, <1>3, HandlesStep DEF Handles, Place, Saving
  <2> QED BY <1>1, <2>1 DEF Pen, Touch
<1>4. CASE pc[p] = "save_write"
  BY <1>0, <1>4, PenSelf DEF Place, Saving, Touch
<1> QED BY <1>2, <1>3, <1>4, HandlesStep DEF Handles

(***************************************************************************)
(* A writer at save_write will write its text whole, or writes nowhere, or *)
(* has met another with a pen.  Of the build that made the directory last: *)
(* while it saves, its text will stand unless it has met one that touched  *)
(* the manifest; once it has ended well the manifest is readable, or in    *)
(* the hands of a later command (Risk), or two that touched it met (Brawl).*)
(***************************************************************************)
Whole(q) == meta = Empty /\ fd[q] = inode

Risk ==
    \/ \E d \in done : d.id > emptied /\ Reckless(d)
    \/ \E q \in Procs : /\ id[q] > emptied
                        /\ pc[q] = "create" \/ (pc[q] = "save_write" /\ Whole(q))

Brawl == \E x, y \in Version : Touch(x) /\ Touch(y) /\ {x, y} \in met

SaverInv ==
    /\ \A q \in Procs : fd[q] <= inode
    /\ \A q \in Procs : pc[q] = "save_write" =>
         \/ Whole(q) \/ meta = Absent \/ fd[q] # inode
         \/ \E x \in Version : Pen(x) /\ {x, id[q]} \in met

BuiltWell(d) == d.cmd.op = "build" /\ d.id = emptied /\ d.how = "ok"

LostInv ==
    /\ \A q \in Procs : pc[q] = "save_write" /\ id[q] = emptied =>
         Whole(q) \/ \E x \in Version : Touch(x) /\ {x, id[q]} \in met
    /\ \A d \in done : BuiltWell(d) => Readable \/ Risk \/ Brawl

LEMMA LostInit == Init => SaverInv /\ LostInv
BY DEF Init, SaverInv, LostInv

LEMMA LostStart ==
    ASSUME TypeOK, NumberInv, SaverInv, LostInv, NEW p \in Procs, Start(p)
    PROVE  SaverInv' /\ LostInv'
<1>0. /\ done' = done /\ pc[p] = "idle" /\ pc'[p] \in {"exists", "load"} /\ met \subseteq met'
      /\ meta' = meta /\ inode' = inode /\ fd' = fd /\ emptied' = emptied
  BY StartFrame DEF diskVars
<1>1. \A q \in Procs \ {p} : pc'[q] = pc[q] /\ cmd'[q] = cmd[q] /\ id'[q] = id[q]
  BY StartFrame
<1>2. \A x : (Pen(x) => Pen(x)') /\ (Touch(x) => Touch(x)')
  BY PenStart
<1>3. SaverInv'
  <2>1. ASSUME NEW q \in Procs, pc'[q] = "save_write"
        PROVE  \/ Whole(q)' \/ meta' = Absent \/ fd'[q] # inode'
               \/ \E x \in Version : Pen(x)' /\ {x, id'[q]} \in met'
    <3>1. q # p /\ pc[q] = "save_write" /\ id'[q] = id[q]
      BY <1>0, <1>1, <2>1
    <3>2. \/ Whole(q) \/ meta = Absent \/ fd[q] # inode
          \/ \E x \in Version : Pen(x) /\ {x, id[q]} \in met
      BY <3>1 DEF SaverInv
    <3> QED BY <1>0, <1>2, <3>1, <3>2 DEF Whole
  <2> QED BY <1>0, <2>1 DEF SaverInv, Version
<1>4. ASSUME NEW q \in Procs, pc'[q] = "save_write", id'[q] = emptied
      PROVE  Whole(q)' \/ \E x \in Version : Touch(x)' /\ {x, id'[q]} \in met'
  <2>1. q # p /\ pc[q] = "save_write" /\ id'[q] = id[q]
    BY <1>0, <1>1, <1>4
  <2>2. Whole(q) \/ \E x \in Version : Touch(x) /\ {x, id[q]} \in met
    BY <1>4, <2>1 DEF LostInv
  <2> QED BY <1>0, <1>2, <2>1, <2>2 DEF Whole
<1>5. ASSUME NEW d \in done, BuiltWell(d)' PROVE (Readable \/ Risk \/ Brawl)'
  <2>1. Readable \/ Risk \/ Brawl
    BY <1>0, <1>5 DEF LostInv, BuiltWell
  <2>2. Readable => Readable'
    BY <1>0 DEF Readable
  <2>3. Risk => Risk'
    <3>1. CASE \E d1 \in done : d1.id > emptied /\ Reckless(d1)
      BY <1>0, <3>1 DEF Risk
    <3>2. CASE \E q \in Procs : /\ id[q] > emptied
                                /\ pc[q] = "create" \/ (pc[q] = "save_write" /\ Whole(q))
      <4>1. PICK q \in Procs : /\ id[q] > emptied
                               /\ pc[q] = "create" \/ (pc[q] = "save_write" /\ Whole(q))
        BY <3>2
      <4>2. pc'[q] = pc[q] /\ id'[q] = id[q]
        BY <1>0, <1>1, <4>1
      <4> QED BY <1>0, <4>1, <4>2 DEF Risk, Whole
    <3> QED BY <3>1, <3>2 DEF Risk
  <2>4. Brawl => Brawl'
    BY <1>0, <1>2 DEF Brawl, Version
  <2> QED BY <2>1, <2>2, <2>3, <2>4
<1>6. LostInv'
  BY <1>0, <1>4, <1>5 DEF LostInv, Version
<1> QED BY <1>3, <1>6

LEMMA EntersSave ==
    ASSUME TypeOK, NEW p \in Procs, Work(p), pc'[p] = "save_write"
    PROVE  pc[p] = "save_open" /\ meta' = Empty /\ fd'[p] = inode'
<1>1. ASSUME NEW how \in {"ok", "bad", "cut"}, End(p, how) PROVE FALSE
  BY <1>1, EndFrame
<1>2. ~Cut(p) /\ \A l \in Labels \ {"idle"} : Goto(p, l) => l = "save_write"
  BY <1>1, GotoFrame DEF Cut
<1>3. ~(Exists(p) \/ Remove(p) \/ Create(p) \/ Compile(p) \/ Load(p))
  BY <1>2 DEF Exists, Remove, Create, Compile, Load, Labels
<1>4. ~(LaunchIteration(p) \/ Capture(p) \/ CaptureRest(p) \/ VerifyRestore(p) \/ Hash(p))
  BY <1>1, <1>2 DEF LaunchIteration, Recording, Capture, CaptureRest, Captured, VerifyRestore, Hash, Labels
<1>5. ~(SaveWrite(p) \/ Serve(p) \/ Check(p))
  BY <1>1, <1>2 DEF SaveWrite, Serve, Check, Labels
<1>6. SaveOpen(p) /\ ProcType
  BY <1>3, <1>4, <1>5, TypeParts DEF Work
<1> QED BY <1>2, <1>6 DEF SaveOpen, ProcType

LEMMA SaverWork ==
    ASSUME TypeOK, PlaceInv, NumberInv, SaverInv, NEW p \in Procs, Work(p), UNCHANGED met
    PROVE  SaverInv'
<1>0. Frame(p) /\ Handles(p) /\ ProcType /\ DiskType
  BY WorkFrame, HandlesStep, TypeParts
<1>1. cmd' = cmd /\ id' = id /\ met' = met /\ pc[p] # "idle"
  BY <1>0 DEF Frame
<1>2. \A x : Pen(x) => Pen(x)'
  BY PenWork
<1>3. inode \in Nat /\ \A q \in Procs : fd[q] \in Nat /\ fd[q] <= inode
  BY <1>0 DEF DiskType, ProcType, SaverInv
<1>4. \A q \in Procs : fd'[q] <= inode'
  BY <1>0, <1>3 DEF Handles
<1>5. ASSUME NEW q \in Procs, pc'[q] = "save_write"
      PROVE  \/ Whole(q)' \/ meta' = Absent \/ fd'[q] # inode'
             \/ \E x \in Version : Pen(x)' /\ {x, id'[q]} \in met'
  <2>1. CASE q = p
    BY <1>5, <2>1, EntersSave DEF Whole
  <2>2. CASE q # p
    <3>1. pc[q] = "save_write" /\ fd'[q] = fd[q]
      BY <1>0, <1>5, <2>2 DEF Frame
    <3>2. {id[p], id[q]} \in met
      BY <1>0, <1>1, <2>2, <3>1 DEF NumberInv, RunningNumbers, Active
    <3>3. \/ Whole(q) \/ meta = Absent \/ fd[q] # inode
          \/ \E x \in Version : Pen(x) /\ {x, id[q]} \in met
      BY <3>1 DEF SaverInv
    <3>4. CASE UNCHANGED <<meta, inode>>
      BY <1>1, <1>2, <3>1, <3>3, <3>4 DEF Whole, Version
    <3>5. CASE ~UNCHANGED <<meta, inode>> /\ pc[p] # "remove"
      <4>1. Pen(id[p])' /\ id[p] \in Version
        BY <1>0, <3>5, HandlesTouch DEF ProcType
      <4>2. Pen(id[p])' /\ {id[p], id'[q]} \in met'
        BY <1>1, <3>2, <4>1
      <4>3. \E x \in Version : Pen(x)' /\ {x, id'[q]} \in met'
        BY <1>1, <4>1, <4>2 DEF Pen
      <4> QED BY <4>3
    <3>6. CASE ~UNCHANGED <<meta, inode>> /\ pc[p] = "remove"
      BY <1>0, <3>6 DEF Handles
    <3> QED BY <3>4, <3>5, <3>6
  <2> QED BY <2>1, <2>2
<1> QED BY <1>4, <1>5 DEF SaverInv, Version

LEMMA ManifestReadable == ASSUME NEW m \in Manifest PROVE m \notin Unreadable
<1>1. DOMAIN m = {"app", "snapshots", "benchmarks"}
  BY DEF Manifest
<1>2. \A u \in Unreadable : DOMAIN u = {"text"}
  BY DEF Unreadable, Absent, Empty, Corrupt
<1> QED BY <1>1, <1>2

\* Two that run have met.
LEMMA RunningMet ==
    ASSUME NumberInv, NEW p \in Procs, NEW q \in Procs, p # q, pc[p] # "idle", pc[q] # "idle"
    PROVE  {id[p], id[q]} \in met
BY DEF NumberInv, RunningNumbers, Active

\* A build that ended well did so with its manifest written.
LEMMA BuildEnds ==
    ASSUME TypeOK, PlaceInv, NEW p \in Procs, Work(p), cmd[p].op = "build", pc'[p] = "idle", ~Cut(p)
    PROVE  pc[p] = "save_write"
<1>1. Place(p)
  BY DEF PlaceInv
<1>2. ASSUME NEW l \in Labels \ {"idle"}, Goto(p, l) PROVE FALSE
  BY <1>2, GotoFrame
<1>3. ~(Exists(p) \/ Remove(p) \/ Create(p) \/ Compile(p) \/ Load(p))
  BY <1>2 DEF Exists, Remove, Create, Compile, Load, Labels
<1>4. ~(Capture(p) \/ CaptureRest(p) \/ VerifyRestore(p) \/ Hash(p) \/ SaveOpen(p))
  BY <1>2 DEF Capture, CaptureRest, Captured, VerifyRestore, Hash, SaveOpen, Labels
<1>5. ~(LaunchIteration(p) \/ Serve(p) \/ Check(p))
  BY <1>1 DEF LaunchIteration, Serve, Check, Place
<1> QED BY <1>3, <1>4, <1>5 DEF Work, SaveWrite

\* A later command that opens or removes a manifest others may rely on is a risk or in a brawl.
LEMMA OpensOrRemoves ==
    ASSUME TypeOK, PlaceInv, NumberInv, EmptiedBy, NEW p \in Procs, Work(p), UNCHANGED met,
           emptied' = emptied, pc[p] \in {"remove", "save_open"}, meta' # meta,
           NEW d \in done, BuiltWell(d)
    PROVE  (Risk \/ Brawl)'
<1>0. Frame(p) /\ Handles(p) /\ Place(p) /\ id[p] \in Version /\ d.id \in Version
  BY WorkFrame, HandlesStep, TypeParts DEF PlaceInv, ProcType, HistoryType, Ended
<1>1. cmd' = cmd /\ id' = id /\ met' = met /\ Active(p) /\ done \subseteq done'
  BY <1>0 DEF Frame, Active
<1>2. Touch(id[p])'
  BY HandlesTouch
<1>3. CASE {id[p], d.id} \in met
  <2>1. d \in Writers' /\ Saved(d)
    BY <1>1 DEF BuiltWell, Writers, Writes, Saved
  <2>2. Touch(d.id)'
    BY <2>1 DEF Touch, Pen
  <2>3. \E x \in Version : Touch(x)' /\ {x, d.id} \in met
    BY <1>0, <1>1, <1>2, <1>3 DEF Touch, Pen
  <2> QED BY <1>0, <1>1, <2>2, <2>3 DEF Brawl, Version
<1>4. CASE {id[p], d.id} \notin met
  <2>1. id[p] \in Nat /\ d.id \in Nat /\ d.id # id[p] /\ ~(id[p] < d.id)
    BY <1>0, <1>1, <1>4 DEF NumberInv, RunningNumbers, Version
  <2>2. id[p] > emptied'
    BY <2>1 DEF BuiltWell
  <2>3. CASE pc'[p] = "create" \/ (pc'[p] = "save_write" /\ Whole(p)')
    BY <1>1, <2>2, <2>3 DEF Risk
  <2>4. CASE pc[p] = "remove" /\ done' = done \cup {EndRecord(p, "cut")}
    <3>1. PICK e \in done' : e.id = id[p] /\ e.cmd = cmd[p] /\ e.how = "cut" /\ e.at = pc[p]
      BY <2>4, EndedIn
    <3> QED BY <2>2, <2>4, <3>1 DEF Risk, Reckless
  <2> QED BY <1>0, <2>3, <2>4 DEF Handles, Whole
<1> QED BY <1>3, <1>4

LEMMA LostWork ==
    ASSUME TypeOK, PlaceInv, NumberInv, EmptiedBy, SaverInv, LostInv,
           NEW p \in Procs, Work(p), UNCHANGED met
    PROVE  LostInv'
<1>0. Frame(p) /\ Handles(p) /\ Place(p) /\ ProcType /\ DiskType /\ id[p] \in Version
  BY WorkFrame, HandlesStep, TypeParts DEF PlaceInv, ProcType
<1>1. cmd' = cmd /\ id' = id /\ met' = met /\ Active(p) /\ done \subseteq done' /\ pc[p] # "idle"
  BY <1>0 DEF Frame, Active
<1>2. CASE emptied' # emptied
  <2>1. pc[p] = "create" /\ emptied' = id[p] /\ pc'[p] = "compile" /\ done' = done
    BY <1>0, <1>2 DEF Frame
  <2>2. ASSUME NEW q \in Procs, pc'[q] = "save_write" PROVE id'[q] # emptied'
    <3>1. q # p /\ pc[q] = "save_write"
      BY <1>0, <2>1, <2>2 DEF Frame
    <3> QED BY <1>1, <2>1, <3>1 DEF NumberInv, RunningNumbers, Active
  <2>3. ASSUME NEW d \in done' PROVE d.id # emptied'
    BY <1>1, <2>1, <2>3 DEF NumberInv, RunningNumbers
  <2> QED BY <2>2, <2>3 DEF LostInv, BuiltWell
<1>3. CASE emptied' = emptied
  <2>1. \A x : Touch(x) => Touch(x)'
    BY <1>3, TouchWork
  <2>2. Brawl => Brawl'
    BY <1>1, <2>1 DEF Brawl, Version
  <2>3. ASSUME NEW q \in Procs, pc'[q] = "save_write", id'[q] = emptied'
        PROVE  Whole(q)' \/ \E x \in Version : Touch(x)' /\ {x, id'[q]} \in met'
    <3>1. CASE q = p
      BY <2>3, <3>1, EntersSave DEF Whole
    <3>2. CASE q # p
      <4>1. pc[q] = "save_write" /\ id[q] = emptied
        BY <1>0, <1>1, <1>3, <2>3, <3>2 DEF Frame
      <4>2. Whole(q) \/ \E x \in Version : Touch(x) /\ {x, id[q]} \in met
        BY <4>1 DEF LostInv
      <4>3. CASE UNCHANGED <<meta, inode, fd>>
        BY <1>1, <2>1, <4>2, <4>3 DEF Whole
      <4>4. CASE ~UNCHANGED <<meta, inode, fd>>
        <5>1. Touch(id[p])' /\ {id[p], id[q]} \in met
          BY <1>1, <3>2, <4>1, <4>4, HandlesTouch, RunningMet
        <5> QED BY <1>0, <1>1, <5>1 DEF Touch, Pen
      <4> QED BY <4>3, <4>4
    <3> QED BY <3>1, <3>2
  <2>4. ASSUME NEW d \in done', d \notin done, BuiltWell(d)' PROVE (Readable \/ Risk \/ Brawl)'
    <3>1. pc'[p] = "idle" /\ d.id = id[p] /\ d.cmd = cmd[p] /\ d.how = "ok"
      BY <1>0, <2>4 DEF Frame, EndRecord, BuiltWell
    <3>2. ~Cut(p)
      BY <2>4, <3>1, EndFrame DEF Cut, EndRecord
    <3>3. pc[p] = "save_write" /\ id[p] = emptied
      BY <1>3, <2>4, <3>1, <3>2, BuildEnds DEF BuiltWell
    <3>4. CASE Whole(p)
      <4>1. SaveWrite(p)
        BY <3>3, LastStages
      <4>2. meta' = loaded[p]
        BY <3>2, <3>4, <4>1 DEF SaveWrite, Whole, Empty, Absent
      <4> QED BY <1>0, <4>2, ManifestReadable DEF ProcType, Readable
    <3>5. CASE ~Whole(p)
      <4>1. PICK x \in Version : Touch(x) /\ {x, id[p]} \in met
        BY <3>3, <3>5 DEF LostInv
      <4>2. Pen(id[p])'
        BY <1>0, <3>3, PenSelf DEF Place, Saving
      <4>3. \E y \in Version : Touch(y)' /\ {x, y} \in met
        BY <1>0, <1>1, <4>1, <4>2 DEF Touch, Pen
      <4> QED BY <1>1, <2>1, <4>1, <4>3 DEF Brawl, Version
    <3> QED BY <3>4, <3>5
  <2>5. ASSUME NEW d \in done, BuiltWell(d)' PROVE (Readable \/ Risk \/ Brawl)'
    <3>0. BuiltWell(d)
      BY <1>3, <2>5 DEF BuiltWell
    <3>1. CASE Readable
      <4>1. CASE meta' = meta
        BY <3>1, <4>1 DEF Readable
      <4>2. CASE meta' # meta /\ pc[p] \in {"remove", "save_open"}
        BY <1>3, <3>0, <4>2, OpensOrRemoves
      <4>3. CASE meta' # meta /\ pc[p] = "save_write"
        <5>1. meta # Absent /\ fd[p] = inode /\ ~Whole(p)
          BY <1>0, <3>1, <4>3 DEF Handles, Whole, Readable, Unreadable
        <5>2. PICK x \in Version : Pen(x) /\ {x, id[p]} \in met
          BY <4>3, <5>1 DEF SaverInv
        <5>3. Pen(id[p])'
          BY <1>0, <4>3, PenSelf DEF Place, Saving
        <5>4. \E y \in Version : Touch(y)' /\ {x, y} \in met
          BY <1>0, <1>1, <5>2, <5>3 DEF Touch, Pen
        <5>5. Touch(x)'
          BY <2>1, <5>2 DEF Touch
        <5> QED BY <1>1, <5>4, <5>5 DEF Brawl, Version
      <4> QED BY <1>0, <4>1, <4>2, <4>3 DEF Handles
    <3>2. CASE Brawl
      BY <2>2, <3>2
    <3>3. CASE \E e \in done : e.id > emptied /\ Reckless(e)
      BY <1>1, <1>3, <3>3 DEF Risk
    <3>4. ASSUME NEW q \in Procs, id[q] > emptied, pc[q] = "create" PROVE Risk'
      <4>1. CASE q # p
        BY <1>0, <1>1, <1>3, <3>4, <4>1 DEF Risk, Frame
      <4>2. CASE q = p
        <5>1. Create(p) /\ emptied' # id[p]
          BY <1>3, <3>4, <4>2, LastStages, NotYetEmptied
        <5>2. done' = done \cup {EndRecord(p, "cut")}
          BY <5>1, EndFrame DEF Create, Cut
        <5>3. PICK e \in done' : e.id = id[p] /\ e.cmd = cmd[p] /\ e.how = "cut" /\ e.at = pc[p]
          BY <5>2, EndedIn
        <5> QED BY <1>3, <3>4, <4>2, <5>3 DEF Risk, Reckless
      <4> QED BY <4>1, <4>2
    <3>5. ASSUME NEW q \in Procs, id[q] > emptied, pc[q] = "save_write", Whole(q)
          PROVE  (Readable \/ Risk \/ Brawl)'
      <4>1. CASE q = p
        <5>1. CASE done' = done \cup {EndRecord(p, "cut")}
          <6>1. PICK e \in done' : e.id = id[p] /\ e.cmd = cmd[p] /\ e.how = "cut" /\ e.at = pc[p]
            BY <5>1, EndedIn
          <6> QED BY <1>3, <3>5, <4>1, <6>1 DEF Risk, Reckless
        <5>2. CASE done' # done \cup {EndRecord(p, "cut")}
          <6>1. SaveWrite(p) /\ ~Cut(p)
            BY <3>5, <4>1, <5>2, LastStages, EndFrame DEF Cut
          <6>2. meta' = loaded[p]
            BY <3>5, <4>1, <6>1 DEF SaveWrite, Whole, Empty, Absent
          <6> QED BY <1>0, <6>2, ManifestReadable DEF ProcType, Readable
        <5> QED BY <5>1, <5>2
      <4>2. CASE q # p
        <5>1. pc'[q] = "save_write"
          BY <1>0, <3>5, <4>2 DEF Frame
        <5>2. CASE UNCHANGED <<meta, inode, fd>>
          BY <1>1, <1>3, <3>5, <5>1, <5>2 DEF Risk, Whole
        <5>3. CASE ~UNCHANGED <<meta, inode, fd>>
          <6>1. Touch(id[p])' /\ {id[p], id[q]} \in met
            BY <1>1, <3>5, <4>2, <5>3, HandlesTouch, RunningMet
          <6>2. Writes(cmd[q])
            BY <3>5 DEF PlaceInv, Place, Saving
          <6>3. PICK x \in Version, y \in Version : x = id[p] /\ y = id[q]
            BY <1>0 DEF ProcType
          <6>4. Touch(x)'
            BY <1>1, <6>1, <6>3 DEF Touch, Pen
          <6>5. Touch(y)'
            BY <1>1, <5>1, <6>2, <6>3 DEF Touch, Pen
          <6> QED BY <1>1, <6>1, <6>3, <6>4, <6>5 DEF Brawl, Version
        <5> QED BY <5>2, <5>3
      <4> QED BY <4>1, <4>2
    <3> QED BY <3>0, <3>1, <3>2, <3>3, <3>4, <3>5 DEF LostInv, Risk
  <2>6. \A d \in done' : BuiltWell(d)' => (Readable \/ Risk \/ Brawl)'
    BY <2>4, <2>5
  <2> QED BY <2>3, <2>6 DEF LostInv, Version
<1> QED BY <1>2, <1>3

-----------------------------------------------------------------------------
(***************************************************************************)
(* Peace(ops): no two writers with these operations have met, running or   *)
(* ended.  Like Lone it can only end.                                      *)
(***************************************************************************)
AllOps == {"build", "run", "snapshot"}

LoneIn(x, ops) ==
    /\ \A e \in Writers : e.cmd.op \in ops => {x, e.id} \notin met
    /\ \A q \in Procs : Active(q) /\ Writes(cmd[q]) /\ cmd[q].op \in ops => {x, id[q]} \notin met

Peace(ops) ==
    /\ \A e \in Writers : e.cmd.op \in ops => LoneIn(e.id, ops)
    /\ \A q \in Procs : Active(q) /\ Writes(cmd[q]) /\ cmd[q].op \in ops => LoneIn(id[q], ops)

\* A writer that ends stays one.
LEMMA WriterEnds ==
    ASSUME TypeOK, NEW p \in Procs, Frame(p), NEW q \in Procs, Active(q), ~Active(q)', Writes(cmd[q])
    PROVE  \E e \in Writers' : e.id = id[q] /\ e.cmd = cmd[q]
<1>1. q = p /\ pc'[p] = "idle"
  BY DEF Frame, Active
<1>2. PICK how \in {"ok", "bad", "cut"} : done' = done \cup {EndRecord(p, how)}
  BY <1>1 DEF Frame, Labels
<1>3. PICK e \in done' : e.id = id[p] /\ e.cmd = cmd[p] /\ e.how = how /\ e.at = pc[p]
  BY <1>2, EndedIn
<1> QED BY <1>1, <1>3 DEF Writers

LEMMA LoneInWork ==
    ASSUME TypeOK, NEW p \in Procs, Frame(p), NEW x, NEW ops, LoneIn(x, ops)'
    PROVE  LoneIn(x, ops)
<1>1. Writers \subseteq Writers' /\ met' = met /\ id' = id /\ cmd' = cmd
  BY DEF Frame, Writers
<1>2. ASSUME NEW q \in Procs, Active(q), Writes(cmd[q]), cmd[q].op \in ops PROVE {x, id[q]} \notin met
  <2>1. CASE Active(q)'
    BY <1>1, <1>2, <2>1 DEF LoneIn
  <2>2. CASE ~Active(q)'
    <3>1. PICK e \in Writers' : e.id = id[q] /\ e.cmd = cmd[q]
      BY <1>2, <2>2, WriterEnds
    <3> QED BY <1>1, <1>2, <3>1 DEF LoneIn
  <2> QED BY <2>1, <2>2
<1> QED BY <1>1, <1>2 DEF LoneIn

LEMMA PeaceWork ==
    ASSUME TypeOK, NEW p \in Procs, Frame(p), NEW ops, Peace(ops)'
    PROVE  Peace(ops)
<1>1. Writers \subseteq Writers' /\ met' = met /\ id' = id /\ cmd' = cmd
  BY DEF Frame, Writers
<1>2. ASSUME NEW e \in Writers, e.cmd.op \in ops PROVE LoneIn(e.id, ops)
  <2>1. LoneIn(e.id, ops)'
    BY <1>1, <1>2 DEF Peace
  <2> QED BY <2>1, LoneInWork
<1>3. ASSUME NEW q \in Procs, Active(q), Writes(cmd[q]), cmd[q].op \in ops PROVE LoneIn(id[q], ops)
  <2>1. PICK x : x = id[q]
    OBVIOUS
  <2>2. LoneIn(x, ops)'
    <3>1. CASE Active(q)'
      <4>1. LoneIn(id[q], ops)'
        BY <1>1, <1>3, <3>1 DEF Peace
      <4> QED BY <1>1, <2>1, <4>1 DEF LoneIn
    <3>2. CASE ~Active(q)'
      <4>1. PICK e \in Writers' : e.id = id[q] /\ e.cmd = cmd[q]
        BY <1>3, <3>2, WriterEnds
      <4> QED BY <1>3, <2>1, <4>1 DEF Peace
    <3> QED BY <3>1, <3>2
  <2>3. LoneIn(x, ops)
    BY <2>2, LoneInWork
  <2> QED BY <2>1, <2>3
<1> QED BY <1>2, <1>3 DEF Peace

LEMMA PeaceStart ==
    ASSUME TypeOK, NEW p \in Procs, Start(p), NEW ops, Peace(ops)'
    PROVE  Peace(ops)
<1>1. Writers' = Writers /\ met \subseteq met'
  BY StartFrame DEF Writers
<1>2. ASSUME NEW q \in Procs, Active(q) PROVE Active(q)' /\ cmd'[q] = cmd[q] /\ id'[q] = id[q]
  BY <1>2, StartFrame DEF Active
<1>3. ASSUME NEW x, LoneIn(x, ops)' PROVE LoneIn(x, ops)
  BY <1>1, <1>2, <1>3 DEF LoneIn
<1>4. ASSUME NEW e \in Writers, e.cmd.op \in ops PROVE LoneIn(e.id, ops)
  BY <1>1, <1>3, <1>4 DEF Peace
<1>5. ASSUME NEW q \in Procs, Active(q), Writes(cmd[q]), cmd[q].op \in ops PROVE LoneIn(id[q], ops)
  <2>1. PICK x : x = id[q]
    OBVIOUS
  <2>2. LoneIn(id[q], ops)'
    BY <1>2, <1>5 DEF Peace
  <2>3. LoneIn(x, ops)'
    BY <1>2, <1>5, <2>1, <2>2 DEF LoneIn
  <2> QED BY <1>3, <2>1, <2>3
<1> QED BY <1>4, <1>5 DEF Peace

\* In peace one writer runs at a time.
LEMMA PeaceAlone ==
    ASSUME NumberInv, NEW ops, Peace(ops), NEW p \in Procs, Active(p), Writes(cmd[p]), cmd[p].op \in ops,
           NEW q \in Procs, q # p, Active(q), Writes(cmd[q])
    PROVE  cmd[q].op \notin ops
BY DEF NumberInv, RunningNumbers, Peace, LoneIn

LEMMA WritesOp == ASSUME NEW c, Writes(c) PROVE c.op \in AllOps
BY DEF Writes, AllOps

LEMMA PeaceLone ==
    ASSUME Peace(AllOps), NEW p \in Procs, Active(p), Writes(cmd[p])
    PROVE  Lone(id[p])
<1>1. LoneIn(id[p], AllOps)
  BY WritesOp DEF Peace
<1> QED BY <1>1, WritesOp DEF LoneIn, Lone, Writers

LEMMA PeaceEmptied ==
    ASSUME TypeOK, NumberInv, EmptiedBy, Peace(AllOps)
    PROVE  Lone(emptied)
<1>1. CASE emptied = 0
  <2>1. ASSUME NEW y, {0, y} \in met PROVE FALSE
    BY <2>1 DEF NumberInv, MetNumbers
  <2> QED BY <1>1, <2>1 DEF Lone
<1>2. CASE \E q \in Procs : Emptier(cmd[q], id[q]) /\ pc[q] \in {"compile", "hash", "save_open", "save_write"}
  BY <1>2, PeaceLone DEF Emptier, Active, Writes
<1>3. CASE \E d \in done : Emptier(d.cmd, d.id)
  <2>1. PICK d \in done : Emptier(d.cmd, d.id)
    BY <1>3
  <2>2. d \in Writers /\ d.cmd.op \in AllOps
    BY <2>1 DEF Emptier, Writers, Writes, AllOps
  <2>3. LoneIn(emptied, AllOps)
    BY <2>1, <2>2 DEF Peace, Emptier
  <2> QED BY <2>3, WritesOp DEF LoneIn, Lone, Writers
<1> QED BY <1>1, <1>2, <1>3 DEF EmptiedBy

LEMMA PeaceLater ==
    ASSUME TypeOK, NumberInv, EmptiedBy, Peace(AllOps), NEW p \in Procs, Active(p), Writes(cmd[p]),
           cmd[p].op # "build" \/ pc[p] \in {"exists", "remove", "create"}
    PROVE  id[p] > emptied
BY PeaceEmptied, LoneEmptied, NotYetEmptied

\* Without peace, and with no writer running, two that ended have met.
LEMMA ClashEnded ==
    ASSUME NEW ops, ~Peace(ops), \A q \in Procs : Active(q) => ~Writes(cmd[q])
    PROVE  \E e \in Writers : e.cmd.op \in ops /\ \E f \in MetBy(e) : f.cmd.op \in ops
<1>1. PICK e \in Writers : e.cmd.op \in ops /\ ~LoneIn(e.id, ops)
  BY DEF Peace
<1>2. PICK f \in Writers : f.cmd.op \in ops /\ {e.id, f.id} \in met
  BY <1>1 DEF LoneIn
<1> QED BY <1>1, <1>2 DEF MetBy

(***************************************************************************)
(* In peace a build that has made the directory anew works in an empty     *)
(* one: no snapshot files, and no manifest until its own.                  *)
(***************************************************************************)
Zero == \A s \in Names : mem[s] = 0 /\ vmstate[s] = 0

Making(p) ==
    \/ pc[p] \in {"create", "compile"}
    \/ cmd[p].op = "build" /\ pc[p] \in {"hash", "save_open", "save_write"}

BlankInv ==
    /\ \A p \in Procs : Active(p) /\ cmd[p].op = "build" => loaded[p].snapshots = Blank.snapshots
    /\ Peace(AllOps) =>
         /\ ~dir => Zero
         /\ \A p \in Procs : Making(p) => Zero /\ (pc[p] # "save_write" => meta = Absent)

LEMMA BlankInit == Init => BlankInv
BY DEF Init, BlankInv, Zero, Making, Active

LEMMA BlankStart ==
    ASSUME TypeOK, NumberInv, BlankInv, NEW p \in Procs, Start(p)
    PROVE  BlankInv'
<1>0. /\ pc[p] = "idle" /\ pc'[p] \in {"exists", "load"} /\ loaded'[p] = Blank
      /\ meta' = meta /\ dir' = dir /\ mem' = mem /\ vmstate' = vmstate
  BY StartFrame DEF diskVars
<1>1. \A q \in Procs \ {p} : pc'[q] = pc[q] /\ cmd'[q] = cmd[q] /\ loaded'[q] = loaded[q]
  BY StartFrame
<1>2. Peace(AllOps)' => Peace(AllOps)
  BY PeaceStart DEF AllOps
<1>3. Zero' = Zero
  BY <1>0 DEF Zero
<1>4. \A q \in Procs : Making(q)' => Making(q)
  BY <1>0, <1>1 DEF Making
<1>5. \A q \in Procs : Making(q)' => pc'[q] = pc[q]
  BY <1>0, <1>1 DEF Making
<1>6. ASSUME NEW q \in Procs, Active(q)', cmd'[q].op = "build" PROVE loaded'[q].snapshots = Blank.snapshots
  BY <1>0, <1>1, <1>6 DEF BlankInv, Active
<1> QED BY <1>0, <1>2, <1>3, <1>4, <1>5, <1>6 DEF BlankInv, Blank

\* remove_dir_all leaves no file, or some of those there were.
LEMMA RemoveZero ==
    ASSUME TypeOK, NEW p \in Procs, Remove(p)
    PROVE  (Zero => Zero') /\ (pc'[p] = "create" => Zero' /\ meta' = Absent /\ app' = 0)
<1>1. ASSUME NEW f \in [Names -> Version], NEW g \in Gone(f), NEW s \in Names, f[s] = 0 PROVE g[s] = 0
  BY <1>1 DEF Gone
<1>2. mem \in [Names -> Version] /\ vmstate \in [Names -> Version]
  BY TypeParts DEF DiskType
<1>3. Cut(p) => pc'[p] # "create"
  BY EndFrame DEF Cut
<1> QED BY <1>1, <1>2, <1>3 DEF Remove, Zero

LEMMA BlankRecords ==
    ASSUME TypeOK, PlaceInv, BlankInv, NEW p \in Procs, Work(p), UNCHANGED met,
           NEW q \in Procs, Active(q)', cmd'[q].op = "build"
    PROVE  loaded'[q].snapshots = Blank.snapshots
<1>0. Frame(p) /\ Place(p) /\ ProcType
  BY WorkFrame, TypeParts DEF PlaceInv
<1>1. Active(q) /\ cmd[q].op = "build"
  BY <1>0 DEF Frame, Active
<1>2. loaded[q].snapshots = Blank.snapshots
  BY <1>1 DEF BlankInv
<1>3. CASE q # p
  BY <1>0, <1>2, <1>3 DEF Frame
<1>4. CASE q = p
  <2>1. pc[p] \notin {"load", "launch"}
    BY <1>0, <1>1, <1>4 DEF Place
  <2>2. loaded'[p] = loaded[p] \/ loaded'[p] = [loaded[p] EXCEPT !.app = app]
    BY <1>1, <1>4, <2>1, HoldsStep DEF HoldsNext
  <2>3. [loaded[p] EXCEPT !.app = app].snapshots = loaded[p].snapshots
    BY <1>0 DEF ProcType, Manifest
  <2> QED BY <1>2, <1>4, <2>2, <2>3
<1> QED BY <1>3, <1>4

LEMMA BlankWork ==
    ASSUME TypeOK, PlaceInv, NumberInv, OwnInv, ReportsInv, BlankInv, NEW p \in Procs, Work(p), UNCHANGED met
    PROVE  BlankInv'
<1>0. Frame(p) /\ Place(p) /\ DiskType /\ ProcType
  BY WorkFrame, TypeParts DEF PlaceInv
<1>1. cmd' = cmd /\ id' = id /\ Active(p)
  BY <1>0 DEF Frame, Active
<1> SUFFICES ASSUME Peace(AllOps)'
             PROVE  /\ ~dir' => Zero'
                    /\ \A q \in Procs : Making(q)' => Zero' /\ (pc'[q] # "save_write" => meta' = Absent)
  BY BlankRecords DEF BlankInv, Blank
<1>2. Peace(AllOps)
  BY <1>0, PeaceWork DEF AllOps
<1>3. /\ ~dir => Zero
      /\ \A q \in Procs : Making(q) => Zero /\ (pc[q] # "save_write" => meta = Absent)
  BY <1>2 DEF BlankInv
<1>4. CASE ~Writes(cmd[p])
  <2>1. UNCHANGED diskVars
    BY <1>4, ReaderStep
  <2>2. Zero' = Zero
    BY <2>1 DEF Zero, diskVars
  <2>3. ASSUME NEW q \in Procs, Making(q)' PROVE q # p /\ pc'[q] = pc[q]
    <3>1. Place(p)'
      BY PlaceWork DEF PlaceInv
    <3> QED BY <1>0, <1>1, <1>4, <2>3, <3>1 DEF Making, Place, Building, Writes, Frame
  <2>4. ASSUME NEW q \in Procs, Making(q)' PROVE Making(q)
    BY <1>1, <2>3, <2>4 DEF Making
  <2> QED BY <1>3, <2>1, <2>2, <2>3, <2>4 DEF diskVars
<1>5. CASE Writes(cmd[p])
  <2>0. ASSUME NEW q \in Procs, Making(q)' PROVE q = p
    <3> SUFFICES ASSUME q # p PROVE FALSE
      OBVIOUS
    <3>1. Place(q)' /\ Active(q)
      BY <1>0, <2>0, PlaceWork DEF PlaceInv, Making, Frame, Active
    <3>2. cmd[q].op = "build"
      BY <1>1, <2>0, <3>1 DEF Making, Place, Building
    <3> QED BY <1>1, <1>2, <1>5, <3>1, <3>2, PeaceAlone, WritesOp DEF Writes, AllOps
  <2>1. CASE Exists(p)
    <3>1. Zero' = Zero /\ meta' = meta /\ dir' = dir
      BY <2>1 DEF Exists, diskVars, Zero
    <3>2. Making(p)' => ~dir
      BY <1>0, <1>1, <2>1, EndFrame, GotoFrame DEF Exists, Cut, Making, Labels
    <3>3. ~dir => meta = Absent
      BY DEF ReportsInv
    <3> QED BY <1>3, <2>0, <3>1, <3>2, <3>3
  <2>2. CASE Remove(p)
    <3>1. (Zero => Zero') /\ (pc'[p] = "create" => Zero' /\ meta' = Absent)
      BY <2>2, RemoveZero
    <3>2. pc'[p] = "create" \/ (pc'[p] = "idle" /\ dir' = dir)
      BY <2>2, EndFrame, GotoFrame DEF Remove, Cut, Labels
    <3> QED BY <1>3, <2>0, <3>1, <3>2 DEF Making
  <2>3. CASE Create(p)
    <3>1. Zero /\ meta = Absent
      BY <1>3, <2>3 DEF Create, Making
    <3> QED BY <3>1, <2>3 DEF Create, Zero
  <2>4. CASE Compile(p)
    <3>1. Zero /\ meta = Absent
      BY <1>3, <2>4 DEF Compile, Making
    <3> QED BY <3>1, <2>4 DEF Compile, Zero
  <2>5. CASE Hash(p) \/ LaunchIteration(p) \/ Load(p) \/ VerifyRestore(p) \/ Serve(p) \/ Check(p)
    <3>1. Zero' = Zero /\ meta' = meta /\ dir' = dir
      BY <2>5 DEF Hash, LaunchIteration, Load, VerifyRestore, Serve, Check, diskVars, Zero
    <3>2. Making(p)' => Hash(p)
      <4> SUFFICES ASSUME Making(p)' PROVE Hash(p)
        OBVIOUS
      <4>1. cmd[p].op = "build"
        <5>1. Place(p)'
          BY PlaceWork DEF PlaceInv
        <5> QED BY <1>1, <5>1 DEF Making, Place, Building
      <4> QED BY <1>0, <2>5, <4>1 DEF Place, Capturing, LaunchIteration, Load, VerifyRestore, Serve, Check
    <3>3. Making(p)' => Making(p) /\ pc[p] = "hash"
      <4> SUFFICES ASSUME Making(p)' PROVE Making(p) /\ pc[p] = "hash"
        OBVIOUS
      <4>1. Place(p)'
        BY PlaceWork DEF PlaceInv
      <4> QED BY <1>1, <3>2, <4>1 DEF Hash, Making, Place, Building
    <3> QED BY <1>3, <2>0, <3>1, <3>3
  <2>6. CASE Capture(p) \/ CaptureRest(p)
    <3>1. cmd[p].op = "snapshot" /\ cmd[p].name \in Names
      BY <1>0, <2>6, CommandFields DEF Capture, CaptureRest, Place, Capturing, ProcType
    <3>2. ~Making(p)'
      <4>1. Place(p)'
        BY PlaceWork DEF PlaceInv
      <4> QED BY <1>1, <3>1, <4>1 DEF Making, Place, Building
    <3>3. CaptureRest(p) => dir /\ dir' = dir
      <4> SUFFICES ASSUME CaptureRest(p) PROVE dir
        BY DEF CaptureRest
      <4>1. Undisturbed(p)
        BY <1>1, <1>2, <1>5, PeaceLone DEF OwnInv
      <4>2. vmstate[cmd[p].name] = id[p] \/ mem[cmd[p].name] = id[p]
        BY <4>1 DEF CaptureRest, Undisturbed
      <4>3. id[p] \in 1 .. started
        BY <1>1 DEF NumberInv, RunningNumbers
      <4>4. id[p] # 0
        BY <4>3
      <4> QED BY <1>3, <3>1, <4>2, <4>4 DEF Zero
    <3> QED BY <2>0, <2>6, <3>2, <3>3 DEF Capture
  <2>7. CASE SaveOpen(p)
    <3>1. Zero' = Zero /\ (Making(p)' => Making(p))
      <4>1. Place(p)'
        BY PlaceWork DEF PlaceInv
      <4> QED BY <1>1, <2>7, <4>1 DEF SaveOpen, Zero, Making, Place, Building
    <3>2. (dir' = dir /\ meta' = meta /\ pc'[p] = "idle") \/ (dir' /\ pc'[p] = "save_write")
      BY <2>7, EndFrame, GotoFrame DEF SaveOpen, Cut, Labels
    <3> QED BY <1>3, <2>0, <3>1, <3>2 DEF Making
  <2>8. CASE SaveWrite(p)
    <3>1. Zero' = Zero /\ dir' = dir /\ pc'[p] \in {"idle", "serve"}
      BY <2>8, EndFrame, GotoFrame DEF SaveWrite, Zero, Cut, Labels
    <3> QED BY <1>3, <2>0, <3>1 DEF Making
  <2> QED BY <2>1, <2>2, <2>3, <2>4, <2>5, <2>6, <2>7, <2>8 DEF Work
<1> QED BY <1>4, <1>5

(***************************************************************************)
(* In peace, and unless a command of this artifact was cut while it        *)
(* removed or captured (Hurt), the manifest describes the files, but for   *)
(* the snapshot that is being taken (Midway); and so does the copy held by *)
(* every writer, and by every lone reader.                                 *)
(***************************************************************************)
Hurt ==
    \E e \in done : /\ e.how = "cut" /\ e.id > emptied
                    /\ \/ e.at = "remove"
                       \/ e.cmd.op = "snapshot" /\ e.at \notin {"load", "capture"}

Written == {"capture_mem", "capture_vmstate", "verify_restore", "hash"}

InProgress(q, s) == cmd[q].op = "snapshot" /\ cmd[q].name = s /\ pc[q] \in Written

Midway(s) ==
    \E q \in Procs : cmd[q].op = "snapshot" /\ cmd[q].name = s /\ pc[q] \in Written \cup Saving

Bound(q) ==
    /\ pc[q] \notin {"idle", "load"} /\ (Writes(cmd[q]) \/ Lone(id[q]))
    /\ cmd[q].op = "build" => pc[q] \in Saving

Agrees(q) ==
    /\ loaded[q].app = app
    /\ \A s \in Names : InProgress(q, s) \/ loaded[q].snapshots[s] = Files(s)

RecordsHold ==
    /\ Readable => /\ meta.app = app
                   /\ \A s \in Names : Midway(s) \/ meta.snapshots[s] = Files(s)
    /\ \A q \in Procs : Bound(q) => Agrees(q)

RecordsInv == Peace(AllOps) /\ ~Hurt => RecordsHold

LEMMA RecordsInit == Init => RecordsInv
BY DEF Init, RecordsInv, RecordsHold, Readable, Unreadable, Bound

LEMMA RecordsStart ==
    ASSUME TypeOK, NumberInv, RecordsInv, NEW p \in Procs, Start(p)
    PROVE  RecordsInv'
<1>0. /\ pc[p] = "idle" /\ pc'[p] \in {"exists", "load"} /\ (pc'[p] = "exists" <=> cmd'[p].op = "build")
      /\ meta' = meta /\ app' = app /\ mem' = mem /\ vmstate' = vmstate /\ done' = done /\ emptied' = emptied
  BY StartFrame DEF diskVars
<1>1. \A q \in Procs \ {p} : pc'[q] = pc[q] /\ cmd'[q] = cmd[q] /\ id'[q] = id[q] /\ loaded'[q] = loaded[q]
  BY StartFrame
<1> SUFFICES ASSUME Peace(AllOps)', ~Hurt' PROVE RecordsHold'
  BY DEF RecordsInv
<1>2. Peace(AllOps) /\ ~Hurt
  BY <1>0, PeaceStart DEF AllOps, Hurt
<1>3. RecordsHold
  BY <1>2 DEF RecordsInv
<1>4. \A s \in Names : Files(s)' = Files(s) /\ (Midway(s) => Midway(s)')
  BY <1>0, <1>1 DEF Files, Midway, Written, Saving
<1>5. (Readable => meta.app = app /\ \A s \in Names : Midway(s) \/ meta.snapshots[s] = Files(s))'
  BY <1>0, <1>3, <1>4 DEF RecordsHold, Readable
<1>6. ASSUME NEW q \in Procs, Bound(q)' PROVE Agrees(q)'
  <2>1. q # p
    BY <1>0, <1>6 DEF Bound, Saving
  <2>2. Lone(id[q])' => Lone(id[q])
    <3> SUFFICES ASSUME Lone(id[q])' PROVE Lone(id[q])
      OBVIOUS
    <3>1. id'[q] = id[q]
      BY <1>1, <2>1
    <3> QED BY <3>1, LoneStart
  <2>3. Bound(q)
    BY <1>1, <1>6, <2>1, <2>2 DEF Bound
  <2>4. Agrees(q)
    BY <1>3, <2>3 DEF RecordsHold
  <2> QED BY <1>0, <1>1, <1>4, <2>1, <2>4 DEF Agrees, InProgress
<1> QED BY <1>5, <1>6 DEF RecordsHold

LEMMA CutHurts ==
    ASSUME TypeOK, PlaceInv, NumberInv, EmptiedBy, Peace(AllOps), NEW p \in Procs, Active(p),
           pc[p] = "remove" \/ (cmd[p].op = "snapshot" /\ pc[p] \notin {"load", "capture"}),
           emptied' = emptied, Cut(p)
    PROVE  Hurt'
<1>1. Place(p)
  BY DEF PlaceInv
<1>2. Writes(cmd[p])
  BY <1>1 DEF Place, Building, Writes
<1>3. id[p] > emptied
  BY <1>1, <1>2, PeaceLater DEF Place, Building
<1>4. done' = done \cup {EndRecord(p, "cut")}
  BY EndFrame DEF Cut
<1>5. PICK e \in done' : e.id = id[p] /\ e.cmd = cmd[p] /\ e.how = "cut" /\ e.at = pc[p]
  BY <1>4, EndedIn
<1> QED BY <1>3, <1>5 DEF Hurt

\* Another process's manifest, and its part in a snapshot, are its own.
LEMMA OthersStay ==
    ASSUME TypeOK, NEW p \in Procs, Frame(p), NEW q \in Procs, q # p
    PROVE  /\ Bound(q)' => Bound(q)
           /\ loaded'[q] = loaded[q] /\ \A s \in Names : InProgress(q, s)' <=> InProgress(q, s)
<1>1. pc'[q] = pc[q] /\ cmd'[q] = cmd[q] /\ id'[q] = id[q] /\ loaded'[q] = loaded[q]
  BY DEF Frame
<1>2. Lone(id[q])' => Lone(id[q])
  BY <1>1, LoneWork
<1> QED BY <1>1, <1>2 DEF Bound, InProgress

LEMMA LoadsRecords ==
    ASSUME TypeOK, PlaceInv, NumberInv, NEW p \in Procs, Active(p), RecordsHold, Readable, pc[p] = "load",
           Lone(id[p])
    PROVE  meta.app = app /\ \A s \in Names : meta.snapshots[s] = Files(s)
<1> SUFFICES ASSUME NEW s \in Names, Midway(s) PROVE FALSE
  BY DEF RecordsHold
<1>1. PICK q \in Procs : cmd[q].op = "snapshot" /\ pc[q] \in Written \cup Saving
  BY DEF Midway
<1>2. q # p /\ Active(q) /\ Writes(cmd[q])
  BY <1>1 DEF Written, Saving, Active, Writes
<1> QED BY <1>2, LoneNoWriter

LEMMA LoadLoads ==
    ASSUME TypeOK, NEW p \in Procs, Work(p), pc[p] = "load", pc'[p] # "idle"
    PROVE  Readable /\ loaded'[p] = meta
<1>1. Load(p)
  BY DEF Work, Exists, Remove, Create, Compile, LaunchIteration, Capture, CaptureRest, VerifyRestore,
         Hash, SaveOpen, SaveWrite, Serve, Check
<1>2. ~Cut(p) /\ ProcType
  BY EndFrame, TypeParts DEF Cut
<1> QED BY <1>1, <1>2 DEF Load, Readable, ProcType

\* A step of a command that is no writer.
LEMMA RecordsReader ==
    ASSUME TypeOK, PlaceInv, NumberInv, NEW p \in Procs, Work(p), UNCHANGED met,
           ~Writes(cmd[p]), RecordsHold
    PROVE  RecordsHold'
<1>0. Frame(p) /\ Place(p) /\ UNCHANGED diskVars
  BY WorkFrame, ReaderStep DEF PlaceInv
<1>1. cmd' = cmd /\ id' = id /\ Active(p)
  BY <1>0 DEF Frame, Active
<1>2. \A s \in Names : Files(s)' = Files(s) /\ (Midway(s) => Midway(s)')
  BY <1>0, <1>1 DEF Files, Midway, diskVars, Frame, Writes
<1>3. (Readable => meta.app = app /\ \A s \in Names : Midway(s) \/ meta.snapshots[s] = Files(s))'
  BY <1>0, <1>2 DEF RecordsHold, Readable, diskVars
<1>4. ASSUME NEW q \in Procs, Bound(q)' PROVE Agrees(q)'
  <2>1. CASE q # p
    BY <1>0, <1>2, <1>4, <2>1, OthersStay DEF RecordsHold, Agrees, diskVars
  <2>2. CASE q = p
    <3>1. Lone(id[p]) /\ pc'[p] # "idle" /\ cmd[p].op \notin {"build", "snapshot"}
      BY <1>0, <1>1, <1>4, <2>2, LoneWork DEF Bound, Writes
    <3>2. CASE pc[p] = "load"
      <4>1. Readable /\ loaded'[p] = meta
        BY <3>1, <3>2, LoadLoads
      <4>2. meta.app = app /\ \A s \in Names : meta.snapshots[s] = Files(s)
        BY <1>1, <3>1, <3>2, <4>1, LoadsRecords
      <4> QED BY <1>0, <1>2, <2>2, <4>1, <4>2 DEF Agrees, diskVars
    <3>3. CASE pc[p] # "load"
      <4>1. Agrees(p)
        BY <1>1, <3>1, <3>3 DEF RecordsHold, Bound, Active
      <4>2. loaded'[p] = loaded[p]
        BY <1>0, <3>1, <3>3, HoldsStep DEF HoldsNext, Writes
      <4> QED BY <1>0, <1>1, <1>2, <2>2, <3>1, <4>1, <4>2 DEF Agrees, InProgress, diskVars
    <3> QED BY <3>2, <3>3
  <2> QED BY <2>1, <2>2
<1> QED BY <1>3, <1>4 DEF RecordsHold

\* A step of the one writer there is.
LEMMA RecordsWriter ==
    ASSUME TypeOK, PlaceInv, NumberInv, EmptiedBy, OwnInv, ReportsInv, BlankInv, Peace(AllOps),
           NEW p \in Procs, Work(p), UNCHANGED met, Writes(cmd[p]),
           emptied' = emptied, ~Hurt', RecordsHold
    PROVE  RecordsHold'
<1>0. Frame(p) /\ Place(p) /\ ProcType /\ DiskType /\ Place(p)'
  BY WorkFrame, PlaceWork, TypeParts DEF PlaceInv
<1>1. cmd' = cmd /\ id' = id /\ Active(p) /\ loaded[p] \in Manifest /\ cmd[p] \in Command
  BY <1>0 DEF Frame, Active, ProcType
<1>2. Lone(id[p])
  BY <1>1, PeaceLone
<1>3. ASSUME NEW q \in Procs, q # p PROVE ~Bound(q)'
  <2> SUFFICES ASSUME Bound(q)' PROVE FALSE
    OBVIOUS
  <2>1. Bound(q)
    BY <1>0, <1>3, OthersStay
  <2>2. CASE Writes(cmd[q])
    BY <1>1, <1>2, <1>3, <2>1, <2>2, LoneNoWriter DEF Bound, Active
  <2>3. CASE Lone(id[q])
    BY <1>1, <1>3, <2>1, <2>3, LoneNoWriter DEF Bound, Active
  <2> QED BY <2>1, <2>2, <2>3 DEF Bound
<1>4. ASSUME NEW q \in Procs, q # p, cmd[q].op = "snapshot" PROVE ~Active(q)
  BY <1>1, <1>2, <1>4, LoneNoWriter DEF Writes
<1>5. ASSUME NEW s \in Names, Midway(s)
      PROVE  cmd[p].op = "snapshot" /\ cmd[p].name = s /\ pc[p] \in Written \cup Saving
  BY <1>4, <1>5 DEF Midway, Active, Written, Saving
<1>6. ASSUME NEW s \in Names, cmd[p].op = "snapshot", cmd[p].name = s, pc'[p] \in Written \cup Saving
      PROVE  Midway(s)'
  BY <1>1, <1>6 DEF Midway
<1>7. /\ Readable => meta.app = app /\ \A s \in Names : Midway(s) \/ meta.snapshots[s] = Files(s)
      /\ Bound(p) => loaded[p].app = app /\ \A s \in Names : InProgress(p, s) \/ loaded[p].snapshots[s] = Files(s)
  BY DEF RecordsHold, Agrees
<1>8. ASSUME pc[p] = "remove" \/ (cmd[p].op = "snapshot" /\ pc[p] \notin {"load", "capture"})
      PROVE  ~Cut(p)
  BY <1>1, <1>8, CutHurts
<1>9. SUFFICES /\ Readable' => /\ meta'.app = app'
                               /\ \A s \in Names : Midway(s)' \/ meta'.snapshots[s] = Files(s)'
               /\ Bound(p)' => /\ loaded'[p].app = app'
                               /\ \A s \in Names : InProgress(p, s)' \/ loaded'[p].snapshots[s] = Files(s)'
  BY <1>3 DEF RecordsHold, Agrees
<1>10. ASSUME UNCHANGED <<meta, app, mem, vmstate>>
       PROVE  Readable' = Readable /\ \A s \in Names : Files(s)' = Files(s)
  BY <1>10 DEF Readable, Files
<1>11. CASE Exists(p)
  <2>1. UNCHANGED <<meta, app, mem, vmstate>> /\ pc'[p] \in {"remove", "create", "idle"}
    BY <1>11, EndFrame, GotoFrame DEF Exists, Cut, Labels, diskVars
  <2>2. cmd[p].op = "build"
    BY <1>0, <1>11 DEF Exists, Place, Building
  <2> QED BY <1>1, <1>5, <1>7, <1>10, <2>1, <2>2 DEF Bound, Saving
<1>12. CASE Remove(p)
  <2>1. pc'[p] = "create" /\ meta' = Absent
    BY <1>8, <1>12, GotoFrame DEF Remove, Labels
  <2>2. cmd[p].op = "build"
    BY <1>0, <1>12 DEF Remove, Place, Building
  <2> QED BY <1>1, <2>1, <2>2 DEF Readable, Unreadable, Bound, Saving
<1>13. CASE Create(p) \/ Compile(p)
  <2>1. meta = Absent
    BY <1>13 DEF BlankInv, Making, Create, Compile
  <2>2. meta' = Absent
    BY <1>13, <2>1 DEF Create, Compile
  <2>3. pc'[p] \in {"compile", "hash", "idle"}
    BY <1>13, EndFrame, GotoFrame DEF Create, Compile, Cut, Labels
  <2>4. cmd[p].op = "build"
    BY <1>0, <1>13 DEF Create, Compile, Place, Building
  <2> QED BY <1>1, <2>2, <2>3, <2>4 DEF Readable, Unreadable, Bound, Saving
<1>14. CASE Load(p)
  <2>1. UNCHANGED <<meta, app, mem, vmstate>> /\ pc[p] = "load"
    BY <1>14 DEF Load, diskVars
  <2>2. \A s \in Names : ~Midway(s)
    BY <1>5, <2>1 DEF Written, Saving
  <2>3. pc'[p] # "idle" => Readable /\ loaded'[p] = meta
    BY <2>1, LoadLoads
  <2> QED BY <1>7, <1>10, <2>1, <2>2, <2>3 DEF Bound
<1>15. CASE LaunchIteration(p)
  <2>1. UNCHANGED <<meta, app, mem, vmstate>> /\ pc[p] = "launch" /\ cmd[p].op = "run"
    BY <1>0, <1>15 DEF LaunchIteration, diskVars, Place
  <2>2. Bound(p)
    BY <1>1, <2>1 DEF Bound
  <2>3. loaded'[p].app = loaded[p].app /\ loaded'[p].snapshots = loaded[p].snapshots
    BY <1>1, <2>1, HoldsStep DEF HoldsNext, Manifest
  <2>4. \A s \in Names : ~Midway(s) /\ ~InProgress(p, s)
    BY <1>5, <2>1 DEF InProgress
  <2> QED BY <1>7, <1>10, <2>1, <2>2, <2>3, <2>4
<1>16. CASE Capture(p)
  <2>1. cmd[p].op = "snapshot" /\ cmd[p].name \in Names /\ pc[p] = "capture" /\ meta' = meta /\ app' = app
    BY <1>0, <1>1, <1>16, CommandFields DEF Capture, Place, Capturing
  <2>2. Bound(p) /\ loaded' = loaded
    BY <1>1, <1>16, <2>1 DEF Bound, Capture, procVars
  <2>3. \A s \in Names : ~Midway(s) /\ ~InProgress(p, s)
    BY <1>5, <2>1 DEF InProgress, Written, Saving
  <2>4. CASE Cut(p)
    <3>1. pc'[p] = "idle" /\ UNCHANGED <<mem, vmstate>>
      BY <1>16, <2>4, EndFrame, GotoFrame DEF Capture, Cut, Labels
    <3> QED BY <1>7, <1>10, <2>1, <2>3, <3>1 DEF Bound
  <2>5. CASE ~Cut(p)
    <3>1. pc'[p] \in Written
      BY <1>16, <2>5, GotoFrame DEF Capture, Labels, Written
    <3>2. \A s \in Names : s = cmd[p].name => Midway(s)' /\ InProgress(p, s)'
      BY <1>1, <1>6, <2>1, <3>1 DEF InProgress
    <3>3. \A s \in Names : s # cmd[p].name => Files(s)' = Files(s)
      BY <1>0, <1>16, <2>1 DEF Capture, Files, DiskType
    <3>4. Readable' = Readable
      BY <2>1 DEF Readable
    <3> QED BY <1>7, <2>1, <2>2, <2>3, <3>2, <3>3, <3>4
  <2> QED BY <2>4, <2>5
<1>17. CASE CaptureRest(p)
  <2>1. /\ cmd[p].op = "snapshot" /\ cmd[p].name \in Names /\ meta' = meta /\ app' = app
        /\ pc[p] \in {"capture_mem", "capture_vmstate"}
    BY <1>0, <1>1, <1>17, CommandFields DEF CaptureRest, Place, Capturing
  <2>2. Bound(p) /\ loaded' = loaded
    BY <1>1, <1>17, <2>1 DEF Bound, CaptureRest, procVars
  <2>3. \A s \in Names : (Midway(s) => s = cmd[p].name) /\ (InProgress(p, s) => s = cmd[p].name)
    BY <1>5, <2>1 DEF InProgress
  <2>4. pc'[p] \in Written
    BY <1>8, <1>17, <2>1, GotoFrame DEF CaptureRest, Captured, Labels, Written
  <2>5. \A s \in Names : s = cmd[p].name => Midway(s)' /\ InProgress(p, s)'
    BY <1>1, <1>6, <2>1, <2>4 DEF InProgress
  <2>6. \A s \in Names : s # cmd[p].name => Files(s)' = Files(s)
    BY <1>0, <1>17, <2>1 DEF CaptureRest, Files, DiskType
  <2>7. Readable' = Readable
    BY <2>1 DEF Readable
  <2> QED BY <1>7, <2>1, <2>2, <2>3, <2>5, <2>6, <2>7
<1>18. CASE VerifyRestore(p)
  <2>1. cmd[p].op = "snapshot" /\ UNCHANGED <<meta, app, mem, vmstate>> /\ pc[p] = "verify_restore"
    BY <1>0, <1>18 DEF VerifyRestore, Place, Capturing, diskVars
  <2>2. pc'[p] = "hash" /\ loaded' = loaded
    BY <1>8, <1>18, <2>1, GotoFrame DEF VerifyRestore, Labels
  <2>3. Bound(p) /\ \A s \in Names : InProgress(p, s) => InProgress(p, s)'
    BY <1>1, <2>1, <2>2 DEF Bound, InProgress, Written
  <2>4. \A s \in Names : Midway(s) => Midway(s)'
    BY <1>5, <1>6, <2>1, <2>2 DEF Written
  <2> QED BY <1>7, <1>10, <2>1, <2>2, <2>3, <2>4
<1>19. CASE Hash(p) /\ cmd[p].op = "build"
  <2>1. UNCHANGED <<meta, app, mem, vmstate>> /\ pc[p] = "hash" /\ meta = Absent /\ Zero
    BY <1>19 DEF Hash, diskVars, BlankInv, Making
  <2>2. loaded[p].snapshots = Blank.snapshots
    BY <1>1, <1>19 DEF BlankInv
  <2>3. pc'[p] # "idle" => loaded'[p] = [loaded[p] EXCEPT !.app = app]
    <3>1. Cut(p) => pc'[p] = "idle"
      BY EndFrame DEF Cut
    <3> QED BY <1>0, <1>19, <3>1 DEF Hash, ProcType
  <2>4. pc'[p] # "idle" => loaded'[p].app = app /\ loaded'[p].snapshots = Blank.snapshots
    BY <1>1, <2>2, <2>3 DEF Manifest
  <2>5. \A s \in Names : Files(s) = NoRecord /\ Blank.snapshots[s] = NoRecord
    BY <2>1 DEF Zero, Files, NoRecord, Blank
  <2>6. ~Readable
    BY <2>1 DEF Readable, Unreadable
  <2>7. Bound(p)' => /\ loaded'[p].app = app'
                     /\ \A s \in Names : loaded'[p].snapshots[s] = Files(s)'
    BY <1>10, <2>1, <2>4, <2>5 DEF Bound
  <2> QED BY <1>10, <2>1, <2>6, <2>7
<1>20. CASE Hash(p) /\ cmd[p].op = "snapshot"
  <2>1. /\ UNCHANGED <<meta, app, mem, vmstate>> /\ pc[p] = "hash" /\ cmd[p].name \in Names
        /\ pc'[p] = "save_open"
        /\ loaded'[p] = PutSnapshot(loaded[p], cmd[p].name, Files(cmd[p].name))
    BY <1>0, <1>1, <1>8, <1>20, CommandFields, GotoFrame DEF Hash, diskVars, Labels, ProcType
  <2>2. Bound(p)
    BY <1>1, <1>20, <2>1 DEF Bound, Saving
  <2>3. /\ loaded'[p].app = loaded[p].app
        /\ loaded'[p].snapshots[cmd[p].name] = Files(cmd[p].name)
        /\ \A s \in Names : s # cmd[p].name => loaded'[p].snapshots[s] = loaded[p].snapshots[s]
    BY <1>1, <2>1 DEF PutSnapshot, Manifest
  <2>4. \A s \in Names : InProgress(p, s) => s = cmd[p].name
    BY DEF InProgress
  <2>5. \A s \in Names : Midway(s) => Midway(s)'
    BY <1>5, <1>6, <2>1 DEF Saving
  <2> QED BY <1>7, <1>10, <2>1, <2>2, <2>3, <2>4, <2>5
<1>21. CASE SaveOpen(p)
  <2>1. UNCHANGED <<app, mem, vmstate, loaded>> /\ pc[p] = "save_open"
    BY <1>21 DEF SaveOpen
  <2>2. Bound(p) /\ \A s \in Names : ~InProgress(p, s) /\ Files(s)' = Files(s)
    BY <1>1, <2>1 DEF Bound, InProgress, Written, Saving, Files
  <2>3. CASE Cut(p)
    <3>1. meta' = meta /\ pc'[p] = "idle" /\ cmd[p].op # "snapshot"
      BY <1>8, <1>21, <2>1, <2>3, EndFrame, GotoFrame DEF SaveOpen, Cut, Labels
    <3>2. \A s \in Names : ~Midway(s)
      BY <1>5, <3>1
    <3> QED BY <1>7, <1>10, <2>1, <3>1, <3>2 DEF Bound
  <2>4. CASE ~Cut(p)
    <3>1. meta' = Empty
      BY <1>21, <2>4 DEF SaveOpen
    <3> QED BY <1>7, <2>1, <2>2, <3>1 DEF Readable, Unreadable
  <2> QED BY <2>3, <2>4
<1>22. CASE SaveWrite(p)
  <2>1. UNCHANGED <<app, mem, vmstate, loaded>> /\ pc[p] = "save_write"
    BY <1>22 DEF SaveWrite, procVars
  <2>2. Bound(p) /\ \A s \in Names : ~InProgress(p, s) /\ Files(s)' = Files(s)
    BY <1>1, <2>1 DEF Bound, InProgress, Written, Saving, Files
  <2>3. meta = Empty /\ fd[p] = inode
    BY <1>1, <1>2, <2>1 DEF OwnInv, Undisturbed
  <2>4. meta' = loaded[p] \/ meta' \in Unreadable
    BY <1>22, <2>3 DEF SaveWrite, Unreadable, Empty, Absent
  <2> QED BY <1>7, <2>1, <2>2, <2>4 DEF Readable
<1>23. CASE Serve(p)
  <2>1. UNCHANGED <<meta, app, mem, vmstate, loaded>> /\ pc[p] = "serve" /\ cmd[p].op = "run" /\ pc'[p] = "idle"
    BY <1>0, <1>23, EndFrame DEF Serve, diskVars, procVars, Place, Cut
  <2>2. \A s \in Names : ~Midway(s)
    BY <1>5, <2>1
  <2> QED BY <1>7, <1>10, <2>1, <2>2 DEF Bound
<1>24. ~Check(p)
  BY <1>0 DEF Check, Place, Writes
<1> QED BY <1>0, <1>11, <1>12, <1>13, <1>14, <1>15, <1>16, <1>17, <1>18, <1>19, <1>20, <1>21, <1>22, <1>23, <1>24
        DEF Work, Hash, Place

LEMMA RecordsWork ==
    ASSUME TypeOK, PlaceInv, NumberInv, EmptiedBy, OwnInv, ReportsInv, BlankInv, RecordsInv,
           NEW p \in Procs, Work(p), UNCHANGED met
    PROVE  RecordsInv'
<1>0. Frame(p) /\ Place(p)
  BY WorkFrame DEF PlaceInv
<1> SUFFICES ASSUME Peace(AllOps)', ~Hurt' PROVE RecordsHold'
  BY DEF RecordsInv
<1>1. Peace(AllOps)
  BY <1>0, PeaceWork DEF AllOps
<1>2. CASE emptied' = emptied
  <2>1. ~Hurt
    BY <1>0, <1>2 DEF Hurt, Frame
  <2> QED BY <1>1, <1>2, <2>1, RecordsReader, RecordsWriter DEF RecordsInv
<1>3. CASE emptied' # emptied
  <2>1. pc[p] = "create" /\ pc'[p] = "compile" /\ cmd[p].op = "build" /\ cmd' = cmd /\ id' = id
    BY <1>0, <1>3 DEF Frame, Place, Building
  <2>2. Create(p) /\ meta = Absent
    BY <1>1, <2>1, LastStages DEF BlankInv, Making
  <2>3. ~Readable'
    BY <2>2 DEF Create, Readable, Unreadable
  <2>4. Lone(id[p]) /\ Active(p) /\ Writes(cmd[p])
    BY <1>1, <2>1, PeaceLone DEF Active, Writes
  <2>5. ASSUME NEW q \in Procs, Bound(q)' PROVE FALSE
    <3>1. q # p
      BY <2>1, <2>5 DEF Bound, Saving
    <3>2. Bound(q)
      BY <1>0, <2>5, <3>1, OthersStay
    <3>3. CASE Writes(cmd[q])
      BY <2>4, <3>1, <3>2, <3>3, LoneNoWriter DEF Bound, Active
    <3>4. CASE Lone(id[q])
      BY <2>4, <3>1, <3>2, <3>4, LoneNoWriter DEF Bound, Active
    <3> QED BY <3>2, <3>3, <3>4 DEF Bound
  <2> QED BY <2>3, <2>5 DEF RecordsHold
<1> QED BY <1>2, <1>3

(***************************************************************************)
(* What a run restored its VM from is what its manifest records, while it  *)
(* is Fair to expect it: no snapshot or build was cut, no two writers that *)
(* ended have met, and the run met none.                                   *)
(***************************************************************************)
Fair(p) ==
    /\ \A d \in done : ~(d.how = "cut" /\ d.at # "load" /\ d.cmd.op \in {"snapshot", "build"})
    /\ \A e \in Writers : MetBy(e) = {} /\ {e.id, id[p]} \notin met
    /\ \A q \in Procs : Writes(cmd[q]) => {id[q], id[p]} \notin met

RestoredInv ==
    /\ \A p \in Procs : pc[p] = "idle" /\ id[p] # 0 => \E d \in done : d.id = id[p] /\ d.cmd = cmd[p]
    /\ \A p \in Procs : pc[p] = "load" => restored[p] = NoRecord
    /\ \A p \in Procs : cmd[p].op = "run" /\ restored[p] # NoRecord /\ Fair(p) =>
         restored[p] = loaded[p].snapshots[cmd[p].from]

\* Where a cut may have happened: the removal is a build's.
DonePlaces == \A d \in done : d.at = "remove" => d.cmd.op = "build"

LEMMA RestoredInit == Init => RestoredInv /\ DonePlaces
BY DEF Init, RestoredInv, DonePlaces

LEMMA DonePlacesWork ==
    ASSUME TypeOK, PlaceInv, DonePlaces, NEW p \in Procs, Frame(p)
    PROVE  DonePlaces'
<1>1. Place(p)
  BY DEF PlaceInv
<1> SUFFICES ASSUME NEW d \in done', d \notin done, d.at = "remove" PROVE d.cmd.op = "build"
  BY DEF DonePlaces
<1> QED BY <1>1 DEF Frame, EndRecord, Place, Building

LEMMA RestoredStart ==
    ASSUME TypeOK, NumberInv, RestoredInv, NEW p \in Procs, Start(p)
    PROVE  RestoredInv'
<1>0. /\ done' = done /\ pc[p] = "idle" /\ pc'[p] \in {"exists", "load"} /\ restored'[p] = NoRecord
      /\ met \subseteq met' /\ Writers' = Writers
  BY StartFrame DEF Writers
<1>1. \A q \in Procs \ {p} : /\ pc'[q] = pc[q] /\ cmd'[q] = cmd[q] /\ id'[q] = id[q]
                             /\ loaded'[q] = loaded[q] /\ restored'[q] = restored[q]
  BY StartFrame
<1>2. \A q \in Procs : pc'[q] = "idle" /\ id'[q] # 0 => \E d \in done' : d.id = id'[q] /\ d.cmd = cmd'[q]
  BY <1>0, <1>1 DEF RestoredInv
<1>3. \A q \in Procs : pc'[q] = "load" => restored'[q] = NoRecord
  BY <1>0, <1>1 DEF RestoredInv
<1>4. ASSUME NEW q \in Procs, q # p, Fair(q)' PROVE Fair(q)
  <2>1. \A d \in done : ~(d.how = "cut" /\ d.at # "load" /\ d.cmd.op \in {"snapshot", "build"})
    BY <1>0, <1>4 DEF Fair
  <2>2. \A e \in Writers : MetBy(e) = {} /\ {e.id, id[q]} \notin met
    BY <1>0, <1>1, <1>4 DEF Fair, MetBy
  <2>3. ASSUME NEW r \in Procs, Writes(cmd[r]) PROVE {id[r], id[q]} \notin met
    <3>1. CASE r # p
      BY <1>0, <1>1, <1>4, <2>3, <3>1 DEF Fair
    <3>2. CASE r = p /\ id[p] = 0
      BY <3>2 DEF NumberInv, MetNumbers
    <3>3. CASE r = p /\ id[p] # 0
      <4>1. PICK d \in done : d.id = id[p] /\ d.cmd = cmd[p]
        BY <1>0, <3>3 DEF RestoredInv
      <4>2. d \in Writers
        BY <2>3, <3>3, <4>1 DEF Writers
      <4> QED BY <2>2, <3>3, <4>1, <4>2
    <3> QED BY <3>1, <3>2, <3>3
  <2> QED BY <2>1, <2>2, <2>3 DEF Fair
<1>5. ASSUME NEW q \in Procs, cmd'[q].op = "run", restored'[q] # NoRecord, Fair(q)'
      PROVE  restored'[q] = loaded'[q].snapshots[cmd'[q].from]
  <2>1. q # p
    BY <1>0, <1>5
  <2> QED BY <1>1, <1>4, <1>5, <2>1 DEF RestoredInv
<1> QED BY <1>2, <1>3, <1>5 DEF RestoredInv, NoRecord

LEMMA FairWork ==
    ASSUME TypeOK, NEW p \in Procs, Frame(p), NEW q \in Procs, Fair(q)'
    PROVE  Fair(q)
<1>1. done \subseteq done' /\ Writers \subseteq Writers' /\ met' = met /\ id' = id /\ cmd' = cmd
  BY DEF Frame, Writers
<1> QED BY <1>1 DEF Fair, MetBy

\* A fair run that is still running is alone with writers that never met.
LEMMA FairPeace ==
    ASSUME NumberInv, DonePlaces, NEW p \in Procs, Active(p), Fair(p)
    PROVE  Lone(id[p]) /\ Peace(AllOps) /\ ~Hurt
<1>1. \A x, y : {x, y} = {y, x}
  OBVIOUS
<1>2. \A e \in Writers : {id[p], e.id} \notin met /\ {e.id, id[p]} \notin met
  BY <1>1 DEF Fair
<1>3. \A q \in Procs : Writes(cmd[q]) => {id[p], id[q]} \notin met
  BY <1>1 DEF Fair
<1>4. Lone(id[p])
  BY <1>2, <1>3 DEF Lone
<1>5. ASSUME NEW q \in Procs, Active(q), Writes(cmd[q]) PROVE q = p
  BY <1>4, <1>5, LoneNoWriter
<1>6. \A e, f \in Writers : {e.id, f.id} \notin met
  BY DEF Fair, MetBy
<1>7. Peace(AllOps)
  BY <1>2, <1>3, <1>5, <1>6 DEF Peace, LoneIn
<1>8. ~Hurt
  BY DEF Fair, Hurt, DonePlaces
<1> QED BY <1>4, <1>7, <1>8

LEMMA NeverLoads ==
    ASSUME TypeOK, PlaceInv, NEW p \in Procs, Work(p), UNCHANGED met
    PROVE  pc'[p] # "load"
<1>0. pc[p] # "idle" /\ (Cut(p) => pc'[p] = "idle")
  BY WorkFrame, EndFrame DEF Frame, Cut
<1>1. CASE Load(p)
  <2>1. ASSUME NEW l \in Labels \ {"idle"}, Goto(p, l) PROVE pc'[p] = l
    BY <2>1, GotoFrame
  <2> QED BY <1>0, <1>1, <2>1 DEF Load, Labels
<1>2. CASE Capture(p)
  BY <1>0, <1>2, GotoFrame DEF Capture, Labels
<1>3. CASE ~Load(p) /\ ~Capture(p)
  <2>1. pc[p] \notin {"idle", "load", "capture"}
    BY <1>0, <1>3
       DEF Work, Exists, Remove, Create, Compile, LaunchIteration, CaptureRest, VerifyRestore, Hash,
           SaveOpen, SaveWrite, Serve, Check
  <2> QED BY <2>1, NoWayBack
<1> QED BY <1>1, <1>2, <1>3

LEMMA RestoredWork ==
    ASSUME TypeOK, PlaceInv, NumberInv, RecordsInv, RestoredInv, DonePlaces,
           NEW p \in Procs, Work(p), UNCHANGED met
    PROVE  RestoredInv'
<1>0. Frame(p) /\ Place(p) /\ ProcType /\ UNCHANGED met
  BY WorkFrame, TypeParts DEF PlaceInv
<1>1. cmd' = cmd /\ id' = id /\ Active(p)
  BY <1>0 DEF Frame, Active
<1>2. ASSUME NEW q \in Procs, pc'[q] = "idle", id'[q] # 0
      PROVE  \E d \in done' : d.id = id'[q] /\ d.cmd = cmd'[q]
  <2>1. CASE pc[q] = "idle"
    BY <1>0, <1>1, <1>2, <2>1 DEF RestoredInv, Frame
  <2>2. CASE pc[q] # "idle"
    <3>1. q = p
      BY <1>0, <1>2, <2>2 DEF Frame
    <3>2. PICK how \in {"ok", "bad", "cut"} : done' = done \cup {EndRecord(p, how)}
      BY <1>0, <1>2, <3>1 DEF Frame, Labels
    <3> QED BY <1>1, <3>1, <3>2, EndedIn
  <2> QED BY <2>1, <2>2
<1>3. ASSUME NEW q \in Procs, pc'[q] = "load" PROVE restored'[q] = NoRecord
  <2>1. q # p
    BY <1>3, NeverLoads
  <2> QED BY <1>0, <1>3, <2>1 DEF RestoredInv, Frame
<1>4. ASSUME NEW q \in Procs, cmd'[q].op = "run", restored'[q] # NoRecord, Fair(q)'
      PROVE  restored'[q] = loaded'[q].snapshots[cmd'[q].from]
  <2>1. Fair(q)
    BY <1>0, <1>4, FairWork
  <2>2. CASE q # p
    BY <1>0, <1>1, <1>4, <2>1, <2>2 DEF RestoredInv, Frame
  <2>3. CASE q = p /\ ~LaunchIteration(p)
    <3>1. restored' = restored
      BY <1>0, <1>1, <1>4, <2>3
         DEF Work, Exists, Remove, Create, Compile, Load, Capture, CaptureRest, VerifyRestore, Hash, SaveOpen,
             SaveWrite, Serve, Check, procVars, Place, Capturing
    <3>2. pc[p] # "load"
      BY <1>4, <2>3, <3>1 DEF RestoredInv
    <3>3. loaded'[p].snapshots = loaded[p].snapshots
      BY <1>0, <1>1, <1>4, <2>3, <3>2, HoldsStep DEF HoldsNext, ProcType, Manifest
    <3> QED BY <1>1, <1>4, <2>1, <2>3, <3>1, <3>3 DEF RestoredInv
  <2>4. CASE q = p /\ LaunchIteration(p)
    <3>1. pc[p] = "launch" /\ cmd[p].op = "run" /\ cmd[p].from \in Names \cup {NoName}
      BY <1>0, <1>1, <1>4, <2>4, CommandFields DEF LaunchIteration, ProcType
    <3>2. loaded'[p].snapshots = loaded[p].snapshots
      BY <1>0, <3>1, HoldsStep DEF HoldsNext, ProcType, Manifest
    <3>3. CASE cmd[p].from = NoName
      BY <1>1, <1>4, <2>1, <2>4, <3>2, <3>3 DEF RestoredInv, LaunchIteration
    <3>4. CASE cmd[p].from # NoName
      <4>1. restored'[p] = Files(cmd[p].from)
        BY <1>0, <2>4, <3>4 DEF LaunchIteration, ProcType
      <4>2. Lone(id[p]) /\ RecordsHold
        BY <1>1, <2>1, <2>4, FairPeace DEF RecordsInv
      <4>3. Bound(p)
        BY <3>1, <4>2 DEF Bound
      <4>4. loaded[p].snapshots[cmd[p].from] = Files(cmd[p].from)
        BY <3>1, <3>4, <4>2, <4>3 DEF RecordsHold, Agrees, InProgress
      <4> QED BY <1>1, <2>4, <3>2, <4>1, <4>4
    <3> QED BY <3>3, <3>4
  <2> QED BY <2>2, <2>3, <2>4
<1> QED BY <1>2, <1>3, <1>4 DEF RestoredInv, NoRecord

-----------------------------------------------------------------------------
(***************************************************************************)
(* Among builds that did not meet, the built files are those of the one    *)
(* that made the directory last, or they are gone; and no manifest to be   *)
(* read lists none.                                                        *)
(***************************************************************************)
BuiltInv ==
    /\ Readable => meta.app # 0
    /\ \A q \in Procs : Active(q) /\ (IF cmd[q].op = "build" THEN pc[q] \in Saving ELSE pc[q] # "load")
         => loaded[q].app # 0
    /\ Peace({"build"}) =>
         /\ app \in {0, emptied}
         /\ ~dir => app = 0
         /\ \A q \in Procs : pc[q] = "create" => app = 0
         /\ \A q \in Procs : pc[q] = "compile" => dir /\ emptied = id[q]

LEMMA BuiltInit == Init => BuiltInv
BY DEF Init, BuiltInv, Readable, Unreadable, Active

LEMMA BuiltStart ==
    ASSUME TypeOK, NumberInv, BuiltInv, NEW p \in Procs, Start(p)
    PROVE  BuiltInv'
<1>0. /\ pc[p] = "idle" /\ pc'[p] \in {"exists", "load"} /\ (pc'[p] = "exists" <=> cmd'[p].op = "build")
      /\ meta' = meta /\ app' = app /\ dir' = dir /\ emptied' = emptied
  BY StartFrame DEF diskVars
<1>1. \A q \in Procs \ {p} : pc'[q] = pc[q] /\ cmd'[q] = cmd[q] /\ id'[q] = id[q] /\ loaded'[q] = loaded[q]
  BY StartFrame
<1>2. ASSUME NEW q \in Procs, Active(q)',
             IF cmd'[q].op = "build" THEN pc'[q] \in Saving ELSE pc'[q] # "load"
      PROVE  loaded'[q].app # 0
  BY <1>0, <1>1, <1>2 DEF BuiltInv, Active, Saving
<1>3. Peace({"build"})' => Peace({"build"})
  BY PeaceStart
<1>4. \A q \in Procs : pc'[q] \in {"create", "compile"} => pc'[q] = pc[q] /\ id'[q] = id[q]
  BY <1>0, <1>1
<1> QED BY <1>0, <1>2, <1>3, <1>4 DEF BuiltInv, Readable

LEMMA BuiltLists ==
    ASSUME TypeOK, PlaceInv, BuiltInv, NEW p \in Procs, Work(p), UNCHANGED met
    PROVE  /\ (Readable => meta.app # 0)'
           /\ \A q \in Procs : Active(q)' /\ (IF cmd'[q].op = "build" THEN pc'[q] \in Saving ELSE pc'[q] # "load")
                => loaded'[q].app # 0
<1>0. Frame(p) /\ Place(p) /\ ProcType
  BY WorkFrame, TypeParts DEF PlaceInv
<1>1. cmd' = cmd /\ id' = id /\ Active(p)
  BY <1>0 DEF Frame, Active
<1>2. ASSUME meta' \notin Unreadable PROVE meta'.app # 0
  <2>1. CASE meta' = meta
    BY <1>2, <2>1 DEF BuiltInv, Readable
  <2>2. CASE pc[p] = "save_write" /\ meta' = loaded[p]
    BY <1>1, <2>2 DEF BuiltInv, Saving
  <2> QED BY <1>2, <2>1, <2>2, MetaStep
<1>3. ASSUME NEW q \in Procs, Active(q)',
             IF cmd'[q].op = "build" THEN pc'[q] \in Saving ELSE pc'[q] # "load"
      PROVE  loaded'[q].app # 0
  <2>1. CASE q # p
    BY <1>0, <1>3, <2>1 DEF BuiltInv, Frame, Active
  <2>2. CASE q = p /\ cmd[p].op = "build"
    <3>1. CASE pc[p] \in Saving
      BY <1>0, <1>1, <2>2, <3>1, HoldsStep DEF BuiltInv, HoldsNext, Saving
    <3>2. CASE pc[p] \notin Saving
      <4>1. pc'[p] \in Saving
        BY <1>1, <1>3, <2>2
      <4>2. ~Cut(p) /\ \A l \in Labels \ {"idle"} : Goto(p, l) => l \in Saving
        BY <4>1, EndFrame, GotoFrame DEF Cut, Saving
      <4>3. ~(Exists(p) \/ Remove(p) \/ Create(p) \/ Compile(p))
        BY <4>2 DEF Exists, Remove, Create, Compile, Labels, Saving
      <4>4. Hash(p)
        BY <1>0, <2>2, <3>2, <4>3
           DEF Work, Load, LaunchIteration, Capture, CaptureRest, VerifyRestore, SaveOpen, SaveWrite, Serve,
               Check, Place, Saving, Capturing
      <4>5. app # 0 /\ loaded' = [loaded EXCEPT ![p].app = app]
        BY <2>2, <4>2, <4>4 DEF Hash
      <4>6. loaded'[p].app = app
        BY <1>0, <4>5 DEF ProcType, Manifest
      <4> QED BY <2>2, <4>5, <4>6
    <3> QED BY <3>1, <3>2
  <2>3. CASE q = p /\ cmd[p].op # "build"
    <3>1. CASE pc[p] = "load"
      <4>1. Readable /\ loaded'[p] = meta
        BY <1>3, <2>3, <3>1, LoadLoads DEF Active
      <4> QED BY <2>3, <4>1 DEF BuiltInv
    <3>2. CASE pc[p] # "load"
      <4>1. loaded[p].app # 0 /\ loaded[p] \in Manifest
        BY <1>0, <1>1, <2>3, <3>2 DEF BuiltInv, ProcType
      <4>2. loaded'[p].app = loaded[p].app
        <5>1. CASE loaded'[p] = loaded[p]
          BY <5>1
        <5>2. CASE loaded'[p] = [loaded[p] EXCEPT !.benchmarks = @ \cup {id[p]}]
          BY <4>1, <5>2 DEF Manifest
        <5>3. CASE loaded'[p] = PutSnapshot(loaded[p], cmd[p].name, Files(cmd[p].name))
          BY <4>1, <5>3 DEF Manifest, PutSnapshot
        <5> QED BY <2>3, <3>2, <5>1, <5>2, <5>3, HoldsStep DEF HoldsNext
      <4> QED BY <2>3, <4>1, <4>2
    <3> QED BY <3>1, <3>2
  <2> QED BY <2>1, <2>2, <2>3
<1> QED BY <1>2, <1>3 DEF Readable

\* Nobody else touches the built files, nor takes the directory away.
LEMMA NoBuildStep ==
    ASSUME TypeOK, PlaceInv, NEW p \in Procs, Work(p), cmd[p].op # "build"
    PROVE  app' = app /\ emptied' = emptied /\ (dir => dir')
<1>1. pc[p] \notin Building
  BY DEF PlaceInv, Place
<1> QED BY <1>1 DEF Work, Exists, Remove, Create, Compile, Load, LaunchIteration, Capture, CaptureRest,
           VerifyRestore, Hash, SaveOpen, SaveWrite, Serve, Check, Building, diskVars

LEMMA BuiltWork ==
    ASSUME TypeOK, PlaceInv, NumberInv, BuiltInv, NEW p \in Procs, Work(p), UNCHANGED met
    PROVE  BuiltInv'
<1>0. Frame(p) /\ Place(p) /\ DiskType /\ Place(p)'
  BY WorkFrame, PlaceWork, TypeParts DEF PlaceInv
<1>1. cmd' = cmd /\ id' = id /\ Active(p)
  BY <1>0 DEF Frame, Active
<1> SUFFICES ASSUME Peace({"build"})'
             PROVE  /\ app' \in {0, emptied'}
                    /\ ~dir' => app' = 0
                    /\ \A q \in Procs : pc'[q] = "create" => app' = 0
                    /\ \A q \in Procs : pc'[q] = "compile" => dir' /\ emptied' = id'[q]
  BY BuiltLists DEF BuiltInv
<1>2. Peace({"build"})
  BY <1>0, PeaceWork
<1>3. /\ app \in {0, emptied} /\ (~dir => app = 0)
      /\ \A q \in Procs : (pc[q] = "create" => app = 0) /\ (pc[q] = "compile" => dir /\ emptied = id[q])
  BY <1>2 DEF BuiltInv
<1>4. CASE cmd[p].op # "build"
  <2>1. app' = app /\ emptied' = emptied /\ (dir => dir')
    BY <1>4, NoBuildStep
  <2>2. \A q \in Procs : pc'[q] \in {"create", "compile"} => pc'[q] = pc[q]
    BY <1>0, <1>1, <1>4 DEF Frame, Place, Building
  <2> QED BY <1>0, <1>1, <1>3, <2>1, <2>2 DEF DiskType
<1>5. CASE cmd[p].op = "build"
  <2>1. ASSUME NEW q \in Procs, pc'[q] \in {"create", "compile"} PROVE q = p
    <3> SUFFICES ASSUME q # p PROVE FALSE
      OBVIOUS
    <3>1. Active(q) /\ cmd[q].op = "build"
      BY <1>0, <2>1 DEF Frame, Active, PlaceInv, Place, Building
    <3> QED BY <1>1, <1>2, <1>5, <3>1, PeaceAlone DEF Writes
  <2>2. CASE Exists(p)
    <3>1. app' = app /\ emptied' = emptied /\ dir' = dir
      BY <2>2 DEF Exists, diskVars
    <3>2. pc'[p] # "compile" /\ (pc'[p] = "create" => ~dir)
      BY <2>2, EndFrame, GotoFrame DEF Exists, Cut, Labels
    <3> QED BY <1>3, <2>1, <3>1, <3>2
  <2>3. CASE Remove(p)
    <3>1. pc'[p] = "create" => app' = 0
      BY <2>3, RemoveZero
    <3>2. emptied' = emptied /\ app' \in {app, 0} /\ pc'[p] \in {"create", "idle"} /\ (dir' = dir \/ app' = 0)
      BY <2>3, EndFrame, GotoFrame DEF Remove, Cut, Labels
    <3> QED BY <1>3, <2>1, <3>1, <3>2
  <2>4. CASE Create(p)
    <3>1. app = 0 /\ app' = 0
      BY <1>3, <2>4 DEF Create
    <3>2. pc'[p] = "idle" \/ (pc'[p] = "compile" /\ dir' /\ emptied' = id[p])
      BY <2>4, EndFrame, GotoFrame DEF Create, Cut, Labels
    <3> QED BY <1>1, <2>1, <3>1, <3>2
  <2>5. CASE Compile(p)
    <3>1. dir /\ emptied = id[p]
      BY <1>3, <2>5 DEF Compile
    <3>2. dir' = dir /\ emptied' = emptied /\ app' \in {app, id[p]} /\ pc'[p] \in {"hash", "idle"}
      BY <2>5, EndFrame, GotoFrame DEF Compile, Cut, Labels
    <3> QED BY <1>3, <2>1, <3>1, <3>2
  <2>6. CASE Hash(p) \/ SaveOpen(p) \/ SaveWrite(p)
    <3>1. app' = app /\ emptied' = emptied /\ (dir => dir')
      BY <2>6 DEF Hash, SaveOpen, SaveWrite, diskVars
    <3>2. pc'[p] \notin {"create", "compile"}
      <4>1. \A how \in {"ok", "bad", "cut"} : End(p, how) => pc'[p] = "idle"
        BY EndFrame
      <4>2. \A l \in Labels \ {"idle"} : Goto(p, l) => pc'[p] = l
        BY GotoFrame
      <4> QED BY <2>6, <4>1, <4>2 DEF Hash, SaveOpen, SaveWrite, Cut, Labels
    <3> QED BY <1>0, <1>3, <2>1, <3>1, <3>2 DEF DiskType
  <2> QED BY <1>0, <1>5, <2>2, <2>3, <2>4, <2>5, <2>6
          DEF Work, Load, LaunchIteration, Capture, CaptureRest, VerifyRestore, Serve, Check, Place, Capturing
<1> QED BY <1>4, <1>5

(***************************************************************************)
(* Among snapshots that did not meet, every record names one command's     *)
(* pair of files, and one that is being taken has its own files or none.   *)
(***************************************************************************)
Paired(m) == \A s \in Names : m.snapshots[s].mem = m.snapshots[s].vmstate

CapturesOwn(q) ==
    /\ pc[q] \in {"capture_mem", "verify_restore", "hash"} => vmstate[cmd[q].name] \in {0, id[q]}
    /\ pc[q] \in {"capture_vmstate", "verify_restore", "hash"} => mem[cmd[q].name] \in {0, id[q]}

PairInv ==
    Peace({"snapshot"}) =>
      /\ Readable => Paired(meta)
      /\ \A q \in Procs : Paired(loaded[q])
      /\ \A q \in Procs : cmd[q].op = "snapshot" => CapturesOwn(q)

LEMMA PairInit == Init => PairInv
BY DEF Init, PairInv, Readable, Unreadable, Paired, Blank, NoRecord, CapturesOwn

LEMMA PairStart ==
    ASSUME TypeOK, NumberInv, PairInv, NEW p \in Procs, Start(p)
    PROVE  PairInv'
<1>0. /\ pc'[p] \in {"exists", "load"} /\ loaded'[p] = Blank
      /\ meta' = meta /\ mem' = mem /\ vmstate' = vmstate
  BY StartFrame DEF diskVars
<1>1. \A q \in Procs \ {p} : pc'[q] = pc[q] /\ cmd'[q] = cmd[q] /\ id'[q] = id[q] /\ loaded'[q] = loaded[q]
  BY StartFrame
<1>2. Peace({"snapshot"})' => Peace({"snapshot"})
  BY PeaceStart
<1>3. Paired(Blank)
  BY DEF Paired, Blank, NoRecord
<1>4. CapturesOwn(p)'
  BY <1>0 DEF CapturesOwn
<1>5. \A q \in Procs \ {p} : cmd'[q].op = "snapshot" => (CapturesOwn(q) => CapturesOwn(q)')
  BY <1>0, <1>1 DEF CapturesOwn
<1>6. \A q \in Procs : Paired(loaded[q]) => Paired(loaded'[q])
  BY <1>0, <1>1, <1>3
<1>7. Paired(meta)' <=> Paired(meta)
  BY <1>0 DEF Paired
<1>8. (\A q \in Procs : Paired(loaded[q])) => (\A q \in Procs : Paired(loaded[q]))'
  BY <1>6 DEF Paired
<1> QED BY <1>0, <1>1, <1>2, <1>4, <1>5, <1>7, <1>8 DEF PairInv, Readable

\* A step of no snapshot command leaves its files, or removes them.
LEMMA OnlyRemoves ==
    ASSUME TypeOK, PlaceInv, NEW p \in Procs, Work(p), cmd[p].op # "snapshot", NEW s \in Names
    PROVE  mem'[s] \in {mem[s], 0} /\ vmstate'[s] \in {vmstate[s], 0}
<1>0. DiskType /\ pc[p] \notin Capturing
  BY TypeParts DEF PlaceInv, Place
<1>1. CASE Remove(p)
  BY <1>0, <1>1 DEF Remove, Gone, DiskType
<1>2. CASE UNCHANGED <<mem, vmstate>>
  BY <1>2
<1> QED BY <1>0, <1>1, <1>2
        DEF Work, Exists, Create, Compile, Load, LaunchIteration, Capture, CaptureRest, VerifyRestore, Hash,
            SaveOpen, SaveWrite, Serve, Check, Capturing, diskVars

LEMMA PairFiles ==
    ASSUME TypeOK, PlaceInv, NumberInv, PairInv, Peace({"snapshot"}), NEW p \in Procs, Work(p), UNCHANGED met,
           NEW q \in Procs, cmd[q].op = "snapshot"
    PROVE  CapturesOwn(q)'
<1>0. Frame(p) /\ Place(p) /\ DiskType /\ cmd[q] \in Command
  BY WorkFrame, TypeParts DEF PlaceInv, ProcType
<1>1. cmd' = cmd /\ id' = id /\ Active(p) /\ cmd[q].name \in Names
  BY <1>0, CommandFields DEF Frame, Active
<1>2. CapturesOwn(q)
  BY DEF PairInv
<1>3. CASE cmd[p].op # "snapshot"
  <2>1. pc'[q] = pc[q]
    BY <1>0, <1>3 DEF Frame
  <2>2. mem'[cmd[q].name] \in {mem[cmd[q].name], 0} /\ vmstate'[cmd[q].name] \in {vmstate[cmd[q].name], 0}
    BY <1>1, <1>3, OnlyRemoves
  <2> QED BY <1>1, <1>2, <2>1, <2>2 DEF CapturesOwn
<1>4. CASE cmd[p].op = "snapshot" /\ q # p
  <2>1. ~Active(q)
    BY <1>1, <1>4, PeaceAlone DEF Writes
  <2>2. pc'[q] = "idle"
    BY <1>0, <1>4, <2>1 DEF Frame, Active
  <2> QED BY <2>2 DEF CapturesOwn
<1>5. CASE q = p
  <2>1. CASE Capture(p) \/ CaptureRest(p)
    <3>1. CASE Cut(p)
      BY <1>5, <3>1, EndFrame DEF Cut, CapturesOwn
    <3>2. CASE ~Cut(p) /\ Capture(p)
      <4>1. CASE pc'[p] = "capture_mem" /\ vmstate' = [vmstate EXCEPT ![cmd[p].name] = id[p]]
        BY <1>0, <1>1, <1>5, <4>1 DEF CapturesOwn, DiskType
      <4>2. CASE pc'[p] = "capture_vmstate" /\ mem' = [mem EXCEPT ![cmd[p].name] = id[p]]
        BY <1>0, <1>1, <1>5, <4>2 DEF CapturesOwn, DiskType
      <4> QED BY <3>2, <4>1, <4>2, GotoFrame DEF Capture, Labels
    <3>3. CASE ~Cut(p) /\ CaptureRest(p)
      <4>1. pc'[p] \in {"verify_restore", "hash"}
        BY <3>3, GotoFrame DEF CaptureRest, Captured, Labels
      <4>2. mem'[cmd[p].name] \in {0, id[p]} /\ vmstate'[cmd[p].name] \in {0, id[p]}
        BY <1>0, <1>1, <1>2, <1>5, <3>3 DEF CaptureRest, CapturesOwn, DiskType
      <4> QED BY <1>1, <1>5, <4>1, <4>2 DEF CapturesOwn
    <3> QED BY <2>1, <3>1, <3>2, <3>3
  <2>2. CASE VerifyRestore(p)
    <3>1. pc[p] = "verify_restore" /\ mem' = mem /\ vmstate' = vmstate
      BY <2>2 DEF VerifyRestore, diskVars
    <3> QED BY <1>1, <1>2, <1>5, <3>1 DEF CapturesOwn
  <2>3. CASE Load(p) \/ Hash(p) \/ SaveOpen(p) \/ SaveWrite(p)
    <3>1. \A how \in {"ok", "bad", "cut"} : End(p, how) => pc'[p] = "idle"
      BY EndFrame
    <3>2. \A l \in Labels \ {"idle"} : Goto(p, l) => pc'[p] = l
      BY GotoFrame
    <3>3. pc'[p] \in {"idle", "launch", "capture", "check", "save_open", "save_write", "serve"}
      BY <2>3, <3>1, <3>2 DEF Load, Hash, SaveOpen, SaveWrite, Cut, Labels
    <3> QED BY <1>5, <3>3 DEF CapturesOwn
  <2> QED BY <1>0, <1>5, <2>1, <2>2, <2>3
          DEF Work, Exists, Remove, Create, Compile, LaunchIteration, Serve, Check, Place, Building
<1> QED BY <1>3, <1>4, <1>5

LEMMA PairWork ==
    ASSUME TypeOK, PlaceInv, NumberInv, PairInv, NEW p \in Procs, Work(p), UNCHANGED met
    PROVE  PairInv'
<1>0. Frame(p) /\ Place(p) /\ DiskType /\ ProcType
  BY WorkFrame, TypeParts DEF PlaceInv
<1>1. cmd' = cmd /\ id' = id
  BY <1>0 DEF Frame
<1> SUFFICES ASSUME Peace({"snapshot"})'
             PROVE  /\ meta' \notin Unreadable => Paired(meta')
                    /\ \A q \in Procs : Paired(loaded'[q])
                    /\ \A q \in Procs : cmd[q].op = "snapshot" => CapturesOwn(q)'
  BY <1>1 DEF PairInv, Readable, Paired
<1>2. Peace({"snapshot"})
  BY <1>0, PeaceWork
<1>3. (Readable => Paired(meta)) /\ \A q \in Procs : Paired(loaded[q])
  BY <1>2 DEF PairInv
<1>4. meta' \notin Unreadable => Paired(meta')
  BY <1>3, MetaStep DEF Readable
<1>5. ASSUME NEW q \in Procs PROVE Paired(loaded'[q])
  <2>1. CASE q # p \/ loaded'[p] = loaded[p]
    BY <1>0, <1>3, <2>1 DEF Frame
  <2>2. CASE q = p /\ Readable /\ loaded'[p] = meta
    BY <1>3, <2>2
  <2>3. CASE q = p /\ loaded'[p] = [loaded[p] EXCEPT !.benchmarks = @ \cup {id[p]}]
    <3>1. loaded'[p].snapshots = loaded[p].snapshots
      BY <1>0, <2>3 DEF ProcType, Manifest
    <3> QED BY <1>3, <2>3, <3>1 DEF Paired
  <2>4. CASE q = p /\ loaded'[p] = [loaded[p] EXCEPT !.app = app]
    <3>1. loaded'[p].snapshots = loaded[p].snapshots
      BY <1>0, <2>4 DEF ProcType, Manifest
    <3> QED BY <1>3, <2>4, <3>1 DEF Paired
  <2>5. CASE /\ q = p /\ pc[p] = "hash" /\ cmd[p].op = "snapshot" /\ loaded'[p] # loaded[p]
             /\ loaded'[p] = PutSnapshot(loaded[p], cmd[p].name, Files(cmd[p].name))
    <3>1. CapturesOwn(p) /\ loaded[p] \in Manifest /\ cmd[p].name \in Names
      BY <1>0, <1>2, <2>5, CommandFields DEF PairInv, ProcType
    <3>2. Hash(p) /\ loaded' # loaded
      BY <2>5 DEF Work, Exists, Remove, Create, Compile, Load, LaunchIteration, Capture, CaptureRest,
                  VerifyRestore, SaveOpen, SaveWrite, Serve, Check
    <3>3. mem[cmd[p].name] # 0 /\ vmstate[cmd[p].name] # 0
      BY <2>5, <3>2 DEF Hash
    <3>4. Files(cmd[p].name).mem = Files(cmd[p].name).vmstate
      BY <2>5, <3>1, <3>3 DEF CapturesOwn, Files
    <3>5. /\ loaded'[p].snapshots[cmd[p].name] = Files(cmd[p].name)
          /\ \A s \in Names : s # cmd[p].name => loaded'[p].snapshots[s] = loaded[p].snapshots[s]
      BY <2>5, <3>1 DEF PutSnapshot, Manifest
    <3> QED BY <1>3, <2>5, <3>4, <3>5 DEF Paired
  <2> QED BY <2>1, <2>2, <2>3, <2>4, <2>5, HoldsStep DEF HoldsNext
<1>6. \A q \in Procs : cmd[q].op = "snapshot" => CapturesOwn(q)'
  BY <1>2, PairFiles
<1> QED BY <1>4, <1>5, <1>6

(***************************************************************************)
(* inspect --verify compares the files with a manifest that is still the   *)
(* one on the disk, when no writer met it; and its verdict stays true as   *)
(* long as no later command starts.                                        *)
(***************************************************************************)
CheckInv == \A p \in Procs : pc[p] = "check" /\ Lone(id[p]) => Readable /\ loaded[p] = meta

Both(ops) == \E e \in Writers : e.cmd.op \in ops /\ \E f \in MetBy(e) : f.cmd.op \in ops

Sound ==
    /\ app = emptied \/ Both({"build"})
    /\ \A s \in Names : meta.snapshots[s] # NoRecord => mem[s] = vmstate[s] \/ Both({"snapshot"})

Damaged == Hurt \/ \E e \in Writers : MetBy(e) # {}

VerdictInv ==
    \A d \in done : d.id = started /\ Verifies(d.cmd) /\ Lone(d.id) =>
      (d.how = "ok" => Sound) /\ (d.how = "bad" => Damaged)

LEMMA CheckInit == Init => CheckInv /\ VerdictInv
BY DEF Init, CheckInv, VerdictInv

LEMMA CheckStart ==
    ASSUME TypeOK, CheckInv, NEW p \in Procs, Start(p)
    PROVE  CheckInv'
<1>0. pc'[p] \in {"exists", "load"} /\ meta' = meta
  BY StartFrame DEF diskVars
<1> SUFFICES ASSUME NEW q \in Procs, pc'[q] = "check", Lone(id[q])' PROVE Readable /\ loaded'[q] = meta
  BY <1>0 DEF CheckInv, Readable
<1>1. q # p
  BY <1>0
<1>2. pc'[q] = pc[q] /\ id'[q] = id[q] /\ loaded'[q] = loaded[q]
  BY <1>1, StartFrame
<1>3. Lone(id[q])
  <2>1. PICK x : x = id[q]
    OBVIOUS
  <2>2. Lone(x)'
    BY <1>2, <2>1 DEF Lone
  <2> QED BY <2>1, <2>2, LoneStart
<1> QED BY <1>2, <1>3 DEF CheckInv

LEMMA CheckWork ==
    ASSUME TypeOK, PlaceInv, NumberInv, CheckInv, NEW p \in Procs, Work(p), UNCHANGED met
    PROVE  CheckInv'
<1>0. Frame(p) /\ Place(p)
  BY WorkFrame DEF PlaceInv
<1>1. cmd' = cmd /\ id' = id /\ Active(p)
  BY <1>0 DEF Frame, Active
<1> SUFFICES ASSUME NEW q \in Procs, pc'[q] = "check", Lone(id[q])'
             PROVE  (Readable /\ loaded[q] = meta)'
  BY <1>1 DEF CheckInv
<1>2. Lone(id[q]) /\ Active(q)
  BY <1>0, <1>1, LoneWork DEF Frame, Active
<1>3. CASE q # p
  <2>1. UNCHANGED diskVars
    BY <1>1, <1>2, <1>3, LoneNoWriter, ReaderStep
  <2>2. pc[q] = "check" /\ loaded'[q] = loaded[q]
    BY <1>0, <1>3 DEF Frame
  <2> QED BY <1>2, <2>1, <2>2 DEF CheckInv, Readable, diskVars
<1>4. CASE q = p
  <2>1. pc[p] = "load"
    <3>1. \A how \in {"ok", "bad", "cut"} : End(p, how) => pc'[p] = "idle"
      BY EndFrame
    <3>2. \A l \in Labels \ {"idle"} : Goto(p, l) => pc'[p] = l
      BY GotoFrame
    <3> QED BY <1>4, <3>1, <3>2
            DEF Work, Exists, Remove, Create, Compile, Load, LaunchIteration, Recording, Capture, CaptureRest,
                Captured, VerifyRestore, Hash, SaveOpen, SaveWrite, Serve, Check, Cut, Labels
  <2>2. Readable /\ loaded'[p] = meta
    BY <1>4, <2>1, LoadLoads
  <2>3. meta' = meta
    BY <2>1 DEF Work, Exists, Remove, Create, Compile, Load, LaunchIteration, Capture, CaptureRest,
                VerifyRestore, Hash, SaveOpen, SaveWrite, Serve, Check, diskVars
  <2> QED BY <1>4, <2>2, <2>3 DEF Readable
<1> QED BY <1>3, <1>4

LEMMA VerdictStart ==
    ASSUME TypeOK, NumberInv, NEW p \in Procs, Start(p)
    PROVE  VerdictInv'
<1>1. done' = done /\ started' = started + 1
  BY StartFrame
<1>2. \A d \in done : d.id \in 1 .. started
  BY DEF NumberInv, DoneNumbers
<1>3. started \in Nat
  BY StoreAssumption DEF TypeOK, Version, StoreAssumption
<1> QED BY <1>1, <1>2, <1>3 DEF VerdictInv

\* What is said of the commands that ended and met stays true.
LEMMA BothStay ==
    ASSUME NEW p \in Procs, Frame(p), emptied' = emptied
    PROVE  /\ \A ops : Both(ops) => Both(ops)'
           /\ Damaged => Damaged'
<1>1. done \subseteq done' /\ Writers \subseteq Writers' /\ met' = met
  BY DEF Frame, Writers
<1>2. \A e : MetBy(e) \subseteq MetBy(e)'
  BY <1>1 DEF MetBy
<1>3. Hurt => Hurt'
  BY <1>1 DEF Hurt
<1> QED BY <1>1, <1>2, <1>3 DEF Both, Damaged

\* The verdict at the moment it is given.
LEMMA Verdict ==
    ASSUME TypeOK, PlaceInv, NumberInv, RecordsInv, BuiltInv, PairInv, CheckInv,
           NEW p \in Procs, pc[p] = "check", Lone(id[p])
    PROVE  /\ Matches(loaded[p]) => Sound
           /\ ~Matches(loaded[p]) => Damaged
<1>0. cmd[p].op = "inspect" /\ Active(p)
  BY DEF PlaceInv, Place, Active
<1>1. \A q \in Procs : Active(q) => ~Writes(cmd[q])
  BY <1>0, LoneNoWriter DEF Writes
<1>2. Readable /\ loaded[p] = meta
  BY DEF CheckInv
<1>3. ASSUME Matches(loaded[p]) PROVE Sound
  <2>1. meta.app = app /\ \A s \in Names : meta.snapshots[s] # NoRecord => meta.snapshots[s] = Files(s)
    BY <1>2, <1>3 DEF Matches
  <2>2. ASSUME Peace({"build"}) PROVE app = emptied
    BY <1>2, <2>1, <2>2 DEF BuiltInv
  <2>3. ASSUME Peace({"snapshot"}), NEW s \in Names, meta.snapshots[s] # NoRecord PROVE mem[s] = vmstate[s]
    <3>1. meta.snapshots[s] = Files(s)
      BY <2>1, <2>3
    <3>2. meta.snapshots[s].mem = meta.snapshots[s].vmstate
      BY <1>2, <2>3 DEF PairInv, Paired
    <3> QED BY <3>1, <3>2 DEF Files
  <2>4. \A ops : Peace(ops) \/ Both(ops)
    BY <1>1, ClashEnded DEF Both
  <2> QED BY <2>2, <2>3, <2>4 DEF Sound
<1>4. ASSUME ~Matches(loaded[p]) PROVE Damaged
  <2>1. CASE Peace(AllOps) /\ ~Hurt
    <3>1. Bound(p)
      BY <1>0 DEF Bound
    <3>2. Agrees(p)
      BY <2>1, <3>1 DEF RecordsInv, RecordsHold
    <3> QED BY <1>0, <1>4, <3>2 DEF Agrees, InProgress, Matches
  <2>2. CASE ~Peace(AllOps)
    BY <1>1, <2>2, ClashEnded DEF Damaged
  <2> QED BY <2>1, <2>2 DEF Damaged
<1> QED BY <1>3, <1>4

LEMMA VerdictWork ==
    ASSUME TypeOK, PlaceInv, NumberInv, RecordsInv, BuiltInv, PairInv, CheckInv, VerdictInv,
           NEW p \in Procs, Work(p), UNCHANGED met
    PROVE  VerdictInv'
<1>0. Frame(p)
  BY WorkFrame
<1>1. cmd' = cmd /\ id' = id /\ started' = started /\ Active(p)
  BY <1>0 DEF Frame, Active
<1> SUFFICES ASSUME NEW d \in done', d.id = started, Verifies(d.cmd), Lone(d.id)'
             PROVE  (d.how = "ok" => Sound') /\ (d.how = "bad" => Damaged')
  BY <1>1 DEF VerdictInv
<1>2. Lone(d.id) /\ d.cmd.op = "inspect"
  BY <1>0, LoneWork DEF Verifies
<1>3. CASE d \in done
  <2>1. ~Writes(cmd[p])
    <3> SUFFICES ASSUME Writes(cmd[p]) PROVE FALSE
      OBVIOUS
    <3>1. id[p] > d.id
      BY <1>1, <1>2, <1>3, LoneLater
    <3>2. id[p] \in 1 .. started
      BY <1>1 DEF NumberInv, RunningNumbers
    <3>3. started \in Nat
      BY StoreAssumption DEF TypeOK, Version, StoreAssumption
    <3> QED BY <3>1, <3>2, <3>3
  <2>2. UNCHANGED <<diskVars, emptied>>
    BY <2>1, ReaderStep
  <2>3. (d.how = "ok" => Sound) /\ (d.how = "bad" => Damaged)
    BY <1>2, <1>3 DEF VerdictInv
  <2> QED BY <1>0, <2>2, <2>3, BothStay DEF Sound, diskVars
<1>4. CASE d \notin done
  <2>1. d.id = id[p] /\ d.cmd = cmd[p]
    BY <1>0, <1>4 DEF Frame, EndRecord
  <2>2. UNCHANGED <<diskVars, emptied>>
    BY <1>2, <2>1, ReaderStep DEF Writes
  <2>3. PICK how \in {"ok", "bad", "cut"} : done' = done \cup {EndRecord(p, how)}
    BY <1>0, <1>4 DEF Frame
  <2>4. d = EndRecord(p, how)
    BY <1>4, <2>3
  <2>5. CASE Check(p)
    <3>1. pc[p] = "check" /\ Lone(id[p])
      BY <1>2, <2>1, <2>5 DEF Check
    <3>2. (Matches(loaded[p]) => Sound) /\ (~Matches(loaded[p]) => Damaged)
      BY <3>1, Verdict
    <3>3. d.how = "ok" => Matches(loaded[p])
      BY <1>4, <2>1, <2>5, EndFrame DEF Check, Cut, End
    <3>4. d.how = "bad" => ~Matches(loaded[p])
      BY <1>4, <2>5, EndFrame DEF Check, Cut, End
    <3> QED BY <1>0, <2>2, <3>2, <3>3, <3>4, BothStay DEF Sound, diskVars
  <2>6. CASE ~Check(p)
    <3>1. Load(p)
      <4>1. Place(p) /\ cmd[p].op = "inspect"
        BY <1>2, <2>1 DEF PlaceInv
      <4>2. pc[p] \notin Building /\ pc[p] \notin Capturing /\ pc[p] \notin Saving
            /\ pc[p] \notin {"launch", "serve", "hash"}
        BY <4>1 DEF Place, Writes
      <4> QED BY <2>6, <4>2
              DEF Work, Exists, Remove, Create, Compile, LaunchIteration, Capture, CaptureRest, VerifyRestore,
                  Hash, SaveOpen, SaveWrite, Serve, Building, Capturing, Saving
    <3>2. Cut(p)
      <4>1. \A l \in Labels \ {"idle"} : Goto(p, l) => done' = done
        BY GotoFrame
      <4> QED BY <1>4, <3>1, <4>1 DEF Load, Labels
    <3>3. d.how = "cut"
      BY <1>4, <3>2 DEF Cut, End
    <3> QED BY <3>3
  <2> QED BY <2>5, <2>6
<1> QED BY <1>3, <1>4

\* No build succeeds without having made the directory.
MadeInv ==
    emptied = 0 =>
      /\ \A q \in Procs : cmd[q].op = "build" => pc[q] \in {"idle", "exists", "remove", "create"}
      /\ \A d \in done : d.cmd.op = "build" => d.how # "ok"

LEMMA MadeInit == Init => MadeInv
BY DEF Init, MadeInv

LEMMA MadeStart == ASSUME TypeOK, MadeInv, NEW p \in Procs, Start(p) PROVE MadeInv'
BY StartFrame DEF MadeInv

LEMMA MadeWork ==
    ASSUME TypeOK, PlaceInv, NumberInv, MadeInv, NEW p \in Procs, Work(p), UNCHANGED met
    PROVE  MadeInv'
<1>0. Frame(p)
  BY WorkFrame
<1> SUFFICES ASSUME emptied' = 0 PROVE MadeInv'
  BY DEF MadeInv
<1>1. emptied = 0
  <2>1. id[p] \in 1 .. started
    BY <1>0 DEF Frame, Active, NumberInv, RunningNumbers
  <2> QED BY <1>0, <2>1 DEF Frame
<1>3. CASE cmd[p].op # "build"
  BY <1>0, <1>1, <1>3 DEF Frame, MadeInv, EndRecord
<1>4. CASE cmd[p].op = "build"
  <2>1. Exists(p) \/ Remove(p) \/ Create(p)
    BY <1>0, <1>1, <1>4
       DEF Frame, MadeInv, Work, Compile, Load, LaunchIteration, Capture, CaptureRest, VerifyRestore,
           Hash, SaveOpen, SaveWrite, Serve, Check
  <2>2. \/ pc'[p] \in {"remove", "create"} /\ done' = done
        \/ pc'[p] = "idle" /\ done' = done \cup {EndRecord(p, "cut")}
    <3>1. \A l \in Labels \ {"idle"} : Goto(p, l) => pc'[p] = l /\ done' = done
      BY GotoFrame
    <3>2. Cut(p) => pc'[p] = "idle" /\ done' = done \cup {EndRecord(p, "cut")}
      BY EndFrame DEF Cut
    <3>3. Create(p) => Cut(p)
      <4>1. id[p] # 0
        BY <1>0, StoreAssumption DEF Frame, Active, NumberInv, RunningNumbers
      <4> QED BY <4>1 DEF Create
    <3> QED BY <2>1, <3>1, <3>2, <3>3 DEF Exists, Remove, Labels
  <2> QED BY <1>0, <1>1, <1>4, <2>2 DEF Frame, MadeInv, EndRecord
<1> QED BY <1>3, <1>4

-----------------------------------------------------------------------------
(***************************************************************************)
(* The inductive invariant.                                                *)
(***************************************************************************)
StoreInv ==
    /\ TypeOK /\ PlaceInv /\ NumberInv /\ EmptiedBy /\ DonePlaces
    /\ OwnInv /\ KeptInv
    /\ ReportsInv
    /\ SaverInv /\ LostInv
    /\ BlankInv /\ RecordsInv /\ RestoredInv
    /\ BuiltInv /\ PairInv /\ CheckInv /\ VerdictInv /\ MadeInv

LEMMA StoreInit == Init => StoreInv
BY TypeInit, PlaceInit, NumberInit, OwnInit, ReportsInit, LostInit, BlankInit, RecordsInit, RestoredInit,
   BuiltInit, PairInit, CheckInit, MadeInit DEF StoreInv

LEMMA StoreStart == ASSUME StoreInv, NEW p \in Procs, Start(p) PROVE StoreInv'
<1> USE DEF StoreInv
<1>1. (TypeOK /\ PlaceInv /\ NumberInv /\ EmptiedBy)'
  BY StartType, PlaceStart, NumberStart, EmptiedStart
<1>2. DonePlaces'
  BY StartFrame DEF DonePlaces
<1>3. (OwnInv /\ KeptInv /\ ReportsInv)'
  BY OwnStart, KeptStart, ReportsStart
<1>4. (SaverInv /\ LostInv)'
  BY LostStart
<1>5. (BlankInv /\ RecordsInv /\ RestoredInv)'
  BY BlankStart, RecordsStart, RestoredStart
<1>6. (BuiltInv /\ PairInv /\ CheckInv /\ VerdictInv /\ MadeInv)'
  BY BuiltStart, PairStart, CheckStart, VerdictStart, MadeStart
<1> QED BY <1>1, <1>2, <1>3, <1>4, <1>5, <1>6

LEMMA StoreWork == ASSUME StoreInv, NEW p \in Procs, Work(p), UNCHANGED met PROVE StoreInv'
<1> USE DEF StoreInv
<1>0. Frame(p)
  BY WorkFrame
<1>1. (TypeOK /\ PlaceInv /\ NumberInv /\ EmptiedBy /\ DonePlaces)'
  BY <1>0, WorkType, PlaceWork, NumberWork, EmptiedWork, DonePlacesWork
<1>2. (OwnInv /\ KeptInv /\ ReportsInv)'
  BY KeptWork, ReportsWork
<1>3. (SaverInv /\ LostInv)'
  BY SaverWork, LostWork
<1>4. (BlankInv /\ RecordsInv /\ RestoredInv)'
  BY BlankWork, RecordsWork, RestoredWork
<1>5. (BuiltInv /\ PairInv /\ CheckInv /\ VerdictInv /\ MadeInv)'
  BY BuiltWork, PairWork, CheckWork, VerdictWork, MadeWork
<1> QED BY <1>1, <1>2, <1>3, <1>4, <1>5

\* A step that changes nothing.
LEMMA StoreStays == ASSUME StoreInv, UNCHANGED vars PROVE StoreInv'
<1> USE DEF StoreInv, vars, diskVars, procVars
<1>1. (TypeOK /\ PlaceInv /\ NumberInv /\ EmptiedBy /\ DonePlaces)'
  <2>1. TypeOK'
    BY DEF TypeOK
  <2>2. PlaceInv'
    BY DEF PlaceInv, Place
  <2>3. NumberInv'
    BY DEF NumberInv, RunningNumbers, DoneNumbers, MetNumbers, Active
  <2>4. EmptiedBy' /\ DonePlaces'
    BY DEF EmptiedBy, Emptier, DonePlaces
  <2> QED BY <2>1, <2>2, <2>3, <2>4
<1>2. Writers' = Writers /\ (Readable' <=> Readable) /\ (\A q \in Procs : Active(q)' <=> Active(q))
  BY DEF Writers, Readable, Active
<1>3. \A x : Lone(x)' <=> Lone(x)
  BY <1>2 DEF Lone
<1>4. \A ops : Peace(ops)' <=> Peace(ops)
  BY <1>2 DEF Peace, LoneIn
<1>5. /\ \A s : Captures(s)' = Captures(s)
      /\ \A e : MetBy(e)' = MetBy(e)
      /\ \A q : Holds(q)' <=> Holds(q)
      /\ Hurt' <=> Hurt
      /\ \A s : Files(s)' = Files(s)
  BY <1>2 DEF Captures, Since, MetBy, Holds, Hurt, Files
<1>6. OwnInv'
  BY <1>3 DEF OwnInv, Undisturbed, Active
<1>7. KeptInv'
  <2>1. \A x, c : Superseded(x, c)' <=> Superseded(x, c)
    BY <1>5 DEF Superseded
  <2>2. \A d : Held(d)' <=> Held(d)
    BY <1>3, <2>1 DEF Held
  <2>3. \A d : Keeps(d)' <=> Keeps(d)
    BY <1>2, <1>5 DEF Keeps
  <2> QED BY <2>2, <2>3 DEF KeptInv
<1>8. ReportsInv'
  <2>1. Runs' = Runs
    BY DEF Runs, Since, Active
  <2>2. \A q : Empties(q)' <=> Empties(q)
    BY <1>3 DEF Empties, Active
  <2>3. Lone(emptied)' <=> Lone(emptied)
    BY <1>2 DEF Lone
  <2> QED BY <1>2, <1>5, <2>1, <2>2, <2>3 DEF ReportsInv
<1>9. (SaverInv /\ LostInv)'
  <2>1. \A x : (Pen(x)' <=> Pen(x)) /\ (Touch(x)' <=> Touch(x))
    BY <1>2 DEF Pen, Touch
  <2>2. \A q : Whole(q)' <=> Whole(q)
    BY DEF Whole
  <2>3. (Risk' <=> Risk) /\ (Brawl' <=> Brawl)
    BY <2>1, <2>2 DEF Risk, Brawl
  <2>4. SaverInv'
    BY <2>1, <2>2 DEF SaverInv
  <2>5. LostInv'
    BY <1>2, <2>1, <2>2, <2>3 DEF LostInv, BuiltWell
  <2> QED BY <2>4, <2>5
<1>10. BlankInv'
  BY <1>4 DEF BlankInv, Zero, Making, Active
<1>11. RecordsInv'
  <2>1. \A q : Bound(q)' <=> Bound(q)
    BY <1>3 DEF Bound, Lone
  <2>2. \A q : Agrees(q)' <=> Agrees(q)
    BY <1>5 DEF Agrees, InProgress
  <2>3. \A s : Midway(s)' <=> Midway(s)
    BY DEF Midway
  <2>4. RecordsHold' <=> RecordsHold
    BY <1>2, <1>5, <2>1, <2>2, <2>3 DEF RecordsHold
  <2> QED BY <1>4, <1>5, <2>4 DEF RecordsInv
<1>12. RestoredInv'
  <2>1. \A q : Fair(q)' <=> Fair(q)
    BY <1>2, <1>5 DEF Fair
  <2> QED BY <2>1 DEF RestoredInv
<1>13. BuiltInv' /\ PairInv'
  BY <1>2, <1>4 DEF BuiltInv, PairInv, Paired, CapturesOwn, Active
<1>14. CheckInv'
  BY <1>2, <1>3 DEF CheckInv, Lone
<1>15. VerdictInv' /\ MadeInv'
  <2>1. \A ops : Both(ops)' <=> Both(ops)
    BY <1>2, <1>5 DEF Both
  <2>2. (Sound' <=> Sound) /\ (Damaged' <=> Damaged)
    BY <1>2, <1>5, <2>1 DEF Sound, Damaged
  <2> QED BY <1>3, <2>2 DEF VerdictInv, MadeInv
<1> QED BY <1>1, <1>6, <1>7, <1>8, <1>9, <1>10, <1>11, <1>12, <1>13, <1>14, <1>15

LEMMA StoreStep == StoreInv /\ [Next]_vars => StoreInv'
<1> SUFFICES ASSUME StoreInv, [Next]_vars PROVE StoreInv'
  OBVIOUS
<1>1. ASSUME NEW p \in Procs, Step(p) PROVE StoreInv'
  BY <1>1, StoreStart, StoreWork DEF Step
<1>2. CASE UNCHANGED vars
  BY <1>2, StoreStays
<1>3. CASE AllDone
  BY <1>3, StoreStays DEF AllDone
<1> QED BY <1>1, <1>2, <1>3 DEF Next

\* StoreInv holds of the store whatever the processes, names, commands and bounds: in
\* particular what is said in it of the commands that are still running.
THEOREM StoreInvariance == Spec => []StoreInv
BY StoreInit, StoreStep, PTL DEF Spec

-----------------------------------------------------------------------------
(***************************************************************************)
(* The properties.  Most are about a store on which nothing runs: there    *)
(* Lone is to have met no writer that ended.                               *)
(***************************************************************************)
LEMMA QuietLone == ASSUME Quiet, NEW d, MetBy(d) = {} PROVE Lone(d.id)
BY DEF Quiet, Lone, Active, MetBy

LEMMA QuietEmptied ==
    ASSUME StoreInv, Quiet, ~Lone(emptied)
    PROVE  \E d \in Writers : d.id = emptied /\ MetBy(d) # {}
<1>1. emptied # 0
  <2>1. ASSUME NEW y, {0, y} \in met PROVE FALSE
    BY <2>1 DEF StoreInv, NumberInv, MetNumbers
  <2> QED BY <2>1 DEF Lone
<1>2. PICK d \in done : d.cmd.op = "build" /\ d.id = emptied
  BY <1>1 DEF StoreInv, EmptiedBy, Emptier, Quiet
<1>3. d \in Writers
  BY <1>2 DEF Writers, Writes
<1> QED BY <1>2, <1>3, QuietLone

LEMMA QuietTouch ==
    ASSUME Quiet, NEW x, Touch(x)
    PROVE  \E d \in Writers : d.id = x /\ (Saved(d) \/ Reckless(d))
BY DEF Quiet, Touch, Pen, Reckless

LEMMA ReportsFollow == StoreInv => ReportsAreRuns
<1> SUFFICES ASSUME StoreInv, Quiet, Readable
             PROVE  /\ \A d \in Since("run") : d.how = "ok" /\ d.cmd.record /\ MetBy(d) = {}
                                                 => d.id \in meta.benchmarks
                    /\ meta.benchmarks \subseteq {d.id : d \in Since("run")}
                         \/ \E d \in Writers : d.id = emptied /\ MetBy(d) # {}
  BY DEF ReportsAreRuns
<1>1. ASSUME NEW d \in Since("run"), d.how = "ok", d.cmd.record, MetBy(d) = {} PROVE d.id \in meta.benchmarks
  <2>1. d \in done /\ d.cmd.op = "run" /\ d.id > emptied /\ Writes(d.cmd)
    BY <1>1 DEF Since, Writes
  <2>2. Held(d)
    BY <1>1, <2>1, QuietLone DEF Held, Superseded
  <2> QED BY <2>1, <2>2 DEF StoreInv, KeptInv, Keeps, Effect
<1>2. ASSUME Lone(emptied) PROVE meta.benchmarks \subseteq {d.id : d \in Since("run")}
  <2>1. Runs = {d.id : d \in Since("run")}
    BY DEF Runs, Quiet, Active
  <2> QED BY <1>2, <2>1 DEF StoreInv, ReportsInv
<1> QED BY <1>1, <1>2, QuietEmptied

LEMMA SnapshotsFollow == StoreInv => SnapshotsAsRecorded
<1> SUFFICES ASSUME StoreInv, Quiet, Readable, NEW s \in Names, NEW d \in Captures(s),
                    d.how = "ok", \A e \in Captures(s) : e.id <= d.id, MetBy(d) = {}
             PROVE  meta.snapshots[s] = Own(d.id)
  BY DEF SnapshotsAsRecorded, Own
<1>1. d \in done /\ d.cmd.op = "snapshot" /\ d.cmd.name = s /\ d.id > emptied /\ Writes(d.cmd)
  BY DEF Captures, Since, Writes
<1>2. \A e \in Captures(s) : ~(e.id > d.id)
  <2>1. \A e \in done : e.id \in Nat
    BY DEF StoreInv, NumberInv, DoneNumbers
  <2> QED BY <1>1, <2>1 DEF Captures, Since
<1>3. Held(d)
  BY <1>1, <1>2, QuietLone DEF Held, Superseded, Quiet
<1> QED BY <1>1, <1>3 DEF StoreInv, KeptInv, Keeps, Effect

LEMMA RestoresFollow == StoreInv => RestoresWhatIsRecorded
<1> SUFFICES ASSUME StoreInv, NEW p \in Procs, cmd[p].op = "run", restored[p] # NoRecord,
                    restored[p] # loaded[p].snapshots[cmd[p].from]
             PROVE  \/ \E d \in done : d.how = "cut" /\ d.at # "load" /\ d.cmd.op \in {"snapshot", "build"}
                    \/ \E e \in Writers : MetBy(e) # {} \/ {e.id, id[p]} \in met
                    \/ \E q \in Procs : Writes(cmd[q]) /\ {id[q], id[p]} \in met
  BY DEF RestoresWhatIsRecorded
<1>1. ~Fair(p)
  BY DEF StoreInv, RestoredInv
<1> QED BY <1>1 DEF Fair

LEMMA ManifestFollows == StoreInv => ManifestLostOnlyAsKnown
<1> SUFFICES ASSUME StoreInv, Quiet, NEW a \in done, a.cmd.op = "build", a.how = "ok", ~Readable
             PROVE  \/ \E d \in done : d.cmd.op = "build" /\ d.id = emptied /\ d.how # "ok"
                    \/ \E d \in done : d.id > emptied /\ Reckless(d)
                    \/ \E d \in Writers : \E e \in MetBy(d) : \A w \in {d, e} : Saved(w) \/ Reckless(w)
  BY DEF ManifestLostOnlyAsKnown
<1>1. PICK b \in done : b.cmd.op = "build" /\ b.id = emptied
  <2>1. emptied # 0
    BY DEF StoreInv, MadeInv
  <2> QED BY <2>1 DEF StoreInv, EmptiedBy, Emptier, Quiet
<1>2. CASE b.how # "ok"
  BY <1>1, <1>2
<1>3. CASE b.how = "ok"
  <2>1. Risk \/ Brawl
    BY <1>1, <1>3 DEF StoreInv, LostInv, BuiltWell
  <2>2. CASE Risk
    BY <2>2 DEF Risk, Quiet
  <2>3. CASE Brawl
    <3>1. PICK x, y \in Version : Touch(x) /\ Touch(y) /\ {x, y} \in met
      BY <2>3 DEF Brawl
    <3>2. PICK d \in Writers : d.id = x /\ (Saved(d) \/ Reckless(d))
      BY <3>1, QuietTouch
    <3>3. PICK e \in Writers : e.id = y /\ (Saved(e) \/ Reckless(e))
      BY <3>1, QuietTouch
    <3>4. e \in MetBy(d)
      BY <3>1, <3>2, <3>3 DEF MetBy
    <3> QED BY <3>2, <3>3, <3>4
  <2> QED BY <2>1, <2>2, <2>3
<1> QED BY <1>2, <1>3

LEMMA VerdictFollows == StoreInv => InspectVerdict
<1> SUFFICES ASSUME StoreInv, Quiet, NEW d \in done, d.id = started, Verifies(d.cmd), MetBy(d) = {}
             PROVE  /\ d.how = "ok" => Sound
                    /\ d.how = "bad" =>
                         \/ \E e \in done : /\ e.id > emptied /\ e.how = "cut"
                                            /\ \/ e.at = "remove"
                                               \/ e.cmd.op = "snapshot" /\ e \in Captures(e.cmd.name)
                         \/ \E e \in Writers : MetBy(e) # {}
  BY DEF InspectVerdict, Sound, Both
<1>1. (d.how = "ok" => Sound) /\ (d.how = "bad" => Damaged)
  BY QuietLone DEF StoreInv, VerdictInv
<1> QED BY <1>1 DEF Damaged, Hurt, Captures, Since

\* Every variable of the store stays in its type: in particular no command's number, and
\* no manifest, leaves the sets the bounds give.
THEOREM StoreTypeCorrect == Spec => []TypeOK
<1>1. StoreInv => TypeOK
  BY DEF StoreInv
<1> QED BY <1>1, StoreInvariance, PTL

\* The benchmark reports of the artifact are those of its runs: none that succeeded is
\* lost and none is left from before build --force, but for writers that met.
THEOREM ReportsKept == Spec => []ReportsAreRuns
BY StoreInvariance, ReportsFollow, PTL

\* The latest successful snapshot of a name is recorded with both the files it wrote,
\* unless it met another writer.
THEOREM SnapshotsKept == Spec => []SnapshotsAsRecorded
BY StoreInvariance, SnapshotsFollow, PTL

\* run restores its VM from the files its manifest records, although it never compares
\* the two, unless a snapshot or build was cut or commands met of which one writes.
THEOREM RestoresRecorded == Spec => []RestoresWhatIsRecorded
BY StoreInvariance, RestoresFollow, PTL

\* Once a build has succeeded the artifact stays readable, but for a build --force that
\* removed it and failed, a save, removal or creation that was cut, or two writers that met.
THEOREM ManifestKept == Spec => []ManifestLostOnlyAsKnown
BY StoreInvariance, ManifestFollows, PTL

\* What inspect --verify accepts is one build's output with whole snapshots, and what it
\* rejects was damaged, when it met no writer.
THEOREM VerdictIsTrue == Spec => []InspectVerdict
BY StoreInvariance, VerdictFollows, PTL
================================================================================
