---------------------------- MODULE ArtifactStore ----------------------------
(***************************************************************************)
(* One artifact directory and the fvm commands that read and write it:     *)
(* build, run, snapshot and inspect of src/src/cli.rs over the manifest    *)
(* and the file records of src/src/artifact.rs.                            *)
(*                                                                         *)
(* A file's content is the number of the command that wrote it, 0 when the *)
(* file is missing, so two contents have the same hash iff they are equal. *)
(* Kernel, rootfs, binary and Firecracker config are written by one build  *)
(* and by nothing else: they are one file, `app`.  What happens to the VM  *)
(* of a run or snapshot is VmLifecycle's; here it succeeds or fails.       *)
(***************************************************************************)
EXTENDS Naturals, FiniteSets

CONSTANTS
    Procs,          \* fvm processes
    Names,          \* snapshot names
    Commands,       \* the commands they may be given
    MaxCommands,    \* bound: commands started in a behaviour
    MaxMeetings,    \* bound: pairs of commands that run at the same time
    NoName

Command ==
    [op : {"build"}, force : BOOLEAN]
      \cup [op : {"run"}, from : Names \cup {NoName}, iterations : Nat \ {0},
            once : BOOLEAN, record : BOOLEAN]
      \cup [op : {"snapshot"}, name : Names, verify : BOOLEAN]
      \cup [op : {"inspect"}, verify : BOOLEAN, json : BOOLEAN]

ASSUME StoreAssumption ==
    /\ Commands \subseteq Command
    /\ MaxCommands \in Nat /\ MaxMeetings \in Nat
    /\ NoName \notin Names

Version == 0 .. MaxCommands

\* metadata.json: the hashes of the built files, of the two files of each
\* snapshot, and the benchmark reports, each named by the run that wrote it.
Record   == [mem : Version, vmstate : Version]
NoRecord == [mem |-> 0, vmstate |-> 0]
Manifest == [app : Version, snapshots : [Names -> Record], benchmarks : SUBSET Version]
Blank    == [app |-> 0, snapshots |-> [s \in Names |-> NoRecord], benchmarks |-> {}]

\* Not a manifest: no file, a file just truncated, half a text or two texts.
Absent     == [text |-> "absent"]
Empty      == [text |-> "empty"]
Corrupt    == [text |-> "corrupt"]
Unreadable == {Absent, Empty, Corrupt}

VARIABLES
    meta,       \* metadata.json
    inode,      \* which metadata.json it is: build --force starts a new one
    dir,        \* whether the artifact directory exists
    app,        \* the built files
    mem,        \* mem[s], vmstate[s]: the files of snapshot s
    vmstate,
    started,    \* commands started so far, the number of the latest
    pc,         \* pc[p]: what process p does next
    cmd,        \* its command
    id,         \* the number of its command
    loaded,     \* the manifest it read at the start and has modified since
    fd,         \* the inode it has opened for writing
    measured,   \* iterations measured
    restored,   \* the pair of snapshot files its VM was restored from
    done,       \* history: the commands that ended, how and where
    emptied,    \* history: the command that last made the directory anew
    met         \* history: the pairs of commands that were running at the same time

diskVars == <<meta, inode, dir, app, mem, vmstate>>
procVars == <<cmd, id, loaded, fd, measured, restored>>
vars     == <<diskVars, started, pc, procVars, done, emptied, met>>

Labels == {"idle", "exists", "remove", "create", "compile", "load", "launch", "serve", "capture",
           "capture_mem", "capture_vmstate", "verify_restore", "hash", "check",
           "save_open", "save_write"}

Init ==
    /\ meta = Absent /\ inode = 0 /\ dir = FALSE /\ app = 0
    /\ mem = [s \in Names |-> 0] /\ vmstate = [s \in Names |-> 0]
    /\ started = 0
    /\ pc = [p \in Procs |-> "idle"]
    /\ cmd = [p \in Procs |-> [op |-> "inspect", verify |-> FALSE, json |-> FALSE]]
    /\ id = [p \in Procs |-> 0]
    /\ loaded = [p \in Procs |-> Blank]
    /\ fd = [p \in Procs |-> 0]
    /\ measured = [p \in Procs |-> 0]
    /\ restored = [p \in Procs |-> NoRecord]
    /\ done = {}
    /\ emptied = 0
    /\ met = {}

-----------------------------------------------------------------------------
Goto(p, l) == pc' = [pc EXCEPT ![p] = l] /\ UNCHANGED done

End(p, how) ==
    /\ pc' = [pc EXCEPT ![p] = "idle"]
    /\ done' = done \cup {[id |-> id[p], cmd |-> cmd[p], how |-> how, at |-> pc[p]]}

\* An error, or a signal, of which fvm handles none.
Cut(p) == End(p, "cut")

Files(s) == [mem |-> mem[s], vmstate |-> vmstate[s]]

Start(p) ==
    /\ pc[p] = "idle"
    /\ started < MaxCommands
    /\ started' = started + 1
    /\ id' = [id EXCEPT ![p] = started + 1]
    /\ \E c \in Commands :
         /\ cmd' = [cmd EXCEPT ![p] = c]
         /\ Goto(p, IF c.op = "build" THEN "exists" ELSE "load")
    /\ loaded' = [loaded EXCEPT ![p] = Blank]
    /\ measured' = [measured EXCEPT ![p] = 0]
    /\ restored' = [restored EXCEPT ![p] = NoRecord]
    /\ met' = met \cup {{started + 1, id[q]} : q \in {r \in Procs : pc[r] # "idle"}}
    /\ Cardinality(met') <= MaxMeetings
    /\ UNCHANGED <<diskVars, fd, emptied>>

\* prepare_artifact_dir looks before anything else is known about the JAR.
Exists(p) ==
    /\ pc[p] = "exists"
    /\ \/ dir /\ cmd[p].force /\ Goto(p, "remove")
       \/ ~dir /\ Goto(p, "create")
       \/ Cut(p)
    /\ UNCHANGED <<diskVars, started, procVars, emptied>>

Gone(f) == {[s \in Names |-> IF s \in gone THEN 0 ELSE f[s]] : gone \in SUBSET Names}

\* remove_dir_all takes one file after another and may stop half way.
Remove(p) ==
    /\ pc[p] = "remove"
    /\ \/ /\ meta' = Absent /\ app' = 0 /\ dir' = FALSE
          /\ mem' = [s \in Names |-> 0] /\ vmstate' = [s \in Names |-> 0]
          /\ Goto(p, "create")
       \/ /\ meta' \in {meta, Absent} /\ app' \in {app, 0}
          /\ mem' \in Gone(mem) /\ vmstate' \in Gone(vmstate)
          /\ Cut(p) /\ UNCHANGED dir
    /\ UNCHANGED <<inode, started, procVars, emptied>>

\* create_dir_all takes a directory made in the meantime as it is.
Create(p) ==
    /\ pc[p] = "create"
    /\ \/ dir' = TRUE /\ emptied' = id[p] /\ Goto(p, "compile")
       \/ Cut(p) /\ UNCHANGED <<dir, emptied>>
    /\ UNCHANGED <<meta, inode, app, mem, vmstate, started, procVars>>

\* Analysis, toolchain checks, compiler, kernel, rootfs, Firecracker config.
Compile(p) ==
    /\ pc[p] = "compile"
    /\ \/ app' = id[p] /\ Goto(p, "hash")
       \/ app' \in {app, id[p]} /\ Cut(p)
    /\ UNCHANGED <<meta, inode, dir, mem, vmstate, started, procVars, emptied>>

\* ArtifactManifest::load, then what each command checks of the manifest alone.
Load(p) ==
    /\ pc[p] = "load"
    /\ \/ /\ meta \notin Unreadable
          /\ cmd[p].op = "run" /\ cmd[p].from # NoName
                => meta.snapshots[cmd[p].from] # NoRecord
          /\ loaded' = [loaded EXCEPT ![p] = meta]
          /\ Goto(p, CASE cmd[p].op = "run" -> "launch"
                       [] cmd[p].op = "snapshot" -> "capture"
                       [] OTHER -> "check")
       \/ Cut(p) /\ UNCHANGED loaded
    /\ UNCHANGED <<diskVars, started, cmd, id, fd, measured, restored, emptied>>

\* Mutants: a report that replaces the earlier ones; one filed under another run.
FileReportAlone(p) == loaded' = [loaded EXCEPT ![p].benchmarks = {id[p]}]
FileReportNext(p) == loaded' = [loaded EXCEPT ![p].benchmarks = @ \cup {id[p] + 1}]

FileReport(p) == loaded' = [loaded EXCEPT ![p].benchmarks = @ \cup {id[p]}]

\* After the last iteration: record_benchmark, unless it is switched off.
Recording(p) ==
    IF cmd[p].record THEN Goto(p, "save_open") /\ FileReport(p)
    ELSE /\ IF cmd[p].once \/ cmd[p].iterations > 1 THEN End(p, "ok") ELSE Goto(p, "serve")
         /\ UNCHANGED loaded

\* One iteration of run: launch, readiness, metrics, and the shutdown when the
\* run does not serve.  Any failure ends the command.
LaunchIteration(p) ==
    /\ pc[p] = "launch"
    /\ restored' = IF cmd[p].from = NoName THEN restored
                   ELSE [restored EXCEPT ![p] = Files(cmd[p].from)]
    /\ \/ /\ app # 0
          /\ measured' = [measured EXCEPT ![p] = @ + 1]
          /\ IF measured[p] + 1 < cmd[p].iterations
             THEN Goto(p, "launch") /\ UNCHANGED loaded
             ELSE Recording(p)
       \/ Cut(p) /\ UNCHANGED <<measured, loaded>>
    /\ UNCHANGED <<diskVars, started, cmd, id, fd, emptied>>

\* snapshot: the VM boots and pauses, then both files are written over those of
\* an earlier snapshot of the same name, in one order or the other.
Capture(p) ==
    /\ pc[p] = "capture"
    /\ dir' = TRUE
    /\ \/ app # 0 /\ vmstate' = [vmstate EXCEPT ![cmd[p].name] = id[p]]
          /\ Goto(p, "capture_mem") /\ UNCHANGED mem
       \/ app # 0 /\ mem' = [mem EXCEPT ![cmd[p].name] = id[p]]
          /\ Goto(p, "capture_vmstate") /\ UNCHANGED vmstate
       \/ Cut(p) /\ UNCHANGED <<mem, vmstate>>
    /\ UNCHANGED <<meta, inode, app, started, procVars, emptied>>

Captured(p) == Goto(p, IF cmd[p].verify THEN "verify_restore" ELSE "hash")

CaptureRest(p) ==
    /\ \/ pc[p] = "capture_mem" /\ mem' = [mem EXCEPT ![cmd[p].name] = id[p]]
          /\ Captured(p) /\ UNCHANGED vmstate
       \/ pc[p] = "capture_vmstate" /\ vmstate' = [vmstate EXCEPT ![cmd[p].name] = id[p]]
          /\ Captured(p) /\ UNCHANGED mem
       \/ pc[p] \in {"capture_mem", "capture_vmstate"} /\ Cut(p)
          /\ UNCHANGED <<mem, vmstate>>
    /\ UNCHANGED <<meta, inode, dir, app, started, procVars, emptied>>

\* --verify-restore: a second VM, restored from the files just written.
VerifyRestore(p) ==
    /\ pc[p] = "verify_restore"
    /\ restored' = [restored EXCEPT ![p] = Files(cmd[p].name)]
    /\ Goto(p, "hash") \/ Cut(p)
    /\ UNCHANGED <<diskVars, started, cmd, id, loaded, fd, measured, emptied>>

\* Mutant: the record of an earlier snapshot of that name is not removed first,
\* so a lookup by name still finds it.
PutSnapshotLast(m, s, r) ==
    IF m.snapshots[s] # NoRecord THEN m ELSE [m EXCEPT !.snapshots[s] = r]

PutSnapshot(m, s, r) == [m EXCEPT !.snapshots[s] = r]

\* record_file: build hashes what it built, snapshot its two files, each into
\* the manifest it holds.
Hash(p) ==
    /\ pc[p] = "hash"
    /\ \/ /\ cmd[p].op = "build" /\ app # 0
          /\ loaded' = [loaded EXCEPT ![p].app = app]
          /\ Goto(p, "save_open")
       \/ /\ cmd[p].op = "snapshot" /\ mem[cmd[p].name] # 0 /\ vmstate[cmd[p].name] # 0
          /\ loaded' = [loaded EXCEPT ![p] = PutSnapshot(@, cmd[p].name, Files(cmd[p].name))]
          /\ Goto(p, "save_open")
       \/ Cut(p) /\ UNCHANGED loaded
    /\ UNCHANGED <<diskVars, started, cmd, id, fd, measured, restored, emptied>>

\* Mutant: the file is opened before the manifest is serialised, which may fail.
SaveOpenEarly(p) ==
    /\ pc[p] = "save_open"
    /\ \/ /\ dir' = TRUE
          /\ inode' = IF meta = Absent THEN inode + 1 ELSE inode
          /\ meta' = Empty
          /\ fd' = [fd EXCEPT ![p] = inode']
          /\ Goto(p, "save_write")
       \/ Cut(p) /\ meta' = Empty /\ UNCHANGED <<dir, inode, fd>>
    /\ UNCHANGED <<app, mem, vmstate, started, cmd, id, loaded, measured, restored, emptied>>

\* ArtifactManifest::save is std::fs::write: open and truncate, then write.
SaveOpen(p) ==
    /\ pc[p] = "save_open"
    /\ \/ /\ dir' = TRUE
          /\ inode' = IF meta = Absent THEN inode + 1 ELSE inode
          /\ meta' = Empty
          /\ fd' = [fd EXCEPT ![p] = inode']
          /\ Goto(p, "save_write")
       \/ Cut(p) /\ UNCHANGED <<dir, inode, meta, fd>>
    /\ UNCHANGED <<app, mem, vmstate, started, cmd, id, loaded, measured, restored, emptied>>

\* The write starts at offset 0: over another writer's text the longer of the
\* two leaves a tail behind the shorter.  It may fail half way.  A run that
\* serves has recorded its report before it waits for its VM.
SaveWrite(p) ==
    /\ pc[p] = "save_write"
    /\ \/ /\ IF meta = Absent \/ fd[p] # inode THEN UNCHANGED meta
             ELSE meta' \in (IF meta = Empty THEN {loaded[p]} ELSE {loaded[p], Corrupt})
          /\ IF cmd[p].op = "run" /\ ~cmd[p].once /\ cmd[p].iterations = 1
             THEN Goto(p, "serve") ELSE End(p, "ok")
       \/ /\ IF meta = Absent \/ fd[p] # inode THEN UNCHANGED meta
             ELSE meta' \in {meta, Corrupt}
          /\ Cut(p)
    /\ UNCHANGED <<inode, dir, app, mem, vmstate, started, procVars, emptied>>

\* vm.wait: it is an error when Firecracker's exit status is not success.
Serve(p) ==
    /\ pc[p] = "serve"
    /\ End(p, "ok") \/ Cut(p)
    /\ UNCHANGED <<diskVars, started, procVars, emptied>>

\* Mutant: verify_files leaves the snapshots out.
MatchesBuilt(m) == m.app = app

Matches(m) ==
    /\ m.app = app
    /\ \A s \in Names : m.snapshots[s] # NoRecord => m.snapshots[s] = Files(s)

\* The manifest as JSON comes first: with --json nothing is verified.
Verifies(c) == c.op = "inspect" /\ c.verify /\ ~c.json

\* inspect --verify: verify_files, then the first record that does not match.
Check(p) ==
    /\ pc[p] = "check"
    /\ \/ (Verifies(cmd[p]) => Matches(loaded[p])) /\ End(p, "ok")
       \/ Verifies(cmd[p]) /\ ~Matches(loaded[p]) /\ End(p, "bad")
       \/ Cut(p)
    /\ UNCHANGED <<diskVars, started, procVars, emptied>>

AllDone == started = MaxCommands /\ (\A p \in Procs : pc[p] = "idle") /\ UNCHANGED vars

Work(p) ==
    \/ Exists(p) \/ Remove(p) \/ Create(p) \/ Compile(p) \/ Load(p)
    \/ LaunchIteration(p) \/ Capture(p) \/ CaptureRest(p) \/ VerifyRestore(p) \/ Hash(p) \/ SaveOpen(p)
    \/ SaveWrite(p) \/ Serve(p) \/ Check(p)

Step(p) == Start(p) \/ (Work(p) /\ UNCHANGED met)

Next == (\E p \in Procs : Step(p)) \/ AllDone

Spec == Init /\ [][Next]_vars

-----------------------------------------------------------------------------
(***************************************************************************)
(* Properties.  No command takes a lock: two that overlap may undo each    *)
(* other's work, and each property says which two must have met for it to  *)
(* fail.                                                                   *)
(***************************************************************************)

\* Every variable stays in its type.
TypeOK ==
    /\ meta \in Manifest \cup Unreadable
    /\ inode \in Nat /\ dir \in BOOLEAN /\ app \in Version
    /\ mem \in [Names -> Version] /\ vmstate \in [Names -> Version]
    /\ started \in Version
    /\ pc \in [Procs -> Labels]
    /\ cmd \in [Procs -> Command]
    /\ id \in [Procs -> Version]
    /\ loaded \in [Procs -> Manifest]
    /\ fd \in [Procs -> Nat]
    /\ measured \in [Procs -> Nat]
    /\ restored \in [Procs -> Record]
    /\ done \subseteq [id : Version, cmd : Command, how : {"ok", "bad", "cut"}, at : Labels]
    /\ emptied \in Version
    /\ met \subseteq SUBSET Version

Quiet     == \A p \in Procs : pc[p] = "idle"
Readable  == meta \notin Unreadable
Since(op) == {d \in done : d.cmd.op = op /\ d.id > emptied}

\* Commands that write to the artifact, and those a command met.
Writes(c) == c.op \in {"build", "snapshot"} \/ (c.op = "run" /\ c.record)
Writers  == {d \in done : Writes(d.cmd)}
MetBy(d) == {e \in Writers : {d.id, e.id} \in met}

\* Snapshot commands named s that got as far as writing a file of s.
Captures(s) == {d \in Since("snapshot") : d.cmd.name = s /\ d.at \notin {"load", "capture"}}

\* The benchmark reports of an artifact are those of its runs.  None that succeeded is
\* lost, unless to another writer it met, which saves the manifest it read before; none is
\* left from before build --force, unless a run that met the build brought it back.
ReportsAreRuns ==
    Quiet /\ Readable =>
      /\ \A d \in Since("run") : d.how = "ok" /\ d.cmd.record /\ MetBy(d) = {}
                                   => d.id \in meta.benchmarks
      /\ meta.benchmarks \subseteq {d.id : d \in Since("run")}
           \/ \E d \in Writers : d.id = emptied /\ MetBy(d) # {}

\* A snapshot whose latest capture succeeded is recorded, and both its files are the ones
\* that command wrote and hashed, unless it met another writer: a command that only reads,
\* or a run that records nothing, is never the cause.
SnapshotsAsRecorded ==
    Quiet /\ Readable =>
      \A s \in Names : \A d \in Captures(s) :
         d.how = "ok" /\ (\A e \in Captures(s) : e.id <= d.id) /\ MetBy(d) = {}
           => meta.snapshots[s] = [mem |-> d.id, vmstate |-> d.id]

\* run never compares the files it restores a VM from with their record.  They are the
\* recorded ones all the same, unless a snapshot or a build was cut, or two commands met
\* of which one at least writes: this run and another, or two before it.
RestoresWhatIsRecorded ==
    \A p \in Procs :
      cmd[p].op = "run" /\ restored[p] # NoRecord =>
        \/ restored[p] = loaded[p].snapshots[cmd[p].from]
        \/ \E d \in done : d.how = "cut" /\ d.at # "load" /\ d.cmd.op \in {"snapshot", "build"}
        \/ \E e \in Writers : MetBy(e) # {} \/ {e.id, id[p]} \in met
        \/ \E q \in Procs : Writes(cmd[q]) /\ {id[q], id[p]} \in met

\* A writer that saved the manifest, and a command that was cut with the manifest truncated or the directory half removed.
Saved(d) == d.how = "ok" \/ d.at = "serve"
Reckless(d) == d.how = "cut" /\ d.at \in {"save_write", "remove", "create"}

\* Once a build has succeeded the artifact stays readable, but for what the code risks:
\* a later `build --force` that removed it and then failed, in analysis, toolchain or
\* compiler, which are asked only then; a save, a removal or a creation that was cut; or
\* two writers that met and each came to its end or to a save or a removal.  No run,
\* snapshot or inspect that fails anywhere else costs the artifact.
ManifestLostOnlyAsKnown ==
    Quiet /\ (\E d \in done : d.cmd.op = "build" /\ d.how = "ok") =>
      \/ Readable
      \/ \E d \in done : d.cmd.op = "build" /\ d.id = emptied /\ d.how # "ok"
      \/ \E d \in done : d.id > emptied /\ Reckless(d)
      \/ \E d \in Writers : \E e \in MetBy(d) : \A w \in {d, e} : Saved(w) \/ Reckless(w)

\* The verdict of inspect --verify, without --json, when it met no writer.  What it accepts is one build's
\* output and snapshots whose two files are one command's, unless two commands that wrote
\* them met; what it rejects was damaged by a command that did not end well, or by two
\* that met.
InspectVerdict ==
    Quiet =>
      \A d \in done : d.id = started /\ Verifies(d.cmd) /\ MetBy(d) = {} =>
        LET both(ops) == \E e \in Writers : e.cmd.op \in ops /\ \E f \in MetBy(e) : f.cmd.op \in ops IN
        /\ d.how = "ok" =>
             /\ app = emptied \/ both({"build"})
             /\ \A s \in Names : meta.snapshots[s] # NoRecord =>
                  mem[s] = vmstate[s] \/ both({"snapshot"})
        /\ d.how = "bad" =>
             \/ \E e \in done : /\ e.id > emptied /\ e.how = "cut"
                                /\ \/ e.at = "remove"
                                   \/ e.cmd.op = "snapshot" /\ e \in Captures(e.cmd.name)
             \/ \E e \in Writers : MetBy(e) # {}
=============================================================================
