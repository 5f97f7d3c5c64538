-------------------------------- MODULE FvmInit --------------------------------
(***************************************************************************)
(* PID 1 of the guest, which is src/src/bin/fvm-init.rs or the application *)
(* itself, the application, the signals that reach PID 1, and the serial   *)
(* console both write to.                                                  *)
(*                                                                         *)
(* The console is a sequence of finished lines and the unfinished one; a   *)
(* line is the sequence of the pieces written, each by one write(2): a     *)
(* natural number for its digits, Key, NewLine, or another negative number *)
(* for other text.                                                         *)
(* fvm-init does nothing about the orphans the kernel gives to PID 1, so   *)
(* they have no state here.                                                *)
(***************************************************************************)
EXTENDS Rootfs, FiniteSets

CONSTANTS
    Codes,          \* exit codes of the application
    HonoursTerm,    \* whether the application stops on SIGTERM
    AppPieces,      \* what the application may write, numbers among it
    RssValues,      \* what VmRSS may say
    MaxAppWrites,   \* bound: writes of the application
    MaxRss          \* bound: measurements that are due

ASSUME InitAssumption ==
    /\ Codes \subseteq 0 .. 255
    /\ HonoursTerm \in BOOLEAN
    /\ AppPieces \subseteq Int /\ RssValues \subseteq Nat
    /\ MaxAppWrites \in Nat /\ MaxRss \in Nat

Signalled == 128        \* fvm-init's code for an application killed by a signal
Running   == 999        \* no exit code yet
Key       == -1         \* the piece FVM_GUEST_RSS_KIB=
NewLine   == -2
MountPoints == {"/proc", "/sys", "/dev", "/tmp"}
Root      == [uid |-> 0, gid |-> 0]

VARIABLES
    artifact,   \* what the guest is booted from
    pc,         \* what fvm-init does next; "replaced": PID 1 is the application
    config,     \* what fvm-init read from its file
    proc,       \* whether /proc is mounted
    TERMINATE,  \* the static that the signal handler sets
    asked,      \* history: a SIGTERM or SIGINT reached PID 1's handler
    app,        \* the application process
    cred,       \* its user and group
    told,       \* whether it has received SIGTERM
    status,     \* how it ended: Running, a code, or Signalled
    exit,       \* the exit code of fvm-init
    broke,      \* history: the kernel refused fvm-init a read, a fork or a wait
    serial,     \* the finished lines of the console
    line,       \* the unfinished one
    rss,        \* the values fvm-init has measured, oldest first
    writes,     \* how many pieces the application has written
    vm          \* "off", "up", "paused" or "gone"

console == <<serial, line, rss, writes>>
appVars == <<app, cred, told, status>>
vars    == <<artifact, pc, config, proc, TERMINATE, asked, appVars, exit, broke,
             console, vm>>

Loop     == {"term", "wait", "due", "key", "value", "end", "sleep"}
Unreaped == {"running", "zombie"}
Up(at)   == pc = at /\ vm = "up"

InitGuest ==
    /\ pc = "off" /\ config = Unset /\ proc = FALSE
    /\ TERMINATE = FALSE /\ asked = FALSE
    /\ app = "none" /\ cred = Root /\ told = FALSE /\ status = Running
    /\ exit = Running /\ broke = FALSE
    /\ serial = <<>> /\ line = <<>> /\ rss = <<>> /\ writes = 0
    /\ vm = "off"

-----------------------------------------------------------------------------
(* Start.                                                                  *)

Exit(code) == pc' = "exited" /\ exit' = code

CanStart  == artifact.needs \subseteq artifact.files
InitStarts == IF artifact.init_path = "/app" THEN CanStart
                                             ELSE artifact.init_needs \subseteq artifact.files

\* The kernel panics when PID 1 does not start.  init=/app makes the application
\* PID 1, with nothing mounted and as root.
Boot ==
    /\ vm = "off" /\ artifact.bootable /\ vm' = "up"
    /\ \/ ~InitStarts /\ pc' = "exited" /\ UNCHANGED app
       \/ InitStarts /\ artifact.init_path = "/app" /\ pc' = "replaced" /\ app' = "running"
       \/ InitStarts /\ artifact.init_path # "/app" /\ pc' = "handlers" /\ UNCHANGED app
    /\ UNCHANGED <<artifact, config, proc, TERMINATE, asked, cred, told, status, exit, broke,
                   console>>

InstallHandlers ==
    /\ Up("handlers")
    /\ pc' = "mount"
    /\ UNCHANGED <<artifact, config, proc, TERMINATE, asked, appVars, exit, broke, console, vm>>

\* The directories first, which cannot be made if they are not in the image: the
\* root is read only.  Then /proc, /sys, /dev and /tmp, one after the other up to
\* the first that fails, which is only a warning: a kernel may lack any of them.
MountFilesystems ==
    /\ Up("mount")
    /\ proc' \in (IF MountPoints \subseteq artifact.files THEN BOOLEAN ELSE {FALSE})
    /\ pc' = "config"
    /\ UNCHANGED <<artifact, config, TERMINATE, asked, appVars, exit, broke, console, vm>>

Breaks(code) == Exit(code) /\ broke' = TRUE

ReadConfig ==
    /\ Up("config")
    /\ \/ /\ config' = ReadConfigFile(artifact.conf)
          /\ IF config'.exec = NoExec THEN Exit(126)
             ELSE pc' = config'.mode /\ UNCHANGED exit
          /\ UNCHANGED broke
       \/ Breaks(126) /\ UNCHANGED config
    /\ UNCHANGED <<artifact, proc, TERMINATE, asked, appVars, console, vm>>

\* Mutant: the user first, which leaves no right to change the group.
DroppedUserFirst ==
    LET gid == IF config.gid = None THEN 0 ELSE config.gid
        uid == IF config.uid = None THEN 0 ELSE config.uid
    IN  IF uid # 0 /\ gid # 0 THEN {} ELSE {[uid |-> uid, gid |-> gid]}

\* pre_exec: setgid, then setuid, as root, which may set any; {} had one failed.
Dropped ==
    LET gid == IF config.gid = None THEN 0 ELSE config.gid
        uid == IF config.uid = None THEN 0 ELSE config.uid
    IN  {[uid |-> uid, gid |-> gid]}

\* exec, or fork and exec, of the configured program.
Starts(next) ==
    /\ CanStart /\ config.exec \in artifact.files
    /\ cred' \in Dropped
    /\ app' = "running" /\ pc' = next /\ UNCHANGED <<exit, broke>>

StartFails ==
    /\ \/ ~(CanStart /\ config.exec \in artifact.files /\ Dropped # {})
          /\ Exit(127) /\ UNCHANGED broke
       \/ Breaks(127)
    /\ UNCHANGED <<app, cred>>

\* exec replaces the process: its memory, and with it TERMINATE, is gone, and
\* the handlers are reset.
Exec ==
    /\ Up("exec")
    /\ \/ Starts("replaced") /\ TERMINATE' = FALSE
       \/ StartFails /\ UNCHANGED TERMINATE
    /\ UNCHANGED <<artifact, config, proc, asked, told, status, console, vm>>

\* Mutant: the flag starts afresh with the child.
SpawnAfresh ==
    /\ Up("monitor")
    /\ \/ Starts("term") /\ TERMINATE' = FALSE
       \/ StartFails /\ UNCHANGED TERMINATE
    /\ UNCHANGED <<artifact, config, proc, asked, told, status, console, vm>>

Spawn ==
    /\ Up("monitor")
    /\ Starts("term") \/ StartFails
    /\ UNCHANGED <<artifact, config, proc, TERMINATE, asked, told, status, console, vm>>

-----------------------------------------------------------------------------
(* The monitor loop.                                                       *)

\* Sent on every tick for as long as the child is not reaped; a signal to a
\* zombie does nothing.
Forward ==
    /\ Up("term")
    /\ pc' = "wait"
    /\ told' = (told \/ (TERMINATE /\ app = "running"))
    /\ UNCHANGED <<artifact, config, proc, TERMINATE, asked, app, cred, status, exit, broke, console, vm>>

\* Mutants: the child's end is noted and the loop goes on; a signalled child
\* reported as a success.
ChildEndedGoesOn  == app' = "reaped" /\ pc' = "due" /\ UNCHANGED exit
ChildEndedOrZero  == app' = "reaped" /\ Exit(IF status = Signalled THEN 0 ELSE status)

ChildEnded == app' = "reaped" /\ Exit(status)

\* try_wait waits for this child and for no other.
Wait ==
    /\ Up("wait")
    /\ \/ app \in {"zombie", "reaped"} /\ ChildEnded /\ UNCHANGED broke
       \/ app = "running" /\ pc' = "due" /\ UNCHANGED <<app, exit, broke>>
       \/ Breaks(125) /\ UNCHANGED app
    /\ UNCHANGED <<artifact, config, proc, TERMINATE, asked, cred, told, status, console, vm>>

\* The first tick is always due, a later one when the interval has passed.
\* /proc/<pid>/status says VmRSS only of a live process, and only with /proc.
Measure ==
    /\ Up("due")
    /\ \/ /\ proc /\ app = "running" /\ Len(rss) < MaxRss
          /\ \E r \in RssValues : rss' = Append(rss, r)
          /\ pc' = "key"
       \/ /\ rss # <<>> \/ ~proc \/ app # "running" \/ MaxRss = 0
          /\ pc' = "sleep" /\ UNCHANGED rss
    /\ UNCHANGED <<artifact, config, proc, TERMINATE, asked, appVars, exit, broke, serial, line, writes, vm>>

\* A piece ends up in the line whoever wrote the pieces before it.
Written(piece) ==
    IF piece = NewLine THEN serial' = Append(serial, line) /\ line' = <<>>
                       ELSE line' = Append(line, piece) /\ UNCHANGED serial

\* Mutant: eprint!, which does not end the line.
PrintRssUnended ==
    /\ vm = "up"
    /\ \/ pc = "key" /\ Written(Key) /\ pc' = "value"
       \/ pc = "value" /\ Written(rss[Len(rss)]) /\ pc' = "sleep"
    /\ UNCHANGED <<artifact, config, proc, TERMINATE, asked, appVars, exit, broke, rss, writes, vm>>

\* eprintln! writes the key, the number and the end of the line one by one.
PrintRss ==
    /\ vm = "up"
    /\ \/ pc = "key" /\ Written(Key) /\ pc' = "value"
       \/ pc = "value" /\ Written(rss[Len(rss)]) /\ pc' = "end"
       \/ pc = "end" /\ Written(NewLine) /\ pc' = "sleep"
    /\ UNCHANGED <<artifact, config, proc, TERMINATE, asked, appVars, exit, broke, rss, writes, vm>>

Sleep ==
    /\ Up("sleep")
    /\ pc' = "term"
    /\ UNCHANGED <<artifact, config, proc, TERMINATE, asked, appVars, exit, broke, console, vm>>

-----------------------------------------------------------------------------
(* The rest of the guest.                                                  *)

\* A signal to PID 1.  The kernel drops one for which init has no handler:
\* before the handlers are there, and when PID 1 is the application unless it
\* has installed its own, which is then the application's affair.
Signal ==
    /\ vm = "up" /\ pc \notin {"handlers", "replaced", "exited"}
    /\ TERMINATE' = TRUE /\ asked' = TRUE
    /\ UNCHANGED <<artifact, pc, config, proc, appVars, exit, broke, console, vm>>

AppWrites ==
    /\ vm = "up" /\ app = "running" /\ writes < MaxAppWrites
    /\ \E piece \in AppPieces : Written(piece)
    /\ writes' = writes + 1
    /\ UNCHANGED <<artifact, pc, config, proc, TERMINATE, asked, appVars, exit, broke, rss, vm>>

\* The end of the application.  As PID 1 its end is the end of the guest.
AppEnds(how) ==
    /\ vm = "up" /\ app = "running"
    /\ status' = how
    /\ IF pc = "replaced" THEN app' = "reaped" /\ Exit(how)
                          ELSE app' = "zombie" /\ UNCHANGED <<pc, exit>>
    /\ UNCHANGED <<artifact, config, proc, TERMINATE, asked, cred, told, broke, console, vm>>

AppLeaves == \E how \in Codes \cup {Signalled} : AppEnds(how)

AppObeys == told /\ HonoursTerm /\ AppLeaves

\* panic=1 reboot=k: the kernel panics when PID 1 exits, and Firecracker ends.
Panic ==
    /\ Up("exited") /\ vm' = "gone"
    /\ UNCHANGED <<artifact, pc, config, proc, TERMINATE, asked, appVars, exit, broke, console>>

InitProcess ==
    \/ InstallHandlers \/ MountFilesystems \/ ReadConfig \/ Exec \/ Spawn
    \/ Forward \/ Wait \/ Measure \/ PrintRss \/ Sleep

Guest == Boot \/ InitProcess \/ Signal \/ AppWrites \/ AppLeaves \/ Panic
================================================================================
