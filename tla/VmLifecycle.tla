---------------------------- MODULE VmLifecycle ----------------------------
(***************************************************************************)
(* What one `fvm run` or `fvm snapshot` command does to the host, for any  *)
(* number of commands running on the same host at the same time:           *)
(* launch_vm, the RunningVm it returns, and every way out of both          *)
(* (src/src/firecracker.rs, driven by run and snapshot of                  *)
(* src/src/cli.rs).  One label per call that reaches the host; every call  *)
(* that returns Result has a failing outcome, after which the locals are   *)
(* dropped in Rust's order: the reverse of their declaration in launch_vm, *)
(* Drop::drop and then the fields in order for RunningVm.                  *)
(*                                                                         *)
(* External, modelled from how the code uses it: the kernel's TAP devices, *)
(* routes and listening sockets, and the Firecracker process.              *)
(***************************************************************************)
EXTENDS Naturals, Sequences

CONSTANTS
    Procs,        \* the fvm processes
    HostPorts,    \* host ports a mapping may name
    TapNames,     \* interface names
    NamesOf,      \* NamesOf[p]: the names p's pid and clock can produce
    Plans,        \* the commands a process may be started with
    UseCgroups,   \* whether the manifest carries cgroup settings
    Interrupts,   \* whether a signal may end an fvm process
    NoProc, NoTap

Kinds == {"cold", "restore", "dry"}

\* What the command does with a VM that answered: `run --once` and benchmark
\* iterations stop it, a plain `run` waits for it, `snapshot` captures it first.
Ends == {"stop", "serve", "snapshot"}

\* A dry run always stops after readiness.
Launch == {l \in [kind : Kinds, end : Ends] : l.kind = "dry" => l.end # "serve"}
Plan == [ports : SUBSET HostPorts, launches : Seq(Launch)]

ASSUME ConstantsAssumption ==
    /\ Plans \subseteq {pl \in Plan : pl.launches # <<>>}
    /\ NamesOf \in [Procs -> SUBSET TapNames]
    /\ UseCgroups \in BOOLEAN
    /\ Interrupts \in BOOLEAN
    /\ NoProc \notin Procs
    /\ NoTap \notin TapNames

\* Names are pid % 1000 followed by milliseconds % 100000: on one host two
\* commands rarely agree on one, and nothing in fvm copes if they do.
ASSUME NamesAssumption ==
    \A p, q \in Procs : p # q => NamesOf[p] \cap NamesOf[q] = {}

VARIABLES
    plan,       \* the command line of each process, fixed at the start
    at,         \* index of the launch it is in
    pc,         \* the call it is about to make
    name,       \* tap_name of the launch's NetworkHandle, NoTap without one
    failedAt,   \* the call whose error is being propagated, or that a signal
                \* cut short; "none" if none
    reached,    \* whose guest answered the readiness probe of this launch
    owner,      \* owner[n]: the process that created TAP n, NoProc if absent
    link,       \* "down", "addressed" (still down) or "up"
    older,      \* older[n]: TAPs whose route was in place when n came up
    undeleted,  \* TAPs still there because their last `ip tuntap del` failed
    listener,   \* listener[h]: the process listening on host port h
    fc,         \* state of the Firecracker child of the process's launch
    runDirs,    \* processes whose temporary run directory exists
    cgroups     \* processes whose child has a vm-<pid> cgroup directory

procVars == <<plan, at, pc, name, failedAt, reached>>
tapVars  == <<owner, link, older, undeleted>>
hostVars == <<tapVars, listener, fc, runDirs, cgroups>>
vars     == <<procVars, hostVars>>

LaunchLabels == {"mkdir", "tap_add", "addr_add", "link_up", "neigh", "bind",
                 "config", "spawn", "api_socket", "snap_load", "cgroup"}
RunLabels    == {"readiness", "probe_read", "record", "serve", "snap_create"}
StopLabels   == {"sd_kill", "sd_down", "sd_del"}
DropLabels   == {"drop_kill", "drop_down", "drop_del", "drop_dir", "drop_fwd"}
UnwindLabels == {"u_fwd", "u_down", "u_del", "u_dir"}
Exits        == {"exit_ok", "exit_err", "killed"}
Labels == LaunchLabels \cup RunLabels \cup StopLabels \cup DropLabels
            \cup UnwindLabels \cup {"finish"} \cup Exits

\* "alive": started, TAP not opened; "attached": holds its TAP, guest booting;
\* "listening": the guest accepts connections; "dead": exited or killed.
FcStates == {"none", "alive", "attached", "listening", "dead"}
Live(p)    == fc[p] \in {"alive", "attached", "listening"}
Holding(p) == fc[p] \in {"attached", "listening"}

Current(p)    == plan[p].launches[at[p]]
Networked(p)  == plan[p].ports # {}

TypeOK ==
    /\ plan \in [Procs -> Plans]
    /\ at \in [Procs -> Nat]
    /\ pc \in [Procs -> Labels]
    /\ name \in [Procs -> TapNames \cup {NoTap}]
    /\ failedAt \in [Procs -> Labels \cup {"none"}]
    /\ reached \in [Procs -> Procs \cup {NoProc}]
    /\ owner \in [TapNames -> Procs \cup {NoProc}]
    /\ link \in [TapNames -> {"down", "addressed", "up"}]
    /\ older \in [TapNames -> SUBSET TapNames]
    /\ undeleted \subseteq TapNames
    /\ listener \in [HostPorts -> Procs \cup {NoProc}]
    /\ fc \in [Procs -> FcStates]
    /\ runDirs \subseteq Procs
    /\ cgroups \subseteq Procs
    /\ \A p \in Procs : at[p] \in DOMAIN plan[p].launches

Init ==
    /\ plan \in [Procs -> Plans]
    /\ at = [p \in Procs |-> 1]
    /\ pc = [p \in Procs |-> "mkdir"]
    /\ name = [p \in Procs |-> NoTap]
    /\ failedAt = [p \in Procs |-> "none"]
    /\ reached = [p \in Procs |-> NoProc]
    /\ owner = [n \in TapNames |-> NoProc]
    /\ link = [n \in TapNames |-> "down"]
    /\ older = [n \in TapNames |-> {}]
    /\ undeleted = {}
    /\ listener = [h \in HostPorts |-> NoProc]
    /\ fc = [p \in Procs |-> "none"]
    /\ runDirs = {}
    /\ cgroups = {}

-----------------------------------------------------------------------------
\* The control of a process: go on, or return Err and drop what is in scope.

Goto(p, l) == pc' = [pc EXCEPT ![p] = l]

Continue(p, l) == Goto(p, l) /\ UNCHANGED failedAt

Fail(p, l) ==
    /\ failedAt' = [failedAt EXCEPT ![p] = pc[p]]
    /\ Goto(p, l)

Present(n) == owner[n] # NoProc
Holder(n)  == \E q \in Procs : name[q] = n /\ Holding(q)
Dry(p)     == Current(p).kind = "dry"

\* launch_vm: the run directory, removed by TempDir when it goes out of scope.
MkRunDir(p) ==
    /\ pc[p] = "mkdir"
    /\ \/ /\ runDirs' = runDirs \cup {p}
          /\ Continue(p, IF Networked(p) THEN "tap_add" ELSE "config")
       \/ Fail(p, "exit_err") /\ UNCHANGED runDirs
    /\ name' = [name EXCEPT ![p] = NoTap]
    /\ reached' = [reached EXCEPT ![p] = NoProc]
    /\ fc' = [fc EXCEPT ![p] = "none"]
    /\ UNCHANGED <<plan, at, tapVars, listener, cgroups>>

\* setup_network of a dry run: a name, and no call to `ip`.
NameTap(p) ==
    /\ pc[p] = "tap_add" /\ Dry(p)
    /\ \E n \in NamesOf[p] : name' = [name EXCEPT ![p] = n]
    /\ Continue(p, "config")
    /\ UNCHANGED <<plan, at, reached, hostVars>>

\* `ip tuntap add`: refused when the name exists.
TapAdd(p) ==
    /\ pc[p] = "tap_add" /\ ~Dry(p)
    /\ \/ \E n \in NamesOf[p] :
            /\ ~Present(n)
            /\ owner' = [owner EXCEPT ![n] = p]
            /\ link' = [link EXCEPT ![n] = "down"]
            /\ name' = [name EXCEPT ![p] = n]
            /\ Continue(p, "addr_add")
       \/ Fail(p, "u_dir") /\ UNCHANGED <<owner, link, name>>
    /\ UNCHANGED <<plan, at, reached, older, undeleted, listener, fc, runDirs, cgroups>>

\* The host side of 172.16.0.0/30.  An error here, and in the two calls after
\* it, leaves setup_network before launch_vm has a NetworkCleanup to drop.
AddrAdd(p) ==
    /\ pc[p] = "addr_add"
    /\ \/ /\ Present(name[p])
          /\ link' = [link EXCEPT ![name[p]] = "addressed"]
          /\ Continue(p, "link_up")
       \/ Fail(p, "u_dir") /\ UNCHANGED link
    /\ UNCHANGED <<plan, at, name, reached, owner, older, undeleted, listener, fc, runDirs, cgroups>>

\* Mutant of LinkUp: the newest route comes first.
LinkUpPrepended(p) ==
    /\ pc[p] = "link_up"
    /\ \/ /\ Present(name[p])
          /\ link' = [link EXCEPT ![name[p]] = "up"]
          /\ older' = [m \in TapNames |-> IF m = name[p] THEN {} ELSE older[m] \cup {name[p]}]
          /\ Continue(p, IF Current(p).kind = "cold" THEN "neigh" ELSE "bind")
       \/ Fail(p, "u_dir") /\ UNCHANGED <<link, older>>
    /\ UNCHANGED <<plan, at, name, reached, owner, undeleted, listener, fc, runDirs, cgroups>>

\* Every TAP carries the same subnet; the kernel appends the new route behind
\* those already there.
LinkUp(p) ==
    /\ pc[p] = "link_up"
    /\ \/ /\ Present(name[p])
          /\ link' = [link EXCEPT ![name[p]] = "up"]
          /\ older' = [older EXCEPT ![name[p]] =
                          {m \in TapNames : link[m] = "up"} \ {name[p]}]
          /\ Continue(p, IF Current(p).kind = "cold" THEN "neigh" ELSE "bind")
       \/ Fail(p, "u_dir") /\ UNCHANGED <<link, older>>
    /\ UNCHANGED <<plan, at, name, reached, owner, undeleted, listener, fc, runDirs, cgroups>>

\* The permanent neighbour entry: only for a cold boot.
Neigh(p) ==
    /\ pc[p] = "neigh"
    /\ \/ Present(name[p]) /\ Continue(p, "bind")
       \/ Fail(p, "u_dir")
    /\ UNCHANGED <<plan, at, name, reached, hostVars>>

Unbound(p) == {h \in plan[p].ports : listener[h] # p}

\* start_port_forwarder for each mapping; from here on an error drops the
\* forwarders, then the NetworkCleanup, then the run directory.
Bind(p) ==
    /\ pc[p] = "bind"
    /\ \/ /\ Unbound(p) = {}
          /\ Continue(p, "config") /\ UNCHANGED listener
       \/ \E h \in Unbound(p) :
            \/ /\ listener[h] = NoProc
               /\ listener' = [listener EXCEPT ![h] = p]
               /\ UNCHANGED <<pc, failedAt>>
            \/ Fail(p, "u_fwd") /\ UNCHANGED listener
    /\ UNCHANGED <<plan, at, name, reached, tapVars, fc, runDirs, cgroups>>

WriteConfig(p) ==
    /\ pc[p] = "config"
    /\ \/ Continue(p, IF Dry(p) THEN "readiness" ELSE "spawn")
       \/ Fail(p, "u_fwd")
    /\ UNCHANGED <<plan, at, name, reached, hostVars>>

Spawn(p) ==
    /\ pc[p] = "spawn"
    /\ \/ /\ fc' = [fc EXCEPT ![p] = "alive"]
          /\ Continue(p, IF Current(p).kind = "restore" THEN "api_socket" ELSE "cgroup")
       \/ Fail(p, "u_fwd") /\ UNCHANGED fc
    /\ UNCHANGED <<plan, at, name, reached, tapVars, listener, runDirs, cgroups>>

\* Mutant of ApiSocket: no deadline.
ApiSocketNoDeadline(p) ==
    /\ pc[p] = "api_socket"
    /\ Live(p) /\ Continue(p, "snap_load")
    /\ UNCHANGED <<plan, at, name, reached, hostVars>>

\* launch_restored_vm after the spawn: five seconds for the socket to appear,
\* then PUT /snapshot/load.  Dropping a Child does not kill it.
ApiSocket(p) ==
    /\ pc[p] = "api_socket"
    /\ Continue(p, "snap_load") \/ Fail(p, "u_fwd")
    /\ UNCHANGED <<plan, at, name, reached, hostVars>>

SnapLoad(p) ==
    /\ pc[p] = "snap_load"
    /\ \/ Holding(p) /\ Continue(p, "cgroup")
       \/ Fail(p, "u_fwd")
    /\ UNCHANGED <<plan, at, name, reached, hostVars>>

\* Mutant of ApplyCgroups: launch_vm returns with the NetworkCleanup armed.
ApplyCgroupsStillArmed(p) ==
    /\ pc[p] = "cgroup"
    /\ \/ /\ Continue(p, "readiness")
          /\ owner' = [n \in TapNames |->
                          IF n = name[p] /\ ~Holder(n) THEN NoProc ELSE owner[n]]
       \/ UseCgroups /\ Fail(p, "u_fwd") /\ UNCHANGED owner
    /\ UNCHANGED <<plan, at, name, reached, link, older, undeleted, listener, fc, runDirs, cgroups>>

\* apply_cgroups: the directory first, then the settings and cgroup.procs; on
\* success launch_vm disarms the NetworkCleanup and returns the RunningVm.
ApplyCgroups(p) ==
    /\ pc[p] = "cgroup"
    /\ \/ /\ Continue(p, "readiness")
          /\ cgroups' = IF UseCgroups THEN cgroups \cup {p} ELSE cgroups
       \/ /\ UseCgroups
          /\ Fail(p, "u_fwd")
          /\ cgroups' \in {cgroups, cgroups \cup {p}}
    /\ UNCHANGED <<plan, at, name, reached, tapVars, listener, fc, runDirs>>

-----------------------------------------------------------------------------
\* run and snapshot with the RunningVm in hand: an error drops it.

\* Every guest has the address 172.16.0.2, and the oldest route leads to it.
GuestRoute == {n \in TapNames : link[n] = "up" /\ older[n] = {}}
Answering  == {q \in Procs : name[q] \in GuestRoute /\ fc[q] = "listening"}

AfterReady(p) == CASE Current(p).end = "snapshot" -> "snap_create"
                   [] Current(p).end = "serve"    -> "record"
                   [] OTHER -> IF Dry(p) THEN "drop_dir" ELSE "sd_kill"

\* wait_for_readiness: at once for a dry run or a manifest without readiness; otherwise
\* an HTTP probe of the guest until an answer is 2xx, an attempt breaks off, or the time
\* is over.  An attempt after which another is made leaves no trace: this is the last one.
Readiness(p) ==
    /\ pc[p] = "readiness"
    /\ \/ Continue(p, AfterReady(p)) /\ UNCHANGED reached
       \/ /\ ~Dry(p) /\ Networked(p)
          /\ \E q \in Answering : reached' = [reached EXCEPT ![p] = q]
          /\ Continue(p, "probe_read")
       \/ ~Dry(p) /\ Fail(p, "drop_kill") /\ UNCHANGED reached
    /\ UNCHANGED <<plan, at, name, hostVars>>

\* read_http_status_response of that attempt: until the first line ends, the connection
\* does, or nothing comes for 250 ms.
ProbeRead(p) ==
    /\ pc[p] = "probe_read"
    /\ \/ Continue(p, AfterReady(p)) /\ UNCHANGED reached
       \/ Fail(p, "drop_kill") /\ reached' = [reached EXCEPT ![p] = NoProc]
    /\ UNCHANGED <<plan, at, name, hostVars>>

\* record_benchmark rewrites the manifest before the command settles to wait.
RecordBenchmark(p) ==
    /\ pc[p] = "record"
    /\ Continue(p, "serve") \/ Fail(p, "drop_kill")
    /\ UNCHANGED <<plan, at, name, reached, hostVars>>

\* Mutant of Serve: the command ends without dropping its RunningVm.
ServeThenExit(p) ==
    /\ pc[p] = "serve" /\ ~Live(p)
    /\ Continue(p, "exit_ok") \/ Fail(p, "drop_kill")
    /\ UNCHANGED <<plan, at, name, reached, hostVars>>

\* RunningVm::wait: an error unless Firecracker exits with status 0.
Serve(p) ==
    /\ pc[p] = "serve" /\ ~Live(p)
    /\ Continue(p, "drop_kill") \/ Fail(p, "drop_kill")
    /\ UNCHANGED <<plan, at, name, reached, hostVars>>

\* RunningVm::create_snapshot; a dry run writes placeholders.
CreateSnapshot(p) ==
    /\ pc[p] = "snap_create"
    /\ \/ Live(p) /\ Continue(p, "sd_kill")
       \/ Dry(p) /\ Continue(p, "drop_dir")
       \/ Fail(p, IF Dry(p) THEN "drop_dir" ELSE "drop_kill")
    /\ UNCHANGED <<plan, at, name, reached, hostVars>>

-----------------------------------------------------------------------------
\* Giving the host back.  shutdown kills the child and removes the TAP, and so
\* does the Drop of the same RunningVm right after it; both ignore errors.

After == [sd_kill |-> "sd_down", sd_down |-> "sd_del", sd_del |-> "drop_kill",
          drop_kill |-> "drop_down", drop_down |-> "drop_del", drop_del |-> "drop_dir",
          u_down |-> "u_del", u_del |-> "u_dir"]

\* Mutant of Kill: only shutdown kills the child, Drop leaves it to the OS.
KillInShutdownOnly(p) ==
    /\ pc[p] \in {"sd_kill", "drop_kill"}
    /\ fc' = IF Live(p) /\ pc[p] = "sd_kill" THEN [fc EXCEPT ![p] = "dead"] ELSE fc
    /\ Continue(p, After[pc[p]])
    /\ UNCHANGED <<plan, at, name, reached, tapVars, listener, runDirs, cgroups>>

Kill(p) ==
    /\ pc[p] \in {"sd_kill", "drop_kill"}
    /\ fc' = IF Live(p) THEN [fc EXCEPT ![p] = "dead"] ELSE fc
    /\ Continue(p, After[pc[p]])
    /\ UNCHANGED <<plan, at, name, reached, tapVars, listener, runDirs, cgroups>>

\* cleanup_tap, `ip link set down`: the route goes with it.  The result is dropped.
TapDown(p) ==
    /\ pc[p] \in {"sd_down", "drop_down", "u_down"}
    /\ \/ LET n == name[p] IN
          /\ n \in TapNames /\ link[n] = "up"
          /\ link' = [link EXCEPT ![n] = "addressed"]
          /\ older' = [m \in TapNames |-> IF m = n THEN {} ELSE older[m] \ {n}]
       \/ UNCHANGED <<link, older>>
    /\ Continue(p, After[pc[p]])
    /\ UNCHANGED <<plan, at, name, reached, owner, undeleted, listener, fc, runDirs, cgroups>>

\* cleanup_tap, `ip tuntap del`: refused while a Firecracker holds the device, and it
\* may fail for reasons of its own.  The result is dropped.
TapDel(p) ==
    /\ pc[p] \in {"sd_del", "drop_del", "u_del"}
    /\ LET n == name[p] IN
         \/ /\ n \in TapNames /\ ~Holder(n)
            /\ owner' = [owner EXCEPT ![n] = NoProc]
            /\ link' = [link EXCEPT ![n] = "down"]
            /\ older' = [m \in TapNames |-> IF m = n THEN {} ELSE older[m] \ {n}]
            /\ undeleted' = undeleted \ {n}
         \/ /\ n \in TapNames /\ Present(n)
            /\ undeleted' = undeleted \cup {n}
            /\ UNCHANGED <<owner, link, older>>
         \/ n \notin TapNames /\ UNCHANGED tapVars
    /\ Continue(p, After[pc[p]])
    /\ UNCHANGED <<plan, at, name, reached, listener, fc, runDirs, cgroups>>

RemoveRunDir(p) ==
    /\ pc[p] \in {"drop_dir", "u_dir"}
    /\ runDirs' = runDirs \ {p}
    /\ Continue(p, IF pc[p] = "u_dir" THEN "exit_err" ELSE "drop_fwd")
    /\ UNCHANGED <<plan, at, name, reached, tapVars, listener, fc, cgroups>>

Released(p) == [h \in HostPorts |-> IF listener[h] = p THEN NoProc ELSE listener[h]]

\* PortForwarder::drop joins the acceptor, which owns the listening socket.
UnwindForwarders(p) ==
    /\ pc[p] = "u_fwd"
    /\ listener' = Released(p)
    /\ Continue(p, "u_down")
    /\ UNCHANGED <<plan, at, name, reached, tapVars, fc, runDirs, cgroups>>

\* Mutant of DropForwarders: a forwarder dropped without joining its acceptor.
DropForwardersDetached(p) ==
    /\ pc[p] = "drop_fwd"
    /\ IF failedAt[p] # "none"
       THEN Continue(p, "exit_err") /\ UNCHANGED at
       ELSE IF at[p] < Len(plan[p].launches)
            THEN Continue(p, "mkdir") /\ at' = [at EXCEPT ![p] = @ + 1]
            ELSE Continue(p, "finish") /\ UNCHANGED at
    /\ UNCHANGED <<plan, name, reached, tapVars, listener, fc, runDirs, cgroups>>

\* Mutant of DropForwarders: one launch too many.
DropForwardersOneMore(p) ==
    /\ pc[p] = "drop_fwd"
    /\ listener' = Released(p)
    /\ IF failedAt[p] # "none"
       THEN Continue(p, "exit_err") /\ UNCHANGED at
       ELSE IF at[p] <= Len(plan[p].launches)
            THEN Continue(p, "mkdir") /\ at' = [at EXCEPT ![p] = @ + 1]
            ELSE Continue(p, "finish") /\ UNCHANGED at
    /\ UNCHANGED <<plan, name, reached, tapVars, fc, runDirs, cgroups>>

\* The last field of RunningVm; then the error leaves the command, or the loop
\* of run (the second half of snapshot) starts its next launch.
DropForwarders(p) ==
    /\ pc[p] = "drop_fwd"
    /\ listener' = Released(p)
    /\ IF failedAt[p] # "none"
       THEN Continue(p, "exit_err") /\ UNCHANGED at
       ELSE IF at[p] < Len(plan[p].launches)
            THEN Continue(p, "mkdir") /\ at' = [at EXCEPT ![p] = @ + 1]
            ELSE Continue(p, "finish") /\ UNCHANGED at
    /\ UNCHANGED <<plan, name, reached, tapVars, fc, runDirs, cgroups>>

\* What is left of the command without a VM: the manifest is saved, except after
\* a plain run, which returns what wait returned.
Finish(p) ==
    /\ pc[p] = "finish"
    /\ \/ Continue(p, "exit_ok")
       \/ Current(p).end # "serve" /\ Fail(p, "exit_err")
    /\ UNCHANGED <<plan, at, name, reached, hostVars>>

Step(p) ==
    \/ MkRunDir(p) \/ NameTap(p) \/ TapAdd(p) \/ AddrAdd(p) \/ LinkUp(p) \/ Neigh(p)
    \/ Bind(p) \/ WriteConfig(p) \/ Spawn(p) \/ ApiSocket(p) \/ SnapLoad(p)
    \/ ApplyCgroups(p) \/ Readiness(p) \/ ProbeRead(p) \/ RecordBenchmark(p)
    \/ Serve(p) \/ CreateSnapshot(p) \/ Kill(p) \/ TapDown(p) \/ TapDel(p) \/ RemoveRunDir(p)
    \/ UnwindForwarders(p) \/ DropForwarders(p) \/ Finish(p)

-----------------------------------------------------------------------------
\* The environment.

\* fvm installs no signal handler, so no destructor runs.  Interrupting from the
\* terminal reaches the child too (same process group), `kill` does not.
Interrupt(p) ==
    /\ Interrupts
    /\ pc[p] \notin Exits
    /\ Goto(p, "killed")
    /\ listener' = Released(p)
    /\ failedAt' = [failedAt EXCEPT ![p] = pc[p]]
    /\ fc' \in {fc, IF Live(p) THEN [fc EXCEPT ![p] = "dead"] ELSE fc}
    /\ UNCHANGED <<plan, at, name, reached, tapVars, runDirs, cgroups>>

\* Firecracker opens the TAP of its configuration when it boots, the TAP of
\* network_overrides when it is asked to load the snapshot.
FcOpensTap(p) ==
    /\ fc[p] = "alive"
    /\ Current(p).kind = "cold" \/ pc[p] = "snap_load"
    /\ name[p] # NoTap => Present(name[p]) /\ ~Holder(name[p])
    /\ fc' = [fc EXCEPT ![p] = "attached"]
    /\ UNCHANGED <<procVars, tapVars, listener, runDirs, cgroups>>

GuestListens(p) ==
    /\ fc[p] = "attached"
    /\ fc' = [fc EXCEPT ![p] = "listening"]
    /\ UNCHANGED <<procVars, tapVars, listener, runDirs, cgroups>>

FcExits(p) ==
    /\ Live(p)
    /\ fc' = [fc EXCEPT ![p] = "dead"]
    /\ UNCHANGED <<procVars, tapVars, listener, runDirs, cgroups>>

AllDone == (\A p \in Procs : pc[p] \in Exits) /\ UNCHANGED vars

Next ==
    \/ \E p \in Procs : \/ Step(p) \/ Interrupt(p)
                        \/ FcOpensTap(p) \/ GuestListens(p) \/ FcExits(p)
    \/ AllDone

Spec == Init /\ [][Next]_vars

\* A read from a guest or from Firecracker's API has a timeout of its own and no deadline
\* for the whole answer: a peer that sends a little now and then keeps fvm reading.
AtPeersMercy(p) ==
    \/ pc[p] = "probe_read" /\ fc[reached[p]] = "listening"
    \/ pc[p] \in {"snap_load", "snap_create", "sd_kill"} /\ Live(p)

\* Every other call of fvm returns: the attempts to connect and the wait for the socket
\* have deadlines, SIGKILL ends the child, the acceptor polls its flag.  Nothing is
\* assumed of Firecracker, of the guest or of whoever interrupts.
FairSpec == Spec /\ \A p \in Procs : WF_vars(Step(p) /\ ~AtPeersMercy(p))

-----------------------------------------------------------------------------
\* Properties.

Returned(p)  == pc[p] \in {"exit_ok", "exit_err"}
Tap(p)       == {n \in TapNames : owner[n] = p}
HasPort(p)   == \E h \in HostPorts : listener[h] = p
SetupCalls   == {"addr_add", "link_up", "neigh"}
ChildCalls   == {"api_socket", "snap_load", "cgroup"}

\* From `tuntap add` to `tuntap del`, and from the spawn to the kill.
TapCalls == (LaunchLabels \ {"mkdir", "tap_add"}) \cup RunLabels \cup StopLabels
              \cup {"drop_kill", "drop_down", "drop_del"} \cup UnwindLabels
FcCalls  == ChildCalls \cup RunLabels \cup {"sd_kill", "drop_kill"} \cup UnwindLabels

\* A command that returns, with or without an error, has removed its run directory; its
\* Firecracker survives only an error between the spawn and the RunningVm, and a TAP
\* only a failed call of setup_network after `tuntap add`, or a failed `tuntap del`.
\* One that is interrupted also leaves what it held at the call it was cut short in.
\* Neither ever keeps a port.
LeaksOnlyWhereKnown ==
    \A p \in Procs :
      /\ Returned(p) =>
           /\ p \notin runDirs
           /\ Live(p) => failedAt[p] \in ChildCalls
           /\ Tap(p) \subseteq undeleted \/ failedAt[p] \in SetupCalls
      /\ pc[p] = "killed" =>
           /\ p \in runDirs => failedAt[p] \notin {"mkdir", "drop_fwd", "finish"}
           /\ Live(p) => failedAt[p] \in FcCalls
           /\ Tap(p) \subseteq undeleted \/ failedAt[p] \in TapCalls
      /\ pc[p] \in Exits => ~HasPort(p)

\* Each launch of a benchmark or of `snapshot --verify-restore` starts with everything
\* of the one before it released, its host ports included, but for a TAP that `ip`
\* did not delete.
LaunchesStartClean ==
    \A p \in Procs : pc[p] = "mkdir" =>
        p \notin runDirs /\ ~HasPort(p) /\ Tap(p) \subseteq undeleted /\ ~Live(p)

\* While the command uses its VM nobody takes the VM's network away: the TAP is
\* there, its own and up, the ports are bound, the run directory exists.
RunningVmKeepsNetwork ==
    \A p \in Procs : pc[p] \in RunLabels /\ ~Dry(p) =>
        /\ p \in runDirs
        /\ Networked(p) => /\ name[p] \in TapNames
                           /\ owner[name[p]] = p /\ link[name[p]] = "up"
                           /\ \A h \in plan[p].ports : listener[h] = p

\* A VM that the guest address leads to stays the one it leads to until its own
\* command gives it up: no other launch or cleanup diverts its traffic.
EstablishedRouteKept ==
    [][\A p \in Procs : pc[p] \in RunLabels /\ pc'[p] \in RunLabels /\ ~Dry(p)
                        /\ Networked(p) /\ name[p] \in GuestRoute
                            => name'[p] \in GuestRoute']_vars

\* Every command returns or reaches the point where it waits for its VM, unless it reads
\* for ever from a peer that never ends its answer: there is no other place to hang.
CommandsSettle ==
    \A p \in Procs : <>(pc[p] \in Exits \cup {"serve"}) \/ <>[]AtPeersMercy(p)

\* When the VM of a waiting `fvm run` stops, the command returns, and its ports are free
\* again and so is its TAP, unless `ip` did not delete it.
StoppedVmIsCleanedUp ==
    \A p \in Procs : (pc[p] = "serve" /\ ~Live(p))
        ~> (pc[p] = "killed" \/ (Returned(p) /\ ~HasPort(p) /\ Tap(p) \subseteq undeleted))

\* What the documents promise and the code does not do.

\* DESIGN.md: "readiness is checked from the host against the guest endpoint".
ReadinessReachesOwnGuest ==
    \A p \in Procs : pc[p] # "probe_read" => reached[p] \in {p, NoProc}
-----------------------------------------------------------------------------
\* The inductive invariant behind the safety properties.  A TAP is the one its creator's
\* handle names, or one that `ip` did not delete, and the names keep the processes apart;
\* which label a process is at then says what it holds.

NamesInv ==
    /\ \A p \in Procs : name[p] \in NamesOf[p] \cup {NoTap}
    /\ \A p \in Procs : \A n \in Tap(p) :
         n \in NamesOf[p] /\ (name[p] = n \/ n \in undeleted)
    /\ \A n \in undeleted : Present(n)

\* After the spawn a dry run has left launch_vm.
ControlInv(p) ==
    /\ pc[p] = "tap_add" => Networked(p)
    /\ pc[p] \in {"addr_add", "link_up", "neigh", "bind"} => ~Dry(p) /\ Networked(p)
    /\ pc[p] \in {"spawn", "api_socket", "snap_load", "cgroup", "probe_read", "record",
                  "serve", "sd_kill", "sd_down", "sd_del", "drop_kill", "drop_down",
                  "drop_del"} => ~Dry(p)
    /\ pc[p] \in LaunchLabels \cup RunLabels \cup StopLabels \cup {"finish", "exit_ok"}
          => failedAt[p] = "none"
    /\ pc[p] \in {"u_fwd", "u_down", "u_del"}
          => failedAt[p] \in {"bind", "config", "spawn"} \cup ChildCalls
    /\ pc[p] \in DropLabels => failedAt[p] \in RunLabels \cup {"none"}

FcInv(p) ==
    /\ pc[p] \in {"mkdir", "tap_add", "addr_add", "link_up", "neigh", "bind", "config",
                  "spawn", "sd_down", "sd_del", "drop_down", "drop_del", "drop_dir",
                  "drop_fwd", "finish", "exit_ok"} => ~Live(p)
    /\ pc[p] \in UnwindLabels \cup {"exit_err"} /\ Live(p) => failedAt[p] \in ChildCalls
    /\ pc[p] = "killed" /\ Live(p) => failedAt[p] \in FcCalls
    /\ Dry(p) => ~Live(p)

HoldsTap == {"addr_add", "link_up", "neigh", "bind", "config", "spawn", "api_socket",
             "snap_load", "cgroup"} \cup RunLabels
LinkIsUp == HoldsTap \ {"addr_add", "link_up"}

TapInv(p) ==
    /\ Dry(p) \/ pc[p] \in {"mkdir", "tap_add", "drop_dir", "drop_fwd", "finish", "exit_ok"}
          => Tap(p) \subseteq undeleted
    /\ pc[p] \in {"u_dir", "exit_err"}
          => Tap(p) \subseteq undeleted \/ failedAt[p] \in SetupCalls
    /\ pc[p] = "killed" => Tap(p) \subseteq undeleted \/ failedAt[p] \in TapCalls
    /\ pc[p] \in HoldsTap /\ ~Dry(p) /\ Networked(p)
          => name[p] \in TapNames /\ owner[name[p]] = p
    /\ pc[p] \in LinkIsUp /\ ~Dry(p) /\ Networked(p) => link[name[p]] = "up"

PortInv(p) ==
    /\ pc[p] \in {"mkdir", "tap_add", "addr_add", "link_up", "neigh", "u_down", "u_del",
                  "u_dir", "finish"} \cup Exits => ~HasPort(p)
    /\ pc[p] \in {"config", "spawn", "api_socket", "snap_load", "cgroup"} \cup RunLabels
       /\ ~Dry(p) => Unbound(p) = {}

DirInv(p) ==
    /\ pc[p] \in {"mkdir", "drop_fwd", "finish", "exit_ok", "exit_err"} => p \notin runDirs
    /\ pc[p] = "killed" /\ p \in runDirs
          => failedAt[p] \notin {"mkdir", "drop_fwd", "finish"}
    /\ pc[p] \in (LaunchLabels \ {"mkdir"}) \cup RunLabels => p \in runDirs

\* What each command holds follows from where it is: the invariant every step of
\* launch_vm, of the drops and of the environment preserves.
IInv ==
    /\ TypeOK
    /\ NamesInv
    /\ \A p \in Procs : ControlInv(p) /\ FcInv(p) /\ TapInv(p) /\ PortInv(p) /\ DirInv(p)
=============================================================================
