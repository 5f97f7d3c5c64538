# Verification of fvm

`fvm` turns a JAR into an artifact directory (kernel, root filesystem, binary,
Firecracker configuration, `metadata.json`) and runs it in Firecracker microVMs
on a Linux host. This directory holds TLA+ specifications of the parts of fvm
whose correctness depends on order, failure and concurrency, the TLC
configurations that check them, and TLAPS proofs of their safety
properties. Paths such as `firecracker.rs` are under `src/src/`;
`PROJECT.json` maps every definition to its lines.

    tlc -config VmLifecycle_safety.cfg VmLifecycleMC.tla     # model-check
    tlapm VmLifecycleProofs.tla                              # check the proofs

## 1. Inventory

| component | state it keeps | operations | hard behaviour | what makes it correct | modelled in |
|---|---|---|---|---|---|
| VM lifecycle (`firecracker.rs`, `run` and `snapshot` of `cli.rs`) | run directory, TAP, routes, listening ports, Firecracker child, cgroup directory | `launch_vm`, `setup_network`, `launch_restored_vm`, `apply_cgroups`, `RunningVm::{wait, shutdown, create_snapshot}`, three `Drop`s | every call may fail; errors unwind through Rust scopes; a signal runs no destructor; several commands share a host whose VMs all have one guest address | nothing outlives a command; a second launch of a command starts clean; nobody takes a running VM's network | `VmLifecycle` |
| Port forwarder (`start_port_forwarder`, `proxy_tcp`) | listener, stop flag, one thread per connection, two copying threads | accept, connect, copy, `Drop` | threads against each other and against both peers; half-closed connections | no data cut off, drop ends, threads end | `PortForwarder` |
| Readiness and API client (`wait_for_http_readiness`, `firecracker_put`) | none | probe, PUT, PATCH | timeouts, the answer of another guest | readiness is the own guest's | outcome in `VmLifecycle` |
| Artifact store (`artifact.rs`; `build`, `run`, `snapshot`, `inspect`) | directory, `metadata.json`, snapshot files | load, save, `record_file`, `verify_files`, `prepare_artifact_dir` | truncate-then-write, read-modify-write over a whole command, failures between files and record | records describe files, reports are kept, `inspect --verify` is right | `ArtifactStore` |
| Guest init (`bin/fvm-init.rs`) | `TERMINATE`, the child, mounts, credentials | read the configuration, mount, drop privileges, exec or monitor, forward, measure RSS, wait, exit | signals at any time; PID 1's special rules; a console shared with the application | the guest ends when it must, the exit code tells why, what is measured is true | `FvmInit`, `GuestBoot` |
| Init wrapper, rootfs (`guest_init.rs`, `rootfs.rs`) | files of the image, the manifest's claim about RSS | choice of the wrapper, staging, configuration file | the outcome is decided in three places and read back from text in the guest | the guest starts, runs as whom it should, and the claimed measurements come | `Rootfs`, `GuestBoot` |
| Toolchain, framework analysis (`toolchain.rs`, `framework.rs`, `command_util.rs`) | none | run tools, inspect JAR entries | none | diagnostics | not modelled: no state |
| Benchmark summaries (`benchmark.rs`) | none | percentiles | none | arithmetic | planned |
| AOT compile closure (`fvm_aot/compiler/static_int.rs`) | worklist, scheduled initializers, run order | `lower_static_int_closure`, `clinit_run_order` | recursion, cycles between classes | exactly the needed methods; an initializer after those it uses | `CompileClosure`, `CompilerPipeline` |
| AOT reachability (`fvm_aot/reachability.rs`) | worklist, graph | `analyze_main`, `CompilerPipeline::run` | a second worklist, over bytecode instead of lowered code | exact, covers what the compiler lowers, tells whether it can | `Reachability`, `CompilerPipeline` |
| AOT lowering (`fvm_aot/lower/`) | operand stack, locals, entry frames, blocks | `lower_method_to_ir`: plan, one step per opcode, edges | joins, loops and irreducible jumps; frames of blocks lowered out of order; sub-word types | every block gets the bytecode's frame; nothing out of scope; unsupported code refused | `Bytecode`, `Lowering` |
| AOT IR and verifier (`ir.rs`, `ir_verify.rs`) | values in scope | `verify_function` | scopes of blocks, edges against parameters | what it passes can be compiled | `IrVerify` |
| AOT code generation (`codegen/cranelift/lower.rs`), runtime stub (`runtime_stub.rs`) | values, heap, statics, output | one step per IR instruction; traps, print, string builder | integer edges, narrow elements, order of traps and effects | the machine code shows what the bytecode shows | `LoweredRuns` |
| AOT evaluator, emitter (`fvm_aot/evaluator.rs`, `emitter.rs`) | frames, statics, heap, initialized classes, output | build-time interpretation of `main`, one step per opcode; the C program that repeats it | integers and strings of another language, class initialization, limits, tagged values | every step is a step of the JVM or a refusal | `JavaProgram`, `JavaMachine`, `Evaluator` |
| AOT object layout, symbols, link, allocator (`object_model.rs`, `codegen/cranelift/symbols.rs`, `link.rs`, `runtime_stub.rs`) | layouts, static storage, heap | lay out, declare, emit, link, `fvm_rt_alloc` | mixed widths, names that coincide in symbols, the end of the heap | fields and objects do not overlap; a call and an access reach what they name | `ObjectModel`, `CompilerPipeline` |
| AOT class reader (`classfile.rs`, `types.rs`) | none | decode | none | the class as javac wrote it | types in `Bytecode`; the file format is not modelled |
| Scripts, containers, examples | – | – | – | – | not modelled: not part of the program |

How the parts meet: `build` writes an artifact; `run` and `snapshot` load its
manifest, launch VMs (the lifecycle), record reports or snapshots in the
manifest and save it whole. `build --backend fvm-aot` runs the program at build
time and emits what it did (`Evaluator`); the compiler path instead collects the
methods it needs (`CompileClosure`), lowers and verifies each (`Lowering`,
`IrVerify`), lays out the classes (`ObjectModel`) and emits machine code that
calls the runtime stub (`LoweredRuns`, `CompilerPipeline`). A launch starts one forwarder per port mapping and
owns it through `RunningVm`. In the guest PID 1 is fvm-init or the application, as the build
decided (`GuestBoot`). `PROJECT.json`
lists the hazards each of these brings, line by line.

## 2. Modules

Each component is a module of its own; the `*MC` module gives it finite
constants, the `.cfg` files pick the properties; proofs are in `*Proofs`.
Definitions marked "Mutant" are deliberate mistakes with the parameters of the
definition that follows them. They are used by nothing; putting one in the
place of the definition must break a property.

### VmLifecycle

One process per fvm command. A command (`plan`) is its host ports and the
launches it makes: a plain run is one cold launch that serves; `run --once`
and each benchmark iteration stop their VM; `snapshot` captures it and with
`--verify-restore` launches a second, restored one; dry runs make no call to
the host. `pc` names the next call that reaches the host, in the order of
`launch_vm`: run directory, `ip tuntap add`, `ip addr add`, `ip link set up`,
`ip neigh`, the forwarders, the configuration, the spawn, for a restore the API
socket and `PUT /snapshot/load`, then the cgroup. Each may fail. What follows
an error is what is in scope there in Rust: `u_dir` before `launch_vm` has a
`NetworkCleanup`, `u_fwd, u_down, u_del, u_dir` after, `drop_*` once there is a
`RunningVm`; `shutdown` (`sd_*`) is followed by the same drops.

The host is shared: TAPs with their owner, link state and the routes that were
there before theirs (every TAP carries 172.16.0.1/30, the kernel uses the
oldest route), ports, run directories, cgroup directories, one Firecracker
child per command. Firecracker opens its TAP after it was started, which is
one reason why `ip tuntap del` may fail; both calls of `cleanup_tap` may fail for any
other, and `undeleted` keeps which TAPs are there because of it. The last attempt of the
probe is two steps, for its read (`ProbeRead`) has no deadline. The removal of the run
directory by `TempDir` and the kill of the child succeed. `Interrupt` ends a process anywhere: no
destructor runs, sockets close, the child may or may not get the signal too.

### PortForwarder

One forwarded port. The acceptor polls `stop` and a non-blocking listener that
it owns; a connection gets a thread that connects to the guest within 50 ms and
two threads that copy. Both copying threads own descriptors of both sockets, so
a socket closes when both have ended; this is the heart of the model. Clients
and guest send, half-close and close when they like; a killed VM falls silent
without closing. The end of the fvm process, which ends all threads, is not an
action here (it is `Interrupt` in VmLifecycle).

### ArtifactStore

One artifact directory. File contents are the number of the command that wrote
them, so hashes are equal when contents are. `build`, `run`, `snapshot` and
`inspect` go through their calls one by one; each call may be cut, by an error
or a signal. `metadata.json` may be absent, truncated, corrupt or a manifest;
`save` is open-and-truncate, then write, and a writer may hold a file that
`build --force` has replaced. `inspect --json` verifies nothing. Two processes interleave; nothing in fvm keeps them
apart. The properties say exactly what that costs: `Writers` are the commands
that write to the artifact and `MetBy(d)` those of them that ran while `d` did; a
report or a snapshot may be missing, or described wrongly, only when such commands
met.

### Rootfs, FvmInit, GuestBoot

From a build request to what the host learns. `Rootfs` is pure: which wrapper is
taken (`guest_init.rs`), which files, libraries and users are staged in each
mode (`rootfs.rs`), the lines of `/etc/fvm-init.conf` and `read_config` over
them (the last line with a key counts), and the RSS source the manifest records. `FvmInit` is PID 1: it reads
that file, mounts, starts the application with the group and user it was given, or
becomes it, forwards signals, measures RSS, waits and exits. A signal that comes
before the handlers are installed, or after `exec`, is dropped by the kernel's
rule for init processes. The console is lines made of pieces, one piece per
write(2): `eprintln!` writes an RSS line in three, and the application writes in
between. `GuestBoot` composes them with the host: the build, the guest of the
image, the pause-and-kill of `shutdown`, and the thread that reads the console
line by line and stops at the first that is not UTF-8. `MeasurementArrives` excuses a
lost measurement only for a write into the very line or an undecodable line before any
RSS line, not for an application that merely writes. A build off Linux stages no
library (`rootfs.rs:253`) and compiles a program the guest cannot run: `StartsUnless`
names it. Orphans are left out: fvm-init does nothing about them.

### CompileClosure

The worklist of `lower_static_int_closure`, then `visit_clinit` with its
recursion as an explicit stack. A program is the calls and the class uses of
each method; lowering a body is its outcome. The order in which the queue is
served is left open (nothing may depend on it), except that the entry comes
first.

### Reachability, ObjectModel, CompilerPipeline

`Reachability` is the scan of `reachability.rs` over the bytecode of a JAR, dead
code included, with the classes that descriptors and field types lead to, and the
report of `CompilerPipeline::run`: what was reached, what of it can be lowered,
the first method that cannot. The closure of a mark (`Marked`) is stated as the
least closed set, not as the worklist's recursion. It extends `CompileClosure`, whose program is what
the live instructions hold; the two worklists share nothing in the code and must agree.

`ObjectModel` lays out one field per step, as `layout_class` does, instance and
static ones apart, and has the heap of `fvm_rt_alloc`.

`CompilerPipeline` composes them over one JAR: the report, the closure and the
initializer order, the layouts, `emit_objects` with everything it refuses
(`CanEmit`: a class without layout, a field without slot, any cast or type test;
`Clash`: two definitions of one symbol, for class and method, joined by a dot, lose
the characters that are no letters or digits), the symbols that the stub calls, and
the program that allocates. A slot is found by the name of its field (`SlotsOf`), as
in the code. The report and the compilation are separate functions of the JAR; that
one comes first is a choice of the model.

### Bytecode, IrVerify, Lowering, LoweredRuns

The compiler of one method. `Bytecode` is what the lowering reads: types,
opcodes grouped by what they do, and `plan_blocks`. `IrVerify` is the SSA form and
`verify_function`, in two halves: `WellFormed` (single assignment, scope, edges,
terminators) and `WellTyped`. A value's definitions are the set of places that
define it (`Definitions`); the verifier's map, filled in order, refuses exactly a
value with two.

`Lowering` is `MethodLowerer` as a state machine: `Plan`; the depth-first search of
`reverse_postorder` with its explicit stack, one action for a successor looked at
(`Visit`) and one for a block left (`Leave`); `Seed`, the entry's frame; then for
each block of the order `NextBlock` (restore the entry frame) and one action per kind of
opcode, each emitting what `state.rs` emits, in that order; `EndBlock` captures
the entries of blocks that an edge reaches first and passes the arguments. Every
refusal of the code is a disjunct of `Refused`, `Unplanned`, `Unmergeable` or
the verifier's verdict, and `Reject` records which. A position in the sequence
stands for a bci; an instruction is already decoded.

`LoweredRuns` runs the result, on the integers of `JavaInts`. For a method that was lowered, arguments are
chosen, the bytecode is interpreted by the JVM specification (external to this
repository, in the `Jvm*` actions), then the IR by what
`codegen/cranelift/lower.rs` and the runtime stub do with each instruction
(`Native*`). Both runs leave a trace: blocks entered, calls with their
arguments, output, the trap or the result; calls are answered alike. At the end
the traces, the statics and the caller's object must be equal.

### JavaInts, JavaProgram, JavaMachine, Evaluator

The build-time evaluator as a refinement. `JavaMachine` is the abstract
specification: what a program does in the Java virtual machine (external to this
repository), on the bytecode and library classes the evaluator knows. `JavaProgram`
is what both read: classes, fields, methods, code, and strings as sequences of
code points with their UTF-16 units. `Evaluator` is `evaluator.rs`, one action per
group of opcodes, and `emitter.rs`: values that carry a kind, conversions at every
field, parameter, result and element, static fields that exist once written, classes
`initializing` and `initialized`, the two limits, and a refusal (`verdict`,
`reason`) wherever the code has one, an empty stack, a local never stored and the end
of the code included, which no program of javac reaches but the code checks. `Java == INSTANCE JavaMachine WITH ...` maps
it: the kinds are erased, an unwritten field holds its type's default, printed
strings become units. (docs/fvm-aot-compatibility-matrix.md:5 calls `evaluator.rs`
"frozen and slated for deletion"; at this commit it is still the backend of
`fvm build --backend fvm-aot`.)

`Faithful` says that every step of the evaluator is a step of that machine, leaves it
alone, or is one of four departures, each an action with the state in which it is taken:
`WritesUninitialized` (a `putstatic` does not initialize its class), `InitializesAlone`
(a class is initialized without its superclasses and interfaces, or in the place of the
class that declares the member), `MissesOverride` (a method of Object is answered for an
object whose class overrides it), `TakesOutForAnother` (`System.out` is not `==` to
itself). After a departure the two go on from the same state, so that whatever is wrong
besides is still seen. `RunsAsJava` allows no departure. Whether two strings of one
content are one object is left open by `JavaMachine`, whose `==` may answer either:
Java says it of constants only, and the evaluator always answers that they are.

`RefusedOnlyBeyond` says that a value is refused only where Java throws (`Throws`) or
for a reason named there: a surrogate on its own (`SurrogateAlone`); a null line or an
object in a concatenation (`NoText`); classes, objects and methods of the library, arrays
of arrays and fields of such a type, `new Object()`, the other `println`s, an interface call
on a String, `System.out` kept or passed (`OfLibrary`); a static field or method that the
class named inherits, a method that the object's class does, and the constructor of a
superclass, so that no object whose class has a superclass in the program is ever
completed (`IsInherited`); a reference stored, cast or passed under a name other than
that of its very class, a String as a `CharSequence` in a cast among them (`IsWidened`).
So a refusal cannot hide a disagreement. No disjunct can be left out: some program of the
run needs each of them, and each departure.

## 3. Runs

| run | instance | shows |
|---|---|---|
| `VmLifecycle_safety` | two commands out of six kinds, one port they compete for, one TAP name each, cgroups on, failures (of the clean-up too) and signals everywhere; 6.9 M states | `LeaksOnlyWhereKnown`, `LaunchesStartClean`, `RunningVmKeepsNetwork`, `EstablishedRouteKept` |
| `VmLifecycle_liveness` | two commands that serve or restore, no signals; 0.54 M states | `CommandsSettle`, `StoppedVmIsCleanedUp` |
| `VmLifecycle_readiness` | two runs on different ports | violated: the probe of the second VM is answered by the first VM's guest |
| `ArtifactStore_overlapping` | up to four commands of seven kinds, two at a time, each cut anywhere, at most one meeting of two commands; 5.5 M states | `ReportsAreRuns`, `SnapshotsAsRecorded`, `RestoresWhatIsRecorded`, `ManifestLostOnlyAsKnown`, `InspectVerdict` |
| `GuestBoot_all` | every build request, one write of the application, two measurements, a host that stops at any time; 0.62 M states | `ChildAccountedFor`, `StartsUnless`, `DropsPrivileges`, `SourceIsTrue`, `RssWasMeasured`, `GuestEnds`, `MeasurementArrives` |
| `PortForwarder_all` | two connections, one chunk each way, accept may fail; 0.25 M states | `DroppedIsClosed`, `NothingIsCutOff`, `ThreadsEnd` (`DropEnds`, `ConnectionsEnd`) |
| `CompilerPipeline_all` | six families of JARs with three classes (a shared helper; every graph of direct uses among initializers; pairs of 17 instructions, live and dead; every list of up to three fields and of four that have storage; accesses to two fields of one name; superclasses; names that coincide); 0.27 M states | `ReportIsTrue` (`ReportIsExact`, `BinaryIsReported`, `CleanReportCompiles`), `ClosureIsExact`, `InitializersInOrder` (`EachInitializerRunsOnce`, `DependenciesFirst`), `StorageApart` (`FieldsApart`, `ObjectsApart`), `LinksAsMeant`, `CompilationEnds` |
| `CompileClosure_indirect_use` | the programs with one use each | violated: an initializer runs before a class it uses through a helper (the comment above `clinit_run_order`) |
| `LoweredRuns_all` | 84 methods, every argument; 0.2 M states | `RunsAgree`, `FramesAgree`, `OnlyTypesRefused`, `FrameInScope` |
| `LoweredRuns_operands` | a text joined to an object or null | violated: the object's memory is read as a string, null crashes (`calls.rs`: "supports int and String arguments only") |
| `Evaluator_all` | some 2300 programs: every operation on every operand, every conversion of every value through a field, element, parameter, result or string, strings with supplementary characters, initialization in every order and cycle of two classes, writes to statics of classes not initialized, superclasses and interfaces with initializers, overrides of the methods of Object, dispatch, the library, servers, both limits | `MemoryTyped`, `RefusedOnlyBeyond`, `BinaryIsTheRun`, `Faithful`, `EvaluationEnds` |
| `Evaluator_superclass` | a main class with a superclass that has an initializer | `RunsAsJava` violated: the superclass is never initialized (README.md: everything else fails at build time) |

Bounds. Two commands are enough for every pairwise conflict over a port, a TAP
or a route; a third adds no new kind of contention, and the proofs below hold
for any number. Four commands on an artifact (`MaxCommands`) allow build, two
snapshots or runs around a failure, and an inspect or a second `build --force`
after them; `MaxMeetings` = 1 lets two of them overlap anywhere, once, which is all
a lost update needs. In `GuestBoot_all` a write of the application (`MaxAppWrites` = 1: a word, a digit, a line
end or undecodable bytes) can break into an RSS line between any two of its pieces, and two
measurements (`MaxRss`) let one be spoilt and the next not.
Two connections let one end while another is accepted or copied; a chunk each
way separates "all read" from "something unread". Three classes give every
shape of cycle with a class outside it.

In `CompilerPipeline` a pair of instructions is enough for each rule of the report
and of emission to meet each other, and four fields for every padding between widths
4 and 8; the heap of 40 bytes holds at most four objects, the last of which may
end exactly at its end.

The integers of `LoweredRuns` and `Evaluator` have 4 bits, short and char 3, byte and boolean 2:
the widths differ as 32, 16 and 8 do, so that every conversion can lose bits,
and all pairs of operands are tried, the least integer by -1 and shifts beyond
the width among them. The methods take every opcode that is lowered, every
test, every stack rearrangement, loops with the test first and last, nested,
endless and irreducible ones, a loop that swaps two variables (edge arguments
that form a cycle), values left on the stack across a join, and one method for
each reason to refuse. A run is cut after `MaxBlocks` = 12 blocks, which is more
than two rounds of each loop; both runs are cut at the same block. Strings are
pieces and never null in the passing run. In `Evaluator` a char is one of eight, two
of them surrogates, and no constant is a surrogate (such a program is refused before it
runs); superclasses are classes of the program and no interface extends another;
`MaxDepth` = 5 and `MaxSteps` = 32 stand for 32 and 20 000 and
are above what any program that ends needs.

The safety runs also check their module's type invariant, on its own or as the
first part of another (`ChildAccountedFor`, `InitializersInOrder`, `MemoryTyped`). Deadlock is checked in every
run; the final states step to themselves through
an explicit action (`AllDone`, `Finished`, `Over`, `Dropped`, `Stopped`, `Rest`).

Fairness. `VmLifecycle`: weak fairness of each command's next step, unless it reads from
a peer: attempts to connect and the wait for the API socket have deadlines, SIGKILL ends
the child, the acceptor polls its flag, but `read_http_status_response` and
`read_http_response` have a timeout for each read and none for the answer, so a live guest
or Firecracker may hold them for ever (`AtPeersMercy`). Nothing is assumed of
Firecracker, of the guest, or of the end of a served VM.
`PortForwarder`: weak fairness of the forwarder's threads and of the join, none
of the peers or of the decision to drop. `GuestBoot`: weak fairness of PID 1, of
an application that honours SIGTERM (`HonoursTerm`), of the kill that follows a
pause, of the kernel panic that follows the exit of PID 1, and of the thread that
reads the console; none of the application otherwise, of signals, or of the host's decision.
`CompilerPipeline`, `Evaluator`: weak fairness of a sequential program's next step.

### Divergences without a run

Met while modelling. A property that one of these would violate names it and allows it;
the others are outside what the properties say.

*VMs and artifacts.*
A run that is interrupted keeps its TAP and run directory; a failed restore or cgroup
set-up leaves Firecracker running; when `ip addr add`, `ip link set up` or `ip neigh`
fails, the TAP just created stays, and so does one that `ip tuntap del` does not delete
(`LeaksOnlyWhereKnown` says at which calls each can happen). No code removes a `vm-<pid>`
cgroup directory, and no property is about it (DESIGN.md:502: "Clean up host resources
after shutdown or failure"). A guest that sends its status line a byte at a time holds
the probe past `--readiness-timeout` (`firecracker.rs:599`). TAP names are made of `pid % 1000` and the
milliseconds, so two processes may produce one name. A run that overlaps a snapshot
saves the manifest it read before it, and the snapshot's record is gone; `run` never
compares an artifact's files with their record (DESIGN.md:78). A failing benchmark
iteration discards the measured ones. `build --force` removes the old artifact before
analysis, toolchain and arguments are checked, so a build that fails there costs it
(`cli.rs:298`; `ManifestLostOnlyAsKnown` names the case). `inspect --json --verify` prints
the manifest and returns before it verifies anything (`cli.rs:646`; README.md:21:
"verifies hashes"). `shutdown` pauses and kills the VM and asks
nothing of the guest, where DESIGN.md says shutdown should attempt a graceful stop. A
client that closes leaves the guest's side of its connection open, as the guest's
close leaves the client's (`firecracker.rs:537`: each copying thread keeps both
sockets); any error of `accept` but `WouldBlock` ends the acceptor for the life of
the VM; a guest that takes more than 50 ms to accept loses the connection.

*Guest.*
`--guest-uid` and `--guest-gid` without the wrapper are recorded and nothing applies
them (README.md:247). A build that requires guest RSS with `--init-mode exec` is not
refused, though its manifest says the source is unavailable. Legacy images bring the
wrapper's libraries and not those of the `java` they copy; a build on another system than
Linux succeeds without any library (`rootfs.rs:253`). One console line that is
not UTF-8 ends the thread that reads the console (`command_util.rs:104`). An RSS line
is written in three pieces, and the application's output between them spoils it
(`bin/fvm-init.rs:102`). Orphans are never waited for (`:86`); SIGTERM is sent again
every 25 ms (`:80`); a signal taken before an `exec` is lost with the process image.

*Evaluator.*
`putstatic` does not initialize the class (`evaluator.rs:407`; docs/PUNCHLIST.md:49);
a class is initialized without its superclass (`:1136`), and an inherited static member
initializes the class named before it is refused; a call on a receiver typed `Object` goes
to the built-in method, not to an override (`:722`; docs/PUNCHLIST.md:63); `System.out`
is not `==` to itself (`:1487`). Of these the second is a finding (`Evaluator_superclass`);
the others are departures that `Faithful` names and allows. `==` on strings compares
their content (docs/PUNCHLIST.md:61 calls it a bug to be left behind), which
`JavaMachine` leaves open. The lines printed before `Http.respond` are dropped from the
binary. docs/PUNCHLIST.md holds a NUL byte; `cat -v` shows the lines quoted.

*Compiler.*
`if (c) { int m = n; } else { n++; } return n;` is refused ("cannot merge frames",
`state.rs:109`) because the branch lowered first has a local that the other lacks,
although it is dead where they meet, and `return c ? true : b` passes or fails the
verifier depending on which branch is lowered first, where docs/PUNCHLIST.md:40 says
that arbitrary static int programs compile. A null `String` that is printed or
concatenated is read as memory, as in `LoweredRuns_operands`; a store into a
reference array is not checked (`state.rs:547`); a private method called on null with
`invokespecial` (class files older than Java 11) is entered without a
NullPointerException (`calls.rs:142`), which no method of the runs does; `main` gets no arguments
(docs/PUNCHLIST.md:76). The report refuses every method with an instance call, a table
switch or `wide`, dead code included, and every method that is not static, where the
compiler lowers some of these; it passes over calls out of the JAR, which the
compiler refuses (`CleanReportCompiles`). A slot is found by the name of its field
alone (`object_model.rs:188`, `:201`): of two fields of one kind that differ in type
only, the later takes the entry of the earlier (`Overloaded` in `LinksAsMeant`). The
code generator has no arm for casts and type tests (`lower.rs:469`), and nothing calls
`ObjectModel::subtype_check`. `IrVerify` refuses `instanceof` and `checkcast`: at this
commit the `match` of `verify_instr` has no arm for them, nor
`verify_supported_trap` for `ClassCast`, so the crate as it stands does not
cover them.

## 4. Proofs

`VmLifecycleProofs` (any number of commands, ports, TAP names and plans):

* `Invariance`: `Spec => []IInv`. None of the safety properties is inductive.
  `IInv` says of each command what it holds at each of its calls
  (`ControlInv`, `FcInv`, `TapInv`, `PortInv`, `DirInv`), and of the TAPs that
  one has a name of the process that created it, whose handle names it unless a
  deletion of it failed (`NamesInv`). The proof has two halves: a step of `p` leaves what `q` holds
  alone (`OthersUntouched`, `Frame`), which rests on TAP names of different
  processes being different; and `p`'s own part is preserved by a case per
  action (`ControlStep`, `FcStep`, `TapStep`, `PortStep`, `DirStep`,
  `NamesStep`).
* `TypeCorrect`, `KnownLeaks`, `CleanLaunches`, `NetworkKept` follow from it;
  `RouteKept` is the action property, from the invariant and two lemmas about
  the order of routes (`OldestStays`, `RunningStepsAreQuiet`).

They assume `ConstantsAssumption` (types of the constants; every plan has a
launch) and `NamesAssumption`: no two commands on the host produce the same
TAP name. The code derives names from `pid % 1000` and the milliseconds, so
this is likely and not certain; without it `RunningVmKeepsNetwork` is false.

`ArtifactStoreProofs` (any number of processes, snapshot names and commands, any
`MaxCommands` and `MaxMeetings`): `ReportsKept`, `SnapshotsKept`,
`RestoresRecorded`, `ManifestKept`, `VerdictIsTrue` and `StoreTypeCorrect` follow
from `StoreInvariance`: `Spec => []StoreInv`. The properties speak of a store on
which nothing runs; the invariant says at each step why they will hold then. Its
parts:

* `NumberInv`: two commands whose times overlapped are a pair in `met`. Hence the
  notion the proofs turn on: `Lone(x)`, command `x` met no writer, running or
  ended. It can end and never begin, and beside a lone command nobody touches the
  disk (`LoneNoWriter`, `ReaderStep`).
* `KeptInv`: what a writer that ended well, met no other and was not superseded did
  to the manifest (`Effect`) is in the manifest, and in the copy held by every
  command that will save one. This is the read-modify-write of a whole command: the
  copies matter, not only the file. `OwnInv` says the same of a lone writer that
  still runs, from the call after which its effect is on the disk.
* `ReportsInv`: the manifest and all copies list only reports of runs since the
  directory was made.
* `SaverInv`, `LostInv`: a writer that has the manifest open either still has it
  truncated and whole to itself, or its file was replaced, or it met another that
  had a pen too (`Pen`, `Touch`). So if the build that made
  the directory last ended well, an unreadable manifest has either one cut save or
  removal behind it (`Risk`) or two that met (`Brawl`); and once a build has ended well,
  some build made the directory (`MadeInv`).
* `Peace(ops)`: no two writers with these operations have met. In peace, and unless a
  capture or a removal was cut (`Hurt`), what the manifest and every copy of it
  record is what is on the disk, up to the snapshot being taken (`RecordsInv`,
  `BlankInv`). From this a `Fair` run restores what is recorded (`RestoredInv`), and
  `inspect --verify` rejects nothing sound; that it accepts nothing unsound needs peace
  among builds or among snapshots only (`BuiltInv`, `PairInv`), which is why these
  two are parts of their own. `VerdictInv` keeps the verdict true until the next
  command starts.

TLC checked `StoreInv` on the instance of the run, before it was proved. The proof
found `RestoresWhatIsRecorded` as it was stated before too narrow: it excused a run
that met a writer which had ended, and not one that was still running and had met
it only. The counterexample needs more commands than `MaxCommands`; the property
now names that case.

`GuestBootProofs` (any requests, exit codes, libraries, ids, measurements and
writes of the application): `ChildIsAccountedFor`, `GuestStarts`,
`PrivilegesDropped`, `RssSourceIsTrue`, `RssIsMeasured`, from `BootInvariance`.
The first part is about data: each line that the build appends to the
configuration file gives its key's value and leaves the others (`LineAppended`), so
`read_config` finds what was written (`ConfigRead`). `ControlInv` says of each place
of fvm-init what it has read, whether it has a child, and with what code it may exit.
`ConsoleInv` is about the pieces of a line: it has at most one number that is not the
application's, and the line being written has none except between the second and
the third write of `eprintln!`.

`PortForwarderProofs` (any number of connections and chunks): `DropClosesListener`,
`ClientGetsAll`, `ForwarderTypeCorrect`, from `ForwarderInvariance`. `CopyInv`
says why a thread that copies to the client has ended: the client had gone, or
the guest had closed and all was read.

`ReachabilityProofs`, of the closure (every set of classes, methods and programs) and
of the report (every JAR):

* `ExactClosure`: when the worklist is empty, the lowered methods are the least
  set that holds the entry, its class's initializer, and is closed under calls
  and initializers of used classes. The invariant `ClosureInv` says that what a
  lowered method needs is lowered or queued, that the scheduled initializers
  are, and that everything lowered or queued is in every closed set that holds
  the roots.
* `InitializersOrdered`: `visit_clinit` is a depth-first search. `OrderInv` says that
  a class on its stack leads to those above it, that its uses are visited but for
  those still to do, and that a class in the order has each use before it or on
  a cycle with it. A finished class can therefore only miss a use that is still on
  the stack, and then the two are on a cycle. This supposes of the program that an
  initializer no class declares cannot be resolved (`Resolvable`).
* `ReportExact`: the report is the least set that holds `main` and is closed under
  what code, descriptors and fields name. Classes are closed at every step, the code
  of a method once it was scanned (`GraphClosed`), and all of it is in every closed
  set (`GraphNeeded`).

`CompilerPipelineProofs`, of the object model (any classes, any multiple of 8 as
heap, any requests) and of the pipeline (any families of JARs):

* `StorageAlwaysApart`: `ModelSpec => []StorageApart`. `FieldsApart` speaks of
  finished layouts; the invariant adds `Arranged`, what holds of the class being
  laid out: no slot reaches past the cursor of its kind, so one placed at the
  rounded cursor (`AlignUpIsAligned`, `PlacingArranged`) overlaps none. `HeapInv`
  says that the heap's cursor is a multiple of 8 at or after the end of every
  object, which is why sizes are rounded and why aligned fields are aligned in
  memory. `ShapeInv` adds that a layout has a slot for each field, of its kind.
* Every step of the pipeline is a step of the object model, or none
  (`PipelineStepsLayout`), and likewise of the closure (`PipelineStepsClosure`) and of
  the scan (`PipelineStepsScan`), so `PipelineStorageApart`, `PipelineClosureExact` and
  `PipelineInitializersInOrder` follow from the invariants of the parts.
* Two theorems are about the composition: `PipelineReportIsTrue`, because closure and
  report read one JAR (`JarInv`) and the closure's program is part of what the scan
  closes over; and `PipelineLinksAsMeant`, because what was linked passed every check
  of `emit_objects` (`StageInv`), each of which rules out one way for a symbol to be
  another's.

`LoweringProofs` (every method, of any length and any control flow, irreducible and
dead code included): `FramesHoldTheirValues` and `StraightCodeIsWellFormed`, from
`LoweringInvariant`: `LowerSpec => []LoweringInv`. The lowering gives a block its frame
when the first edge into it is lowered, and never looks back; neither property is
inductive, for both depend on what was done to blocks lowered before, in an order that
a search has found. The invariant has a part for each:

* `WalkInv` is about the search while it runs. The path leads from the entry, each
  block of it a successor of the one before; no block is found twice; the successors
  of a block that was left were all found; and a block that was left, but for the
  entry, is a successor of one left after it or still on the path (`WalkReached`). When
  the path is empty, the last of these says that in reverse postorder every block comes
  after one of its predecessors, which is the comment above `reverse_postorder` with
  "a predecessor" for "a forward predecessor", and true of irreducible graphs too.
* `Sane` is about the lowering of any code. An entry has a parameter for each slot and
  each value on the stack; the values of the frame are the parameters of the current
  block, or were defined by what it has emitted. It gives `FrameInScope`.
* `Sound` is about code in which no instruction follows one that ends its block
  (`Straight`). Each block left comes after a predecessor or has an entry (`Covers`);
  each block lowered is well-formed against the entries (`Written`); the current one
  is so far (`Body`); and each value below `next` was defined in one place (`Fresh`).
  It gives `OnlyTypesRefused`. For other code it is false: the plan takes a block's
  successors from its last instruction, dead or not, and the lowering ends the block at
  the first that ends it, so a block may be in the order that no edge reaches.

An instruction's own lemma (`ConstantKeeps`, ..., `ConcatKeeps`) says only what it emits
and pushes; that such an emission keeps the invariant is proved once (`EmitKeeps`),
and so is the end of a block, for the five actions that make one (`EndKeeps`). What
edges capture (`Reached`) and what a recipe becomes (`Recipe`) are recursive functions
over a sequence: that each step is as defined, and then any property of all of them,
is proved of the least index at which it could fail. The theorems are about
`LowerSpec`. They hold of the runs of `LoweredRuns` as well: a step there is a step of
`Lower`, or leaves the lowering's variables alone but for `phase`, which never returns
to "lower", and for the reason "codegen".

`EvaluatorProofs` (every program, every limit, every width of the integers):
`BinaryIsOfTheRun`, `EvaluatorTypes`, `MemoryStaysTyped`, from two invariants:

* `Shape` (`EvaluatorShape`): what frames, heap, statics, classes and the verdict are
  made of. Each value on a stack, in a local or in memory is one of the kinds, and
  refers to something that is on the heap; an object has cells for fields of its class
  only; each frame is of a method of the program, and a method that called another was
  not at its limit; a class that is initializing has a frame of its initializer. A
  binary is then of a run whose initializers are over, because no frame is left.
  `TypeOK` needs the limits of every frame on the stack, for a return uncovers one.
* `Held`: each static, field and element that was written is of its declared type.
  `MemoryTyped` is not inductive without `Shape`, because what is stored comes from a
  stack, and not without `Grows`, that an object on the heap never changes its class
  nor an array its type, because what was held must stay held.

They are theorems about programs that a JVM's verifier would accept, which the
evaluator relies on and does not check: `StoresVerified`, the array of an `aastore` is
one of references, is a hypothesis (`Spec /\ []StoresVerified`) and a conjunct of
`TypeOK`, so that TLC checks it of every program of the run. It cannot be an assumption
on the program, since which array is on a stack is a fact about a run.

Assumptions. Each is an ASSUME of the module that declares the constant, and TLC
evaluates it on the instance of a run. All give the constants their types, with these
exceptions: `PowersAssumption`, what 2^b is for b up to the width of an int, for the
provers know no arithmetic of powers; `ProgramsAssumption` and `MethodsAssumption`, what a
decoded instruction looks like (a branch has a target, a recipe is made of arguments,
texts and constants) and that a field is named with its own descriptor, as javac does;
`UnitsAssumption`, that the units of a surrogate pair are no characters; `NamesAssumption` above; `WorldsAssumption`, that what the pipeline starts
from is a JAR (`IsJar`: no two fields of a class have both name and type in common, as
the class file format requires, and code names members of the universe); `HeapAssumption`, that
the heap of the stub is a multiple of 8; `SortedAssumption`, that the report's order
of methods lists all of them. `StoreAssumption`, `BootAssumption` and
`InitAssumption` say only that commands, requests and exit codes are such.

Only model-checked. Liveness under fairness (`CommandsSettle`, `StoppedVmIsCleanedUp`,
`ThreadsEnd`, `GuestEnds`, `MeasurementArrives`, `CompilationEnds`, `EvaluationEnds`) and
`ENABLED` are out of the prover's reach. `RunsAgree`, `FramesAgree` and the type invariant of
`LoweredRuns` are: the module computes with the bitwise operators of the community
modules, which no module with a theorem can reach, and that two interpreters agree on
every method is the correctness of a compiler, an induction over two programs.
`Faithful` and `RefusedOnlyBeyond` relate the evaluator to `JavaMachine` step by step;
they would need what the library's string and digit operators compute for every
input. Induction over data cannot be used in general; where a proof needs an extreme
element (the least class in `visit_clinit`, the last line with a key, the first edge
that captures wrongly) it gets it from the well-foundedness of `<` on the naturals.

## 5. Not modelled

Argument parsing, the text of reports, `doctor`, the analysis of JARs and
toolchains: no state, or wording. Dry runs of the artifact commands. The
contents of HTTP requests and of Firecracker's configuration. The class file
format. The commands `cc` is run with. Failures of the tools that make the image
(they are failures of a build in `ArtifactStore`). Of a compiled method: what its
callees do to the heap (a call has arguments and a result), the runtime class of
arrays and objects (so neither ArrayStoreException nor dispatch), long, float and
double (refused). Of an evaluated program: exceptions that are caught (the evaluator
has none), threads (none), and what library classes do that it refuses (that they are
refused is modelled).

## 6. Plan

1. `Faithful` for every program, one group of opcodes at a time, from `Shape`: each
   is a step of `JavaMachine` under the mapping, or a departure. Arithmetic and fields first, strings
   last.
2. The type invariant of `LoweredRuns`, from `LoweringInv`, once its shifts and masks are
   written without the bitwise operators.
3. Benchmark summaries: the percentile by rank and its rounding, against a
   definition by counting.
4. The class file reader, if a property beyond decoding what javac wrote is found.
