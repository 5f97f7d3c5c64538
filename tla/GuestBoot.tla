------------------------------- MODULE GuestBoot -------------------------------
(***************************************************************************)
(* From a build request to the end of the guest: fvm build makes the image *)
(* (Rootfs), the guest boots from it (FvmInit), and fvm reads the console  *)
(* and ends the VM.  The parts agree on three things that no type checks:  *)
(* the lines of /etc/fvm-init.conf, the source of guest RSS the manifest   *)
(* claims, and the form of an RSS line on a console others write to.       *)
(*                                                                         *)
(* Firecracker's own lines on its standard error, which another thread of  *)
(* fvm appends to the same log, are left out.                              *)
(***************************************************************************)
EXTENDS FvmInit

CONSTANTS
    Requests,       \* build requests
    HostStops       \* whether the host may shut the VM down

ASSUME BootAssumption ==
    Requests \subseteq Request /\ HostStops \in BOOLEAN

Text        == -3       \* the application's words
Undecodable == -4       \* bytes that are not UTF-8
NoArtifact  == [bootable |-> FALSE]
NoRequest   == [mode |-> "none"]

VARIABLES
    request,    \* the request until it is built or refused: then NoRequest
    build,      \* "asked", "built" or "refused"
    logged,     \* how many console lines the reader thread has taken
    reader      \* "reading", or "ended" at the end of its input or on an error

hostVars == <<request, build, logged, reader>>
allVars  == <<vars, hostVars>>

Init ==
    /\ InitGuest
    /\ artifact = NoArtifact
    /\ request \in Requests /\ build = "asked"
    /\ logged = 0 /\ reader = "reading"

-----------------------------------------------------------------------------
Build ==
    /\ build = "asked" /\ request' = NoRequest
    /\ IF InitRefused(request) \/ StageRefused(request)
       THEN build' = "refused" /\ UNCHANGED artifact
       ELSE build' = "built" /\ artifact' = Built(request)
    /\ UNCHANGED <<pc, config, proc, TERMINATE, asked, appVars, exit, broke,
                   console, vm, logged, reader>>

InGuest == Guest /\ UNCHANGED hostVars

\* RunningVm::shutdown: PATCH /vm Paused, whose failure is ignored, then kill.
Shutdown ==
    /\ HostStops
    /\ \/ vm = "up" /\ vm' \in {"paused", "gone"}
       \/ vm = "paused" /\ vm' = "gone"
    /\ UNCHANGED <<artifact, pc, config, proc, TERMINATE, asked, appVars, exit, broke,
                   console, hostVars>>

Finish == vm = "paused" /\ Shutdown

\* stream_reader: one line at a time into the log; a line that does not decode
\* ends the thread, and what the guest writes afterwards is lost.  At the end of
\* its input it takes what is left of a line as a line.
Decodes(l) == \A i \in DOMAIN l : l[i] # Undecodable

Forwarded(l) == IF Decodes(l) THEN logged' = logged + 1 /\ UNCHANGED reader
                              ELSE reader' = "ended" /\ UNCHANGED logged

ReadLog ==
    /\ reader = "reading"
    /\ \/ logged < Len(serial) /\ Forwarded(serial[logged + 1])
       \/ logged = Len(serial) /\ vm = "gone" /\ reader' = "ended"
          /\ logged' = logged + (IF line # <<>> /\ Decodes(line) THEN 1 ELSE 0)
    /\ UNCHANGED <<vars, request, build>>

Over ==
    /\ vm = "gone" \/ build = "refused" \/ (build = "built" /\ ~artifact.bootable)
    /\ UNCHANGED allVars

Next == Build \/ InGuest \/ Shutdown \/ ReadLog \/ Over

Spec == Init /\ [][Next]_allVars

\* The guest runs while it is up, an application that honours SIGTERM ends some
\* time after it, fvm finishes a shutdown it began, and its reader thread runs.
FairSpec ==
    /\ Spec
    /\ WF_allVars(InitProcess /\ UNCHANGED hostVars)
    /\ WF_allVars(AppObeys /\ UNCHANGED hostVars)
    /\ WF_allVars(Panic /\ UNCHANGED hostVars)
    /\ WF_allVars(Finish)
    /\ WF_allVars(ReadLog)

-----------------------------------------------------------------------------
(* What the host makes of the log: latest_guest_rss_from_log.              *)

Log == SubSeq(Append(serial, line), 1, logged)

\* Mutant: no digits are taken for zero.
DigitsOrZero(l) ==
    IF l # <<>> /\ l[1] = Key /\ \A i \in 2 .. Len(l) : l[i] \in Nat
    THEN (IF Len(l) = 1 THEN <<0>> ELSE Tail(l)) ELSE <<>>

\* The number after the key: all that follows must be digits, one at least.
Digits(l) ==
    IF l # <<>> /\ l[1] = Key /\ Len(l) > 1 /\ \A i \in 2 .. Len(l) : l[i] \in Nat
    THEN Tail(l) ELSE <<>>

GuestRss ==
    LET at == {i \in DOMAIN Log : Digits(Log[i]) # <<>>}
    IN  IF at = {} THEN <<>> ELSE Digits(Log[Latest(at)])

-----------------------------------------------------------------------------
\* Every variable stays in its type.
TypeOK ==
    /\ build \in {"asked", "built", "refused"} /\ (build = "asked" \/ request = NoRequest)
    /\ pc \in {"off", "handlers", "mount", "config", "exec", "replaced", "monitor", "exited"} \cup Loop
    /\ config.uid \in {None} \cup Nat /\ config.gid \in {None} \cup Nat
    /\ proc \in BOOLEAN
    /\ TERMINATE \in BOOLEAN /\ asked \in BOOLEAN /\ told \in BOOLEAN /\ broke \in BOOLEAN
    /\ app \in {"none", "running", "zombie", "reaped"}
    /\ cred.uid \in Nat /\ cred.gid \in Nat
    /\ status \in Codes \cup {Signalled, Running}
    /\ exit \in Codes \cup {125, 126, 127, Signalled, Running}
    /\ rss \in Seq(RssValues) /\ Len(rss) <= MaxRss /\ writes \in 0 .. MaxAppWrites
    /\ reader \in {"reading", "ended"} /\ logged \in 0 .. Len(serial) + 1
    /\ vm \in {"off", "up", "paused", "gone"}

\* fvm-init signals and waits for a process id only while it is its own child's, which
\* once reaped may be another process's, and the code it exits with tells what became of
\* the application: its own code, Signalled, or that it never ran.
ChildAccountedFor ==
    /\ TypeOK
    /\ pc \in Loop => app \in Unreaped
    /\ exit # Running =>
         /\ app = "reaped" => exit = status
         /\ app = "none" => exit \in {126, 127}
         /\ app \in Unreaped => exit = 125

\* The image holds what its PID 1 starts and fvm-init reads what the build wrote:
\* the application starts unless the kernel refuses fvm-init something, a java was
\* copied without its program or the libraries fvm-init does not share, or the build
\* was not made on Linux and the image lacks libraries or a program for it.
StartsUnless ==
    pc = "exited" /\ app = "none" =>
      \/ broke
      \/ "/app.jar" \in artifact.files /\ ~CanStart
      \/ ~artifact.linux /\ ~(CanStart /\ InitStarts)

\* An application for which the manifest records a user and a group runs as them,
\* but for one that is PID 1 of a guest without the wrapper and runs as root.
DropsPrivileges ==
    app # "none" /\ artifact.init_path = "/init" =>
      /\ artifact.guest_uid # None => cred.uid = artifact.guest_uid
      /\ cred.gid = (IF artifact.guest_gid = None THEN 0 ELSE artifact.guest_gid)

\* The manifest says InitWrapperSerial of exactly the guests in which fvm-init
\* stays to measure.
SourceIsTrue ==
    app # "none" /\ pc # "exited" =>
      (artifact.guest_rss_source = "InitWrapperSerial" <=> pc \in Loop)

\* The host takes for the guest's RSS a number fvm-init measured, whatever the
\* application writes into the same line, unless it writes digits alone there.
RssWasMeasured ==
    \/ GuestRss \in {<<>>} \cup {<<rss[i]>> : i \in DOMAIN rss}
    \/ \E i \in DOMAIN GuestRss : GuestRss[i] \in AppPieces

\* The guest ends when its application does, and on a SIGTERM that reaches fvm-init,
\* even before the application is started, if the application honours it.
GuestEnds ==
    /\ app = "zombie" ~> vm = "gone"
    /\ asked /\ artifact.conf[2][2] = "monitor" /\ HonoursTerm ~> vm = "gone"

\* The application broke into an RSS line, which then is none.
BrokenInto(l) == writes > 0 /\ (\E i \in DOMAIN l : l[i] = Key) /\ Digits(l) = <<>>

\* The reader gave up on a line before it came to any RSS line.
UnreadFrom(i) == ~Decodes(serial[i]) /\ \A j \in 1 .. i - 1 : Digits(serial[j]) = <<>>

\* A measured guest gets a measurement into the log while it, fvm-init and the
\* application live, and whatever the application writes but for two things: into
\* the very line, or, before any, a line that does not decode.
MeasurementArrives ==
    pc = "due" /\ proc ~>
      \/ GuestRss # <<>> \/ app # "running" \/ vm # "up" \/ exit # Running
      \/ \E i \in DOMAIN serial : BrokenInto(serial[i]) \/ UnreadFrom(i)
================================================================================
