-------------------------------- MODULE Rootfs --------------------------------
(***************************************************************************)
(* What fvm build puts into a guest image: the choice of the init wrapper  *)
(* (guest_init.rs), the staging of the root file system (rootfs.rs), and   *)
(* the part of the manifest that says how the guest was built (cli.rs).    *)
(*                                                                         *)
(* A request is the part of the build's arguments these functions read,    *)
(* with what they find on the host.  A file is its path in the guest; the  *)
(* shared libraries of a program are a set, and the file of each is named  *)
(* as the library.                                                         *)
(***************************************************************************)
EXTENDS Integers, Sequences

None   == -1      \* an absent uid or gid
NoExec == "none"  \* no program named

\* found: whether the companion, or the path given, is a file; jre: "noJava" is a
\* directory without bin/java; libs: the libraries ldd lists for the application,
\* for the wrapper and for the java on the host; linux: what that host runs.
Request ==
    [mode : {"native", "legacy"}, wrapper : {"none", "auto", "path"}, found : BOOLEAN,
     dry_run : BOOLEAN, linux : BOOLEAN, allow_missing_guest_rss : BOOLEAN,
     init_mode : {"monitor", "exec"}, jre : {"none", "notDir", "noJava", "java"},
     uid : {None} \cup Nat, gid : {None} \cup Nat,
     libs : [app : SUBSET STRING, init : SUBSET STRING, java : SUBSET STRING]]

-----------------------------------------------------------------------------
(* guest_init.rs: resolve_init_wrapper.                                    *)

RssRequired(req) == ~req.allow_missing_guest_rss /\ ~req.dry_run

WrapperRefused(req) ==
    IF req.wrapper = "path" THEN ~req.found
    ELSE /\ req.wrapper = "none" \/ ~req.found
         /\ req.mode = "legacy" \/ RssRequired(req)

HasWrapper(req) == req.wrapper # "none" /\ req.found

\* build, before it stages anything.
InitRefused(req) ==
    \/ WrapperRefused(req)
    \/ req.init_mode = "exec" /\ ~HasWrapper(req) /\ ~req.dry_run

-----------------------------------------------------------------------------
(* rootfs.rs.                                                              *)

BaseDirs == {"/dev", "/proc", "/sys", "/tmp", "/etc"}

\* copy_dynamic_libraries does nothing on a dry run, nor on a host without ldd.
Libraries(req, program) ==
    IF req.dry_run \/ ~req.linux THEN {} ELSE req.libs[program]

\* Option<u32>: a line, or none.
OptionLine(key, value) == IF value = None THEN <<>> ELSE << <<key, value>> >>

ConfigLines(exec, args, mode, req) ==
    << <<"exec", exec>>, <<"mode", mode>> >>
    \o [i \in DOMAIN args |-> <<"arg", args[i]>>]
    \o OptionLine("uid", req.uid) \o OptionLine("gid", req.gid)
    \o << <<"rss_interval_ms", 250>> >>

WrapperFiles(req) == {"/init", "/etc/fvm-init.conf"} \cup Libraries(req, "init")

\* Mutant: a legacy image takes the requested mode.
LegacyModeAsAsked(req) == req.init_mode

AppFiles(req)   == {"/app"} \cup Libraries(req, "app")
RssSource(mode) == IF mode = "monitor" THEN "InitWrapperSerial" ELSE "Unavailable"
LegacyMode(req) == "monitor"

StageNative(req) ==
    IF HasWrapper(req)
    THEN [init_path |-> "/init",
          files |-> BaseDirs \cup AppFiles(req) \cup WrapperFiles(req),
          conf |-> ConfigLines("/app", <<>>, req.init_mode, req),
          guest_rss_source |-> RssSource(req.init_mode)]
    ELSE [init_path |-> "/app", files |-> BaseDirs \cup AppFiles(req), conf |-> <<>>,
          guest_rss_source |-> "Unavailable"]

\* A legacy image always monitors, whatever --init-mode says, and brings the
\* libraries of the wrapper but not those of the java it copies.
StageLegacy(req) ==
    [init_path |-> "/init",
     files |-> BaseDirs \cup {"/app.jar"} \cup WrapperFiles(req)
               \cup (IF req.jre = "java" THEN {"/jre/bin/java"} ELSE {}),
     conf |-> ConfigLines("/jre/bin/java", <<"-jar", "/app.jar">>, LegacyMode(req), req),
     guest_rss_source |-> "InitWrapperSerial"]

StageRefused(req) == req.mode = "legacy" /\ req.jre \in {"none", "notDir"}

\* What must be in the image for a program to start.  One made on another system
\* is none for the guest, but java and the wrapper given may be brought from Linux.
ForLinux(req)   == IF req.linux THEN {} ELSE {"a program for Linux"}
AppNeeds(req)   == IF req.mode = "legacy" THEN {"/jre/bin/java"} \cup req.libs.java
                                          ELSE {"/app"} \cup req.libs.app \cup ForLinux(req)
InitNeeds(req)  == {"/init"} \cup req.libs.init
                   \cup (IF req.wrapper = "auto" THEN ForLinux(req) ELSE {})

\* The artifact: the image, what the manifest records beside it, and what the two
\* programs need.  On a dry run the image is a placeholder that nothing boots.
Built(req) ==
    LET image == IF req.mode = "legacy" THEN StageLegacy(req) ELSE StageNative(req)
    IN  [init_path |-> image.init_path, files |-> image.files, conf |-> image.conf,
         guest_rss_source |-> image.guest_rss_source,
         needs |-> AppNeeds(req), init_needs |-> InitNeeds(req),
         guest_uid |-> req.uid, guest_gid |-> req.gid, bootable |-> ~req.dry_run,
         linux |-> req.linux]

-----------------------------------------------------------------------------
(* fvm-init.rs: read_config.                                               *)

Latest(at) == CHOOSE i \in at : \A j \in at : j <= i

\* The value of the last of the lines with this key, or what there was before.
LastValue(lines, key, before) ==
    LET at == {i \in DOMAIN lines : lines[i][1] = key}
    IN  IF at = {} THEN before ELSE lines[Latest(at)][2]

\* The values of all the lines with this key.
Values(lines, key) ==
    LET HasKey(l) == l[1] = key
        found     == SelectSeq(lines, HasKey)
    IN  [i \in DOMAIN found |-> found[i][2]]

\* Mutant: a uid line sets the gid as well, as users and groups often agree.
ReadConfigLoosely(lines) ==
    [exec |-> LastValue(lines, "exec", NoExec),
     args |-> Values(lines, "arg"),
     mode |-> IF LastValue(lines, "mode", "monitor") = "exec" THEN "exec" ELSE "monitor",
     uid  |-> LastValue(lines, "uid", None),
     gid  |-> LastValue(lines, "gid", LastValue(lines, "uid", None))]

\* A mode it does not know is "monitor".  rss_interval_ms has no part here: a
\* measurement may be due at any tick.
ReadConfigFile(lines) ==
    [exec |-> LastValue(lines, "exec", NoExec),
     args |-> Values(lines, "arg"),
     mode |-> IF LastValue(lines, "mode", "monitor") = "exec" THEN "exec" ELSE "monitor",
     uid  |-> LastValue(lines, "uid", None),
     gid  |-> LastValue(lines, "gid", None)]

Unset == ReadConfigFile(<<>>)
===============================================================================
