------------------------------ MODULE GuestBootMC ------------------------------
(* Instances of GuestBoot for TLC. *)
EXTENDS GuestBoot

\* Libraries: the application's own, and a wrapper linked with none, with libc,
\* or with all java needs.
MCLibraries ==
    {[app |-> {"libc", "libapp"}, init |-> init, java |-> {"libc"}] :
        init \in {{}, {"libc"}}}

MCIds == {<<None, None>>, <<7, 8>>, <<7, None>>}

AllRequests ==
    {[mode |-> mode, wrapper |-> wrapper, found |-> found, dry_run |-> dry, linux |-> linux,
      allow_missing_guest_rss |-> allow, init_mode |-> init, jre |-> jre,
      uid |-> id[1], gid |-> id[2], libs |-> libs] :
        mode \in {"native", "legacy"}, wrapper \in {"none", "auto", "path"},
        found \in BOOLEAN, dry \in BOOLEAN, linux \in BOOLEAN, allow \in BOOLEAN,
        init \in {"monitor", "exec"}, jre \in {"none", "notDir", "noJava", "java"},
        id \in MCIds, libs \in MCLibraries}

\* Users and groups have nothing to do with libraries: the one is varied on Linux
\* and with a wrapper linked with libc, the other for one user and group.
MCRequests ==
    {req \in AllRequests :
        <<req.uid, req.gid>> = <<7, 8>> \/ (req.linux /\ req.libs.init # {})}

MCCodes     == {0}
MCAppPieces == {Text, NewLine, 7, Undecodable}
MCRssValues == {12, 42}
================================================================================
