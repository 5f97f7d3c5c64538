---------------------------- MODULE GuestBootProofs ----------------------------
(***************************************************************************)
(* Proofs about GuestBoot, for any requests, exit codes, libraries, user   *)
(* and group ids, measurements and writes of the application.              *)
(*                                                                         *)
(* The first part is about data: that read_config finds in the file what   *)
(* stage_init_wrapper wrote (ConfigRead), for which each line appended     *)
(* needs a lemma, and that the parts of whatever is built agree            *)
(* (BuiltAgrees).  The second is the invariant of the control state: where *)
(* fvm-init is fixes what it has read, whether it has a child and what     *)
(* code it may exit with.  The third is the invariant of the console: a    *)
(* line has at most one number of fvm-init's, and the unfinished one has   *)
(* none but while fvm-init is about to end it, however the application's   *)
(* writes fall between.  The properties follow from the two.               *)
(***************************************************************************)
EXTENDS GuestBoot, SequenceTheorems, WellFoundedInduction, TLAPS

\* A set of naturals with a bound has a last element.
LEMMA LatestExists ==
    ASSUME NEW n \in Nat, NEW at, at \subseteq 0 .. n, at # {}
    PROVE  Latest(at) \in at /\ \A j \in at : j <= Latest(at)
<1> DEFINE R == {p \in Nat \X Nat : p[1] < p[2]}
           S == {n - i : i \in at}
<1>1. IsWellFoundedOn(R, Nat)
  BY NatLessThanWellFounded DEF OpToRel
<1>2. S \subseteq Nat /\ S # {}
  <2>1. \A i \in at : i \in 0 .. n
    OBVIOUS
  <2>2. \A i \in at : n - i \in Nat
    BY <2>1
  <2>3. PICK i \in at : TRUE
    OBVIOUS
  <2>4. n - i \in S
    OBVIOUS
  <2> QED BY <2>2, <2>4
<1>3. PICK m \in S : \A k \in S : <<k, m>> \notin R
  <2> HIDE DEF R, S
  <2> QED BY <1>1, <1>2, WFMin
<1>4. PICK i \in at : m = n - i
  BY <1>3
<1>5. \A j \in at : j <= i
  <2> SUFFICES ASSUME NEW j \in at PROVE j <= i
    OBVIOUS
  <2>1. n - j \in S /\ n - j \in Nat /\ m \in Nat
    BY <1>2, <1>3
  <2>2. ~(n - j < m)
    BY <2>1, <1>3
  <2> QED BY <2>1, <2>2, <1>4
<1> HIDE DEF R, S
<1> QED BY <1>4, <1>5 DEF Latest

-----------------------------------------------------------------------------
(* The file fvm build writes and fvm-init reads.                           *)

\* A line appended says its key's value and changes no other.
LEMMA LineAppended ==
    ASSUME NEW S, NEW s \in Seq(S), NEW l \in S, NEW key, NEW before
    PROVE  LastValue(s \o <<l>>, key, before) =
             (IF l[1] = key THEN l[2] ELSE LastValue(s, key, before))
<1> DEFINE t == s \o <<l>>
           n == Len(s) + 1
           at == {i \in DOMAIN t : t[i][1] = key}
<1>1. /\ DOMAIN t = 1 .. n /\ DOMAIN s = 1 .. Len(s) /\ t[n] = l /\ n \in 1 .. n
      /\ n \in Nat /\ n \notin DOMAIN s
      /\ \A i \in 1 .. Len(s) : t[i] = s[i]
  OBVIOUS
<1>2. ASSUME l[1] # key PROVE LastValue(t, key, before) = LastValue(s, key, before)
  <2>1. at = {i \in DOMAIN s : s[i][1] = key}
    <3> HIDE DEF t, n
    <3>1. \A i \in DOMAIN t : i = n \/ i \in DOMAIN s
      BY <1>1 DEF n
    <3>2. \A i \in DOMAIN s : i \in DOMAIN t
      BY <1>1 DEF n
    <3> QED BY <1>1, <1>2, <3>1, <3>2
  <2>2. at # {} => Latest(at) \in at
    <3> HIDE DEF t, n
    <3>1. at \subseteq 0 .. n
      BY <1>1
    <3> HIDE DEF at
    <3> QED BY <1>1, <3>1, LatestExists
  <2> HIDE DEF t, n
  <2> QED BY <1>1, <2>1, <2>2 DEF LastValue
<1>3. ASSUME l[1] = key PROVE LastValue(t, key, before) = l[2]
  <2> HIDE DEF t, n
  <2>1. n \in at /\ at \subseteq 0 .. n
    BY <1>1, <1>3
  <2>2. Latest(at) \in at /\ n <= Latest(at)
    <3> HIDE DEF at
    <3> QED BY <1>1, <2>1, LatestExists
  <2>3. \A i \in 0 .. n : n <= i => i = n
    <3> QED BY <1>1
  <2>4. Latest(at) = n
    <3>1. Latest(at) \in 0 .. n
      <4> HIDE DEF at
      <4> QED BY <2>1, <2>2
    <3> HIDE DEF at
    <3> QED BY <2>2, <2>3, <3>1
  <2> QED BY <1>1, <2>1, <2>4 DEF LastValue
<1> QED BY <1>2, <1>3

\* A line for an option, or none.
LEMMA OptionAppended ==
    ASSUME NEW S, NEW s \in Seq(S), NEW key, NEW value, <<key, value>> \in S
    PROVE  LET t == s \o OptionLine(key, value)
           IN  /\ t \in Seq(S)
               /\ \A k, d : k # key => LastValue(t, k, d) = LastValue(s, k, d)
               /\ LastValue(s, key, None) = None => LastValue(t, key, None) = value
<1>1. CASE value = None
  <2>1. OptionLine(key, value) = <<>>
    BY <1>1 DEF OptionLine
  <2>2. s \o <<>> = s
    OBVIOUS
  <2> QED BY <1>1, <2>1, <2>2
<1>2. CASE value # None
  <2> DEFINE l == <<key, value>>
             t == s \o <<l>>
  <2>1. OptionLine(key, value) = <<l>>
    BY <1>2 DEF OptionLine
  <2>2. l[1] = key /\ l[2] = value /\ l \in S
    OBVIOUS
  <2> HIDE DEF l
  <2>3. t \in Seq(S)
    BY <2>2
  <2>4. \A k, d : LastValue(t, k, d) = (IF l[1] = k THEN l[2] ELSE LastValue(s, k, d))
    BY <2>2, LineAppended
  <2> HIDE DEF t
  <2>5. \A k, d : k # key => LastValue(t, k, d) = LastValue(s, k, d)
    BY <2>2, <2>4
  <2>6. LastValue(t, key, None) = value
    BY <2>2, <2>4
  <2> QED BY <2>1, <2>3, <2>5, <2>6 DEF t
<1> QED BY <1>1, <1>2

\* Two lines appended at once.
LEMMA TwoLines ==
    ASSUME NEW S, NEW s \in Seq(S), NEW a \in S, NEW b \in S
    PROVE  s \o <<a, b>> = (s \o <<a>>) \o <<b>> /\ s \o <<a, b>> \in Seq(S)
<1>1. <<a>> \in Seq(S) /\ <<b>> \in Seq(S) /\ <<a, b>> \in Seq(S)
  OBVIOUS
<1>2. <<a>> \o <<b>> = <<a, b>>
  <2> DEFINE t == <<a>> \o <<b>>
  <2>1. t \in Seq(S) /\ Len(t) = 2 /\ t[1] = a /\ t[2] = b
    BY <1>1, ConcatProperties
  <2> HIDE DEF t
  <2>2. t = <<a, b>>
    BY <2>1
  <2> QED BY <2>2 DEF t
<1>3. (s \o <<a>>) \o <<b>> = s \o (<<a>> \o <<b>>)
  BY <1>1, ConcatAssociative
<1>4. s \o <<a, b>> \in Seq(S)
  BY <1>1
<1> QED BY <1>2, <1>3, <1>4

\* What two lines say.
LEMMA TwoAppended ==
    ASSUME NEW S, NEW s \in Seq(S), NEW a \in S, NEW b \in S
    PROVE  /\ s \o <<a, b>> \in Seq(S)
           /\ \A k, d : LastValue(s \o <<a, b>>, k, d) =
                (IF b[1] = k THEN b[2] ELSE IF a[1] = k THEN a[2] ELSE LastValue(s, k, d))
<1> DEFINE u == s \o <<a>>
<1>1. u \in Seq(S)
  OBVIOUS
<1>2. \A k, d : LastValue(u, k, d) = (IF a[1] = k THEN a[2] ELSE LastValue(s, k, d))
  BY LineAppended
<1> HIDE DEF u
<1>3. \A k, d : LastValue(u \o <<b>>, k, d) = (IF b[1] = k THEN b[2] ELSE LastValue(u, k, d))
  BY <1>1, LineAppended
<1>4. s \o <<a, b>> = u \o <<b>> /\ s \o <<a, b>> \in Seq(S)
  BY TwoLines DEF u
<1> QED BY <1>2, <1>3, <1>4

\* The arguments of either kind of image change no other key.
LEMMA ArgsAppended ==
    ASSUME NEW S, NEW s \in Seq(S), NEW args \in {<<>>, <<"-jar", "/app.jar">>},
           <<"arg", "-jar">> \in S, <<"arg", "/app.jar">> \in S
    PROVE  LET t == s \o [i \in DOMAIN args |-> <<"arg", args[i]>>]
           IN  /\ t \in Seq(S)
               /\ \A k, d : k # "arg" => LastValue(t, k, d) = LastValue(s, k, d)
<1>1. CASE args = <<>>
  <2>1. [i \in DOMAIN args |-> <<"arg", args[i]>>] = <<>>
    BY <1>1
  <2>2. s \o <<>> = s
    OBVIOUS
  <2> QED BY <2>1, <2>2
<1>2. CASE args = <<"-jar", "/app.jar">>
  <2> DEFINE a == <<"arg", "-jar">>
             b == <<"arg", "/app.jar">>
             t == s \o <<a, b>>
  <2>1. [i \in DOMAIN args |-> <<"arg", args[i]>>] = <<a, b>>
    BY <1>2
  <2>2. a \in S /\ b \in S /\ a[1] = "arg" /\ b[1] = "arg"
    OBVIOUS
  <2> HIDE DEF a, b
  <2>3. t \in Seq(S) /\ \A k, d : LastValue(t, k, d) =
                    (IF b[1] = k THEN b[2] ELSE IF a[1] = k THEN a[2] ELSE LastValue(s, k, d))
    BY <2>2, TwoAppended
  <2> HIDE DEF t
  <2>4. \A k, d : k # "arg" => LastValue(t, k, d) = LastValue(s, k, d)
    BY <2>2, <2>3
  <2> QED BY <2>1, <2>3, <2>4 DEF t
<1> QED BY <1>1, <1>2

\* fvm-init reads of the file what fvm build meant to say.
LEMMA ConfigRead ==
    ASSUME NEW req, NEW exec, NEW mode \in {"monitor", "exec"},
           NEW args \in {<<>>, <<"-jar", "/app.jar">>}
    PROVE  LET c == ReadConfigFile(ConfigLines(exec, args, mode, req))
           IN  c.exec = exec /\ c.mode = mode /\ c.uid = req.uid /\ c.gid = req.gid
<1> DEFINE S == {<<"exec", exec>>, <<"mode", mode>>, <<"arg", "-jar">>, <<"arg", "/app.jar">>,
                 <<"uid", req.uid>>, <<"gid", req.gid>>, <<"rss_interval_ms", 250>>}
           a == <<"exec", exec>>
           b == <<"mode", mode>>
           e == <<"rss_interval_ms", 250>>
           l0 == << a, b >>
           l1 == l0 \o [i \in DOMAIN args |-> <<"arg", args[i]>>]
           l2 == l1 \o OptionLine("uid", req.uid)
           l3 == l2 \o OptionLine("gid", req.gid)
           l4 == l3 \o << e >>
<1>1. ConfigLines(exec, args, mode, req) = l4
  BY DEF ConfigLines
<1>2. /\ a \in S /\ a[1] = "exec" /\ a[2] = exec
      /\ b \in S /\ b[1] = "mode" /\ b[2] = mode
      /\ e \in S /\ e[1] = "rss_interval_ms"
      /\ <<"arg", "-jar">> \in S /\ <<"arg", "/app.jar">> \in S
      /\ <<"uid", req.uid>> \in S /\ <<"gid", req.gid>> \in S
  OBVIOUS
<1> HIDE DEF S, a, b, e
<1>3. /\ l0 \in Seq(S)
      /\ \A k, d : LastValue(l0, k, d) = (IF k = "mode" THEN mode ELSE IF k = "exec" THEN exec ELSE d)
  <2> DEFINE nil == <<>>
  <2>1. nil \o <<a, b>> = l0 /\ nil \in Seq(S) /\ l0 \in Seq(S)
    BY <1>2
  <2>2. \A k, d : LastValue(nil, k, d) = d
    BY DEF LastValue
  <2> HIDE DEF nil, l0
  <2>3. \A k, d : LastValue(nil \o <<a, b>>, k, d) =
          (IF b[1] = k THEN b[2] ELSE IF a[1] = k THEN a[2] ELSE LastValue(nil, k, d))
    BY <1>2, <2>1, TwoAppended
  <2>4. \A k, d : LastValue(l0, k, d) = (IF "mode" = k THEN mode ELSE IF "exec" = k THEN exec ELSE d)
    <3> SUFFICES ASSUME NEW k, NEW d
                 PROVE  LastValue(l0, k, d) =
                          (IF "mode" = k THEN mode ELSE IF "exec" = k THEN exec ELSE d)
      OBVIOUS
    <3>1. LastValue(l0, k, d) =
            (IF b[1] = k THEN b[2] ELSE IF a[1] = k THEN a[2] ELSE LastValue(nil, k, d))
      BY <2>1, <2>3
    <3>2. LastValue(nil, k, d) = d
      BY <2>2
    <3> QED BY <1>2, <3>1, <3>2
  <2> QED BY <2>1, <2>4
<1> HIDE DEF l0
<1>4. /\ l1 \in Seq(S)
      /\ \A k, d : k # "arg" => LastValue(l1, k, d) = LastValue(l0, k, d)
  BY <1>2, <1>3, ArgsAppended
<1> HIDE DEF l1
<1>5. /\ l2 \in Seq(S)
      /\ \A k, d : k # "uid" => LastValue(l2, k, d) = LastValue(l1, k, d)
      /\ LastValue(l1, "uid", None) = None => LastValue(l2, "uid", None) = req.uid
  BY <1>2, <1>4, OptionAppended
<1> HIDE DEF l2
<1>6. /\ l3 \in Seq(S)
      /\ \A k, d : k # "gid" => LastValue(l3, k, d) = LastValue(l2, k, d)
      /\ LastValue(l2, "gid", None) = None => LastValue(l3, "gid", None) = req.gid
  BY <1>2, <1>5, OptionAppended
<1> HIDE DEF l3
<1>7. \A k, d : LastValue(l4, k, d) = (IF e[1] = k THEN e[2] ELSE LastValue(l3, k, d))
  BY <1>2, <1>6, LineAppended
<1> HIDE DEF l4
<1>8. ASSUME NEW k \in {"exec", "mode", "uid", "gid"}, NEW d
      PROVE  LastValue(l4, k, d) = LastValue(l3, k, d)
  <2>1. e[1] # k
    BY <1>2
  <2> QED BY <1>7, <2>1
<1>9. ASSUME NEW k \in {"exec", "mode"}, NEW d
      PROVE  LastValue(l4, k, d) = LastValue(l0, k, d)
  <2>1. k # "arg" /\ k # "uid" /\ k # "gid"
    OBVIOUS
  <2>2. LastValue(l3, k, d) = LastValue(l2, k, d) /\ LastValue(l2, k, d) = LastValue(l1, k, d)
    BY <1>5, <1>6, <2>1
  <2>3. LastValue(l1, k, d) = LastValue(l0, k, d)
    BY <1>4, <2>1
  <2> QED BY <1>8, <2>2, <2>3
<1>10. LastValue(l4, "exec", NoExec) = exec /\ LastValue(l4, "mode", "monitor") = mode
  <2>1. LastValue(l0, "exec", NoExec) = exec /\ LastValue(l0, "mode", "monitor") = mode
    BY <1>3
  <2> QED BY <1>9, <2>1
<1>11. ASSUME NEW k \in {"uid", "gid"}
       PROVE  LastValue(l1, k, None) = None
  <2>1. k # "arg" /\ k # "exec" /\ k # "mode"
    OBVIOUS
  <2>2. LastValue(l0, k, None) = None
    BY <1>3, <2>1
  <2> QED BY <1>4, <2>1, <2>2
<1>12. LastValue(l4, "uid", None) = req.uid
  <2>1. LastValue(l2, "uid", None) = req.uid
    BY <1>5, <1>11
  <2>2. LastValue(l3, "uid", None) = LastValue(l2, "uid", None)
    BY <1>6
  <2> QED BY <1>8, <2>1, <2>2
<1>13. LastValue(l4, "gid", None) = req.gid
  <2>1. LastValue(l2, "gid", None) = LastValue(l1, "gid", None)
    BY <1>5
  <2>2. LastValue(l3, "gid", None) = req.gid
    BY <1>6, <1>11, <2>1
  <2> QED BY <1>8, <2>2
<1> QED BY <1>1, <1>10, <1>12, <1>13 DEF ReadConfigFile

\* What an empty file says.
LEMMA NothingRead ==
    /\ Unset.uid = None /\ Unset.gid = None
    /\ Unset = ReadConfigFile(<<>>)
BY DEF Unset, ReadConfigFile, LastValue

\* What the parts of an artifact have to agree on.
Configured(a, c) ==
    /\ c.exec # NoExec /\ c.exec \in a.needs
    /\ c.mode \in {"monitor", "exec"}
    /\ c.mode = "monitor" <=> a.guest_rss_source = "InitWrapperSerial"
    /\ c.uid = a.guest_uid /\ c.gid = a.guest_gid

Agrees(a) ==
    /\ a.bootable \in BOOLEAN
    /\ a.init_path \in {"/app", "/init"}
    /\ a.guest_uid \in {None} \cup Nat /\ a.guest_gid \in {None} \cup Nat
    /\ a.bootable =>
         \/ ~a.linux
         \/ /\ a.init_path = "/init" => a.init_needs \subseteq a.files
            /\ a.needs \subseteq a.files \/ (a.init_path = "/init" /\ "/app.jar" \in a.files)
    /\ a.init_path = "/app" => a.guest_rss_source # "InitWrapperSerial"
    /\ a.init_path = "/init" => Configured(a, ReadConfigFile(a.conf))

\* Whatever is built of a request, its parts agree.
LEMMA BuiltAgrees ==
    ASSUME NEW req \in Requests
    PROVE  Agrees(Built(req))
<1> DEFINE a == Built(req)
           c == ReadConfigFile(a.conf)
<1> SUFFICES Agrees(a)
  OBVIOUS
<1>1. /\ req.uid \in {None} \cup Nat /\ req.gid \in {None} \cup Nat
      /\ req.dry_run \in BOOLEAN /\ req.init_mode \in {"monitor", "exec"}
      /\ req.mode \in {"native", "legacy"}
  BY BootAssumption DEF BootAssumption, Request
<1>2. a.guest_uid = req.uid /\ a.guest_gid = req.gid /\ a.bootable = ~req.dry_run
      /\ a.linux = req.linux /\ a.init_needs = InitNeeds(req)
  BY DEF Built
<1>3. CASE req.mode = "legacy"
  <2>1. /\ a.init_path = "/init" /\ a.guest_rss_source = "InitWrapperSerial"
        /\ a.conf = ConfigLines("/jre/bin/java", <<"-jar", "/app.jar">>, "monitor", req)
        /\ "/app.jar" \in a.files /\ WrapperFiles(req) \subseteq a.files
        /\ "/jre/bin/java" \in a.needs
    BY <1>3 DEF Built, StageLegacy, LegacyMode, AppNeeds
  <2>2. c.exec = "/jre/bin/java" /\ c.mode = "monitor" /\ c.uid = req.uid /\ c.gid = req.gid
    <3> HIDE DEF a
    <3> QED BY <2>1, ConfigRead
  <2> HIDE DEF a
  <2>3. Configured(a, c)
    BY <1>2, <2>1, <2>2 DEF Configured, NoExec
  <2>4. a.bootable /\ a.linux => a.init_needs \subseteq a.files
    BY <1>2, <2>1 DEF InitNeeds, ForLinux, WrapperFiles, Libraries
  <2> QED BY <1>1, <1>2, <2>1, <2>3, <2>4 DEF Agrees
<1>4. CASE req.mode # "legacy"
  <2>1. /\ a.needs = {"/app"} \cup req.libs.app \cup ForLinux(req)
        /\ a.files = StageNative(req).files
    BY <1>4 DEF Built, AppNeeds
  <2>2. ~req.dry_run /\ req.linux => a.needs \subseteq a.files
    BY <2>1 DEF StageNative, AppFiles, Libraries, ForLinux
  <2>3. CASE HasWrapper(req)
    <3>1. /\ a.init_path = "/init"
          /\ a.guest_rss_source = RssSource(req.init_mode)
          /\ a.conf = ConfigLines("/app", <<>>, req.init_mode, req)
      BY <1>4, <2>3 DEF Built, StageNative
    <3>2. c.exec = "/app" /\ c.mode = req.init_mode /\ c.uid = req.uid /\ c.gid = req.gid
      <4> HIDE DEF a
      <4> QED BY <1>1, <3>1, ConfigRead
    <3> HIDE DEF a
    <3>3. Configured(a, c)
      BY <1>1, <1>2, <2>1, <3>1, <3>2 DEF Configured, NoExec, RssSource
    <3>4. a.bootable /\ a.linux => a.init_needs \subseteq a.files
      BY <1>2, <2>1, <2>3 DEF StageNative, InitNeeds, ForLinux, WrapperFiles, Libraries
    <3> QED BY <1>1, <1>2, <2>2, <3>1, <3>3, <3>4 DEF Agrees
  <2>4. CASE ~HasWrapper(req)
    <3>1. a.init_path = "/app" /\ a.guest_rss_source = "Unavailable"
      BY <1>4, <2>4 DEF Built, StageNative
    <3> HIDE DEF a
    <3> QED BY <1>1, <1>2, <2>2, <3>1 DEF Agrees
  <2> QED BY <2>3, <2>4
<1> QED BY <1>3, <1>4

-----------------------------------------------------------------------------
(* The inductive invariant of everything but the console.                  *)

Early  == {"handlers", "mount", "config", "exec", "monitor"}
Places == {"off"} \cup Early \cup Loop \cup {"replaced", "exited"}

\* Nothing runs before there is an artifact, and its parts agree.
BuildInv ==
    /\ build \in {"asked", "built", "refused"}
    /\ build = "asked" => request \in Requests
    /\ build # "asked" => request = NoRequest
    /\ build = "built" => Agrees(artifact)
    /\ build # "built" => artifact = NoArtifact /\ pc = "off" /\ config = Unset
    /\ pc # "off" => artifact.bootable

PlaceInv ==
    /\ pc \in Places
    /\ vm \in {"off", "up", "paused", "gone"}
    /\ pc = "off" <=> vm = "off"
    /\ pc \in Early \cup Loop => artifact.init_path = "/init"
    /\ pc \in {"exec", "monitor"} \cup Loop => config = ReadConfigFile(artifact.conf)
    /\ pc = "exec" => config.mode = "exec"
    /\ pc \in {"monitor"} \cup Loop => config.mode = "monitor"
    /\ pc = "replaced" => artifact.guest_rss_source # "InitWrapperSerial"

ConfigInv ==
    config # Unset => config = ReadConfigFile(artifact.conf) /\ artifact.init_path = "/init"

AppType ==
    /\ app \in {"none", "running", "zombie", "reaped"}
    /\ status \in Codes \cup {Signalled, Running}
    /\ exit \in Codes \cup {125, 126, 127, Signalled, Running}
    /\ proc \in BOOLEAN /\ TERMINATE \in BOOLEAN /\ asked \in BOOLEAN
    /\ told \in BOOLEAN /\ broke \in BOOLEAN

ExitInv ==
    /\ pc \in {"off"} \cup Early => app = "none"
    /\ pc \in Loop => app \in Unreaped
    /\ pc = "replaced" => app = "running"
    /\ exit # Running => pc = "exited"
    /\ exit # Running =>
         /\ app = "reaped" => exit = status
         /\ app = "none" => exit \in {126, 127}
         /\ app \in Unreaped => exit = 125

AppInv == AppType /\ ExitInv

CredInv ==
    /\ cred.uid \in Nat /\ cred.gid \in Nat
    /\ DropsPrivileges

ControlInv == BuildInv /\ PlaceInv /\ ConfigInv /\ AppInv /\ CredInv /\ StartsUnless

\* One lemma for each action of the guest; they leave the host's variables alone.
LEMMA ControlInit == Init => ControlInv
<1> SUFFICES ASSUME Init PROVE ControlInv
  OBVIOUS
<1> USE DEF Init, InitGuest
<1>1. BuildInv
  BY DEF BuildInv
<1>2. PlaceInv
  BY DEF PlaceInv, Places, Early, Loop
<1>3. ConfigInv
  BY DEF ConfigInv
<1>4. AppInv
  BY DEF AppInv, AppType, ExitInv, Early, Loop, Running
<1>5. CredInv
  BY DEF CredInv, Root, DropsPrivileges
<1>6. StartsUnless
  BY DEF StartsUnless
<1> QED BY <1>1, <1>2, <1>3, <1>4, <1>5, <1>6 DEF ControlInv

\* The image built is one whose parts agree.
LEMMA ControlBuild == ASSUME ControlInv, Build PROVE ControlInv'
<1> USE DEF Build, console, appVars
<1>0. build = "asked" /\ pc = "off" /\ config = Unset /\ artifact = NoArtifact /\ app = "none"
  BY DEF ControlInv, BuildInv, AppInv, ExitInv
<1>1. BuildInv'
  <2>1. request \in Requests
    BY DEF ControlInv, BuildInv
  <2> QED BY <1>0, <2>1, BuiltAgrees DEF BuildInv
<1>2. PlaceInv'
  BY <1>0 DEF ControlInv, PlaceInv, Early, Loop
<1>3. ConfigInv'
  BY <1>0 DEF ConfigInv
<1>4. AppInv'
  <2>1. AppType'
    BY <1>0 DEF ControlInv, AppInv, AppType
  <2>2. ExitInv'
    BY <1>0 DEF ControlInv, AppInv, AppType, ExitInv
  <2> QED BY <2>1, <2>2 DEF AppInv
<1>5. CredInv'
  BY <1>0 DEF ControlInv, CredInv, DropsPrivileges
<1>6. StartsUnless'
  BY <1>0 DEF StartsUnless
<1> QED BY <1>1, <1>2, <1>3, <1>4, <1>5, <1>6 DEF ControlInv

\* A guest without the wrapper starts its application at once.
LEMMA ControlBoot == ASSUME ControlInv, Boot, UNCHANGED hostVars PROVE ControlInv'
<1> USE DEF Boot, console, hostVars
<1>0. /\ Agrees(artifact) /\ build = "built" /\ pc = "off" /\ app = "none" /\ artifact.bootable
      /\ exit = Running
  BY DEF ControlInv, BuildInv, AppInv, ExitInv, NoArtifact, PlaceInv, Places, Early
<1>1. BuildInv'
  BY <1>0 DEF ControlInv, BuildInv
<1>2. PlaceInv'
  BY <1>0 DEF ControlInv, PlaceInv, Places, Early, Loop, Agrees
<1>3. ConfigInv'
  BY <1>0 DEF ControlInv, ConfigInv
<1>4. AppInv'
  <2>1. AppType'
    BY <1>0 DEF ControlInv, AppInv, Early, Loop, AppType
  <2>2. ExitInv'
    BY <1>0 DEF ControlInv, AppInv, ExitInv, Early, Loop, AppType
  <2> QED BY <2>1, <2>2 DEF AppInv
<1>5. CredInv'
  BY <1>0 DEF ControlInv, CredInv, DropsPrivileges
<1>6. StartsUnless'
  BY <1>0 DEF ControlInv, StartsUnless, Agrees, CanStart, InitStarts
<1> QED BY <1>1, <1>2, <1>3, <1>4, <1>5, <1>6 DEF ControlInv

\* The steps that decide nothing: fvm-init goes on, a signal, a mount, the console,
\* the end of the VM.
LEMMA ControlMoves ==
    ASSUME ControlInv,
           UNCHANGED <<artifact, config, app, cred, status, exit, broke, request, build>>,
           proc' \in BOOLEAN, TERMINATE' \in BOOLEAN, asked' \in BOOLEAN, told' \in BOOLEAN,
           vm # "off", vm' \in {"up", "paused", "gone"},
           \/ pc' = pc \/ (pc \in Loop /\ pc' \in Loop)
           \/ <<pc, pc'>> \in {<<"handlers", "mount">>, <<"mount", "config">>}
    PROVE  ControlInv'
<1>1. BuildInv'
  BY DEF ControlInv, BuildInv, PlaceInv
<1>2. PlaceInv'
  BY DEF ControlInv, PlaceInv, Places, Early, Loop
<1>3. ConfigInv'
  BY DEF ControlInv, ConfigInv
<1>4. AppInv'
  <2>1. AppType'
    BY DEF ControlInv, AppInv, AppType
  <2>2. ExitInv'
    BY DEF ControlInv, AppInv, ExitInv, Early, Loop, Unreaped
  <2> QED BY <2>1, <2>2 DEF AppInv
<1>5. CredInv'
  BY DEF ControlInv, CredInv, DropsPrivileges
<1>6. StartsUnless'
  BY DEF ControlInv, StartsUnless, CanStart, InitStarts, Loop
<1> QED BY <1>1, <1>2, <1>3, <1>4, <1>5, <1>6 DEF ControlInv

\* The invariant is about the guest, its artifact and the request only.
LEMMA ControlStutter == ASSUME ControlInv, UNCHANGED <<vars, request, build>> PROVE ControlInv'
<1> USE DEF vars, appVars, console
<1>1. BuildInv'
  BY DEF ControlInv, BuildInv
<1>2. PlaceInv'
  BY DEF ControlInv, PlaceInv
<1>3. ConfigInv'
  BY DEF ControlInv, ConfigInv
<1>4. AppInv'
  BY DEF ControlInv, AppInv, AppType, ExitInv
<1>5. CredInv'
  BY DEF ControlInv, CredInv, DropsPrivileges
<1>6. StartsUnless'
  BY DEF ControlInv, StartsUnless, CanStart, InitStarts
<1> QED BY <1>1, <1>2, <1>3, <1>4, <1>5, <1>6 DEF ControlInv

\* What is read is what the artifact was configured with.
LEMMA ControlReadConfig == ASSUME ControlInv, ReadConfig, UNCHANGED hostVars PROVE ControlInv'
<1> USE DEF ReadConfig, Exit, Breaks, console, appVars, hostVars, Up
<1>0. Agrees(artifact) /\ artifact.init_path = "/init" /\ build = "built"
      /\ Configured(artifact, ReadConfigFile(artifact.conf)) /\ app = "none"
  BY DEF ControlInv, BuildInv, PlaceInv, AppInv, ExitInv, Early, Agrees
<1>1. BuildInv'
  BY <1>0 DEF ControlInv, BuildInv
<1>2. PlaceInv'
  BY <1>0 DEF ControlInv, PlaceInv, Places, Early, Loop, Configured
<1>3. ConfigInv'
  BY <1>0 DEF ControlInv, ConfigInv
<1>4. AppInv'
  <2>1. AppType'
    <3>1. app' \in {"none", "running", "zombie", "reaped"} /\ UNCHANGED <<proc, asked>>
      BY <1>0 DEF ControlInv, AppInv, Places, Early, Loop, Unreaped, Configured, AppType
    <3>2. exit' \in Codes \cup {125, 126, 127, Signalled, Running}
      BY <1>0 DEF ControlInv, AppInv, Places, Early, Loop, Unreaped, Configured, AppType
    <3>3. broke' \in BOOLEAN /\ TERMINATE' \in BOOLEAN /\ told' \in BOOLEAN
      BY <1>0 DEF ControlInv, AppInv, Places, Early, Loop, Unreaped, Configured, AppType
    <3>4. status' = status
      OBVIOUS
    <3> QED BY <3>1, <3>2, <3>3, <3>4 DEF ControlInv, AppInv, Places, Early, Loop, Unreaped, Configured, AppType
  <2>2. ExitInv'
    BY <1>0 DEF ControlInv, AppInv, ExitInv, Places, Early, Loop, Unreaped, Configured, AppType
  <2> QED BY <2>1, <2>2 DEF AppInv
<1>5. CredInv'
  BY <1>0 DEF ControlInv, CredInv, DropsPrivileges
<1>6. StartsUnless'
  BY <1>0 DEF ControlInv, StartsUnless, Configured
<1> QED BY <1>1, <1>2, <1>3, <1>4, <1>5, <1>6 DEF ControlInv

\* In exec mode nobody stays to measure, and the manifest does not claim so.
LEMMA ControlExec == ASSUME ControlInv, Exec, UNCHANGED hostVars PROVE ControlInv'
<1> USE DEF Exec, Exit, Breaks, Starts, StartFails, console, appVars, hostVars, Up
<1>0. /\ Agrees(artifact) /\ artifact.init_path = "/init" /\ build = "built" /\ artifact.bootable
      /\ Configured(artifact, config) /\ app = "none" /\ config = ReadConfigFile(artifact.conf)
      /\ config.mode = pc
  BY DEF ControlInv, BuildInv, PlaceInv, AppInv, ExitInv, Early, Agrees
<1>1. BuildInv'
  BY <1>0 DEF ControlInv, BuildInv
<1>2. PlaceInv'
  BY <1>0 DEF ControlInv, PlaceInv, Places, Early, Loop, Configured
<1>3. ConfigInv'
  BY <1>0 DEF ControlInv, ConfigInv
<1>4. AppInv'
  <2>1. AppType'
    <3>1. app' \in {"none", "running", "zombie", "reaped"} /\ UNCHANGED <<proc, asked>>
      BY <1>0 DEF ControlInv, AppInv, Places, Early, Loop, Unreaped, AppType
    <3>2. exit' \in Codes \cup {125, 126, 127, Signalled, Running}
      BY <1>0 DEF ControlInv, AppInv, Places, Early, Loop, Unreaped, AppType
    <3>3. broke' \in BOOLEAN /\ TERMINATE' \in BOOLEAN /\ told' \in BOOLEAN
      BY <1>0 DEF ControlInv, AppInv, Places, Early, Loop, Unreaped, AppType
    <3>4. status' = status
      OBVIOUS
    <3> QED BY <3>1, <3>2, <3>3, <3>4 DEF ControlInv, AppInv, Places, Early, Loop, Unreaped, AppType
  <2>2. ExitInv'
    BY <1>0 DEF ControlInv, AppInv, ExitInv, Places, Early, Loop, Unreaped, AppType
  <2> QED BY <2>1, <2>2 DEF AppInv
<1>5. CredInv'
  BY <1>0 DEF ControlInv, CredInv, DropsPrivileges, Configured, Dropped, Agrees
<1>6. StartsUnless'
  BY <1>0 DEF ControlInv, StartsUnless, Configured, Agrees, CanStart, InitStarts, Dropped
<1> QED BY <1>1, <1>2, <1>3, <1>4, <1>5, <1>6 DEF ControlInv

\* The child runs as configured; one that cannot be started ends fvm-init with 127.
LEMMA ControlSpawn == ASSUME ControlInv, Spawn, UNCHANGED hostVars PROVE ControlInv'
<1> USE DEF Spawn, Exit, Breaks, Starts, StartFails, console, appVars, hostVars, Up
<1>0. /\ Agrees(artifact) /\ artifact.init_path = "/init" /\ build = "built" /\ artifact.bootable
      /\ Configured(artifact, config) /\ app = "none" /\ config = ReadConfigFile(artifact.conf)
      /\ config.mode = pc
  BY DEF ControlInv, BuildInv, PlaceInv, AppInv, ExitInv, Early, Agrees
<1>1. BuildInv'
  BY <1>0 DEF ControlInv, BuildInv
<1>2. PlaceInv'
  BY <1>0 DEF ControlInv, PlaceInv, Places, Early, Loop, Configured
<1>3. ConfigInv'
  BY <1>0 DEF ControlInv, ConfigInv
<1>4. AppInv'
  <2>1. AppType'
    <3>1. app' \in {"none", "running", "zombie", "reaped"} /\ UNCHANGED <<proc, asked>>
      BY <1>0 DEF ControlInv, AppInv, Places, Early, Loop, Unreaped, AppType
    <3>2. exit' \in Codes \cup {125, 126, 127, Signalled, Running}
      BY <1>0 DEF ControlInv, AppInv, Places, Early, Loop, Unreaped, AppType
    <3>3. broke' \in BOOLEAN /\ TERMINATE' \in BOOLEAN /\ told' \in BOOLEAN
      BY <1>0 DEF ControlInv, AppInv, Places, Early, Loop, Unreaped, AppType
    <3>4. status' = status
      OBVIOUS
    <3> QED BY <3>1, <3>2, <3>3, <3>4 DEF ControlInv, AppInv, Places, Early, Loop, Unreaped, AppType
  <2>2. ExitInv'
    BY <1>0 DEF ControlInv, AppInv, ExitInv, Places, Early, Loop, Unreaped, AppType
  <2> QED BY <2>1, <2>2 DEF AppInv
<1>5. CredInv'
  BY <1>0 DEF ControlInv, CredInv, DropsPrivileges, Configured, Dropped, Agrees
<1>6. StartsUnless'
  BY <1>0 DEF ControlInv, StartsUnless, Configured, Agrees, CanStart, InitStarts, Dropped
<1> QED BY <1>1, <1>2, <1>3, <1>4, <1>5, <1>6 DEF ControlInv

\* The child is reaped once, and its code becomes fvm-init's.
LEMMA ControlWait == ASSUME ControlInv, Wait, UNCHANGED hostVars PROVE ControlInv'
<1> USE DEF Wait, Exit, Breaks, ChildEnded, Running, console, appVars, hostVars, Up
<1>1. BuildInv'
  BY DEF ControlInv, BuildInv
<1>2. PlaceInv'
  BY DEF ControlInv, PlaceInv, Places, Early, Loop
<1>3. ConfigInv'
  BY DEF ControlInv, ConfigInv
<1>4. AppInv'
  <2>1. AppType'
    <3>1. app' \in {"none", "running", "zombie", "reaped"} /\ UNCHANGED <<proc, asked>>
      BY DEF ControlInv, AppInv, Places, Early, Loop, Unreaped, AppType
    <3>2. exit' \in Codes \cup {125, 126, 127, Signalled, Running}
      BY DEF ControlInv, AppInv, Places, Early, Loop, Unreaped, AppType
    <3>3. broke' \in BOOLEAN /\ TERMINATE' \in BOOLEAN /\ told' \in BOOLEAN
      <4>1. broke' = TRUE \/ broke' = broke
        OBVIOUS
      <4>2. TERMINATE' = TERMINATE /\ told' = told
        OBVIOUS
      <4>3. broke \in BOOLEAN /\ TERMINATE \in BOOLEAN /\ told \in BOOLEAN
        BY DEF ControlInv, AppInv, AppType
      <4>4. broke' \in BOOLEAN
        BY <4>1, <4>3
      <4> QED BY <4>2, <4>3, <4>4
    <3>4. status' = status
      OBVIOUS
    <3> QED BY <3>1, <3>2, <3>3, <3>4 DEF ControlInv, AppInv, Places, Early, Loop, Unreaped, AppType
  <2>2. ExitInv'
    BY DEF ControlInv, AppInv, ExitInv, Places, Early, Loop, Unreaped, AppType
  <2> QED BY <2>1, <2>2 DEF AppInv
<1>5. CredInv'
  BY DEF ControlInv, CredInv, DropsPrivileges
<1>6. StartsUnless'
  BY DEF ControlInv, StartsUnless
<1> QED BY <1>1, <1>2, <1>3, <1>4, <1>5, <1>6 DEF ControlInv

\* As PID 1 the application takes the guest with it; else it stays a zombie.
LEMMA ControlAppLeaves == ASSUME ControlInv, AppLeaves, UNCHANGED hostVars PROVE ControlInv'
<1> USE DEF AppLeaves, Exit, AppEnds, Running, console, appVars, hostVars, Up
<1>1. BuildInv'
  BY DEF ControlInv, BuildInv
<1>2. PlaceInv'
  BY DEF ControlInv, PlaceInv, Places, Early, Loop
<1>3. ConfigInv'
  BY DEF ControlInv, ConfigInv
<1>4. AppInv'
  <2>1. AppType'
    BY DEF ControlInv, AppInv, Places, Early, Loop, Unreaped, AppType
  <2>2. ExitInv'
    BY DEF ControlInv, AppInv, ExitInv, Places, Early, Loop, Unreaped, AppType
  <2> QED BY <2>1, <2>2 DEF AppInv
<1>5. CredInv'
  BY DEF ControlInv, CredInv, DropsPrivileges
<1>6. StartsUnless'
  BY DEF ControlInv, StartsUnless
<1> QED BY <1>1, <1>2, <1>3, <1>4, <1>5, <1>6 DEF ControlInv

-----------------------------------------------------------------------------
(* The inductive invariant of the console.                                 *)

ConsoleType ==
    /\ serial \in Seq(Seq(Int)) /\ line \in Seq(Int)
    /\ rss \in Seq(RssValues) /\ Len(rss) <= MaxRss /\ writes \in 0 .. MaxAppWrites
    /\ reader \in {"reading", "ended"} /\ logged \in 0 .. Len(serial) + 1
    /\ reader = "reading" => logged <= Len(serial)

\* The numbers of a line that the application did not write.
Own(l) == {i \in DOMAIN l : l[i] \in Nat /\ l[i] \notin AppPieces}

\* At most one number of a line is fvm-init's, and it was measured.
OneNumber(l, measured) ==
    /\ \A i \in Own(l) : \E j \in DOMAIN measured : measured[j] = l[i]
    /\ \A i, j \in Own(l) : i = j

\* Only between its number and the end of its line has fvm-init a number in the
\* line it shares with the application.
LineInv ==
    /\ \A n \in DOMAIN serial : OneNumber(serial[n], rss)
    /\ OneNumber(line, rss)
    /\ pc # "end" => Own(line) = {}
    /\ pc \in {"key", "value"} => rss # <<>>

ConsoleInv == ConsoleType /\ LineInv

\* The console starts empty.
LEMMA ConsoleInit == Init => ConsoleInv
<1> SUFFICES ASSUME Init PROVE ConsoleInv
  OBVIOUS
<1> USE DEF Init, InitGuest
<1>1. ConsoleType
  <2>1. MaxRss \in Nat /\ MaxAppWrites \in Nat
    BY InitAssumption DEF InitAssumption
  <2> QED BY <2>1 DEF ConsoleType
<1>2. LineInv
  BY DEF LineInv, OneNumber, Own
<1> QED BY <1>1, <1>2 DEF ConsoleInv

\* A step that writes nothing.
LEMMA ConsoleQuiet ==
    ASSUME ConsoleInv, UNCHANGED <<console, logged, reader>>,
           pc' = pc \/ (pc # "end" /\ pc' \notin {"key", "value", "end"})
    PROVE  ConsoleInv'
<1> USE DEF console
<1>1. ConsoleType'
  BY DEF ConsoleInv, ConsoleType
<1>2. LineInv'
  BY DEF ConsoleInv, LineInv, OneNumber, Own
<1> QED BY <1>1, <1>2 DEF ConsoleInv

\* A write keeps the types, whoever writes.
LEMMA ConsoleTypeWritten ==
    ASSUME ConsoleType, NEW piece \in Int, Written(piece),
           UNCHANGED <<rss, reader, logged>>, writes' \in 0 .. MaxAppWrites
    PROVE  ConsoleType'
<1>1. /\ serial' \in Seq(Seq(Int)) /\ line' \in Seq(Int)
      /\ Len(serial) \in Nat /\ Len(serial') \in Nat /\ Len(serial) <= Len(serial')
  <2> DEFINE LineSet == Seq(Int)
  <2>1. serial \in Seq(LineSet) /\ line \in LineSet
    BY DEF ConsoleType
  <2>2. Append(line, piece) \in LineSet /\ <<>> \in LineSet
    BY <2>1
  <2> HIDE DEF LineSet
  <2>3. /\ serial' \in Seq(LineSet) /\ line' \in LineSet
        /\ Len(serial) \in Nat /\ Len(serial') \in Nat /\ Len(serial) <= Len(serial')
    <3>1. CASE serial' = Append(serial, line) /\ line' = <<>>
      <4>1. Append(serial, line) \in Seq(LineSet) /\ Len(Append(serial, line)) = Len(serial) + 1
        BY <2>1
      <4> QED BY <2>1, <2>2, <3>1, <4>1
    <3>2. CASE line' = Append(line, piece) /\ serial' = serial
      BY <2>1, <2>2, <3>2
    <3> QED BY <3>1, <3>2 DEF Written
  <2> QED BY <2>3 DEF LineSet
<1> QED BY <1>1 DEF ConsoleType

\* A piece appended is the only one that may be added to the numbers.
LEMMA OwnAppended ==
    ASSUME NEW l \in Seq(Int), NEW piece \in Int
    PROVE  /\ piece \in AppPieces \/ piece \notin Nat => Own(Append(l, piece)) = Own(l)
           /\ Own(Append(l, piece)) \subseteq Own(l) \cup {Len(l) + 1}
           /\ \A i \in Own(l) : Append(l, piece)[i] = l[i]
           /\ Append(l, piece)[Len(l) + 1] = piece
<1> DEFINE t == Append(l, piece)
           n == Len(l)
<1>1. /\ n \in Nat /\ DOMAIN l = 1 .. n /\ DOMAIN t = 1 .. (n + 1) /\ t[n + 1] = piece
      /\ \A i \in 1 .. n : t[i] = l[i]
  OBVIOUS
<1> HIDE DEF t, n
<1>2. \A i \in 1 .. (n + 1) : i = n + 1 \/ i \in 1 .. n
  BY <1>1
<1>3. \A i \in 1 .. n : i \in 1 .. (n + 1)
  BY <1>1
<1>4. piece \in AppPieces \/ piece \notin Nat => Own(t) = Own(l)
  BY <1>1, <1>2, <1>3 DEF Own
<1>5. Own(t) \subseteq Own(l) \cup {n + 1}
  BY <1>1, <1>2 DEF Own
<1>6. \A i \in Own(l) : t[i] = l[i]
  BY <1>1 DEF Own
<1> QED BY <1>1, <1>4, <1>5, <1>6 DEF t, n

\* A piece that is no number of fvm-init's, whoever writes it.
LEMMA ForeignWritten ==
    ASSUME ConsoleInv, NEW piece \in Int, piece \in AppPieces \/ piece \notin Nat,
           Written(piece), UNCHANGED rss
    PROVE  /\ \A n \in DOMAIN serial' : OneNumber(serial'[n], rss')
           /\ OneNumber(line', rss')
           /\ Own(line) = {} \/ piece = NewLine => Own(line') = {}
<1>1. /\ serial \in Seq(Seq(Int)) /\ line \in Seq(Int)
      /\ \A n \in DOMAIN serial : OneNumber(serial[n], rss)
      /\ OneNumber(line, rss)
  BY DEF ConsoleInv, ConsoleType, LineInv
<1>2. CASE piece = NewLine
  <2>1. serial' = Append(serial, line) /\ line' = <<>>
    BY <1>2 DEF Written
  <2>2. \A n \in DOMAIN serial' : serial'[n] = line \/ (n \in DOMAIN serial /\ serial'[n] = serial[n])
    BY <1>1, <2>1
  <2>3. \A n \in DOMAIN serial' : OneNumber(serial'[n], rss')
    BY <1>1, <2>2
  <2>4. Own(line') = {}
    BY <2>1 DEF Own
  <2> QED BY <2>3, <2>4 DEF OneNumber
<1>3. CASE piece # NewLine
  <2>1. line' = Append(line, piece) /\ serial' = serial
    BY <1>3 DEF Written
  <2>2. Own(line') = Own(line) /\ \A i \in Own(line) : line'[i] = line[i]
    BY <1>1, <2>1, OwnAppended
  <2>3. OneNumber(line', rss')
    BY <1>1, <2>2 DEF OneNumber
  <2> QED BY <1>1, <1>3, <2>1, <2>2, <2>3
<1> QED BY <1>2, <1>3

\* A measurement only adds to what a number may stand for.
LEMMA ConsoleMeasure == ASSUME ConsoleInv, Measure, UNCHANGED hostVars PROVE ConsoleInv'
<1> USE DEF Measure, hostVars, Up
<1>0. rss \in Seq(RssValues) /\ ConsoleType /\ LineInv
  BY DEF ConsoleInv, ConsoleType
<1>1. CASE UNCHANGED rss
  BY <1>1, ConsoleQuiet DEF console
<1>2. CASE Len(rss) < MaxRss /\ pc' = "key" /\ \E r \in RssValues : rss' = Append(rss, r)
  <2>1. PICK r \in RssValues : rss' = Append(rss, r)
    BY <1>2
  <2>2. /\ rss' \in Seq(RssValues) /\ Len(rss') = Len(rss) + 1 /\ rss' # <<>>
        /\ \A j \in DOMAIN rss : j \in DOMAIN rss' /\ rss'[j] = rss[j]
    BY <1>0, <2>1
  <2>3. ConsoleType'
    <3>1. MaxRss \in Nat /\ Len(rss) \in Nat
      BY <1>0, InitAssumption DEF InitAssumption
    <3> QED BY <1>0, <1>2, <2>2, <3>1 DEF ConsoleType
  <2>4. ASSUME NEW l, OneNumber(l, rss) PROVE OneNumber(l, rss')
    BY <2>2, <2>4 DEF OneNumber
  <2>5. LineInv'
    <3>1. Own(line) = {}
      BY <1>0 DEF LineInv
    <3> QED BY <1>0, <1>2, <2>2, <2>4, <3>1 DEF LineInv
  <2> QED BY <2>3, <2>5 DEF ConsoleInv
<1> QED BY <1>1, <1>2

\* The three writes of eprintln, and whatever came between them.
LEMMA ConsolePrint == ASSUME ConsoleInv, PrintRss, UNCHANGED hostVars PROVE ConsoleInv'
<1> USE DEF hostVars
<1>0. /\ ConsoleType /\ LineInv /\ UNCHANGED <<rss, writes, reader, logged>>
      /\ RssValues \subseteq Nat /\ writes' \in 0 .. MaxAppWrites
  BY InitAssumption DEF InitAssumption, ConsoleInv, ConsoleType, PrintRss
<1>1. CASE pc = "key" /\ Written(Key) /\ pc' = "value"
  <2>1. Key \in Int /\ Key \notin Nat
    BY DEF Key
  <2>2. ConsoleType'
    BY <1>0, <1>1, <2>1, ConsoleTypeWritten
  <2>3. Own(line) = {} /\ rss # <<>>
    BY <1>0, <1>1 DEF LineInv
  <2>4. /\ \A n \in DOMAIN serial' : OneNumber(serial'[n], rss')
        /\ OneNumber(line', rss') /\ Own(line') = {}
    BY <1>0, <1>1, <2>1, <2>3, ForeignWritten
  <2> QED BY <1>0, <1>1, <2>2, <2>3, <2>4 DEF ConsoleInv, LineInv
<1>2. CASE pc = "end" /\ Written(NewLine) /\ pc' = "sleep"
  <2>1. NewLine \in Int /\ NewLine \notin Nat
    BY DEF NewLine
  <2>2. ConsoleType'
    BY <1>0, <1>2, <2>1, ConsoleTypeWritten
  <2>4. /\ \A n \in DOMAIN serial' : OneNumber(serial'[n], rss')
        /\ OneNumber(line', rss') /\ Own(line') = {}
    BY <1>0, <1>2, <2>1, ForeignWritten
  <2> QED BY <1>2, <2>2, <2>4 DEF ConsoleInv, LineInv
<1>3. CASE pc = "value" /\ Written(rss[Len(rss)]) /\ pc' = "end"
  <2> DEFINE r == rss[Len(rss)]
  <2>1. Own(line) = {} /\ Len(rss) \in DOMAIN rss /\ r \in Nat /\ r # NewLine
    <3>1. Own(line) = {} /\ rss # <<>> /\ rss \in Seq(RssValues)
      BY <1>0, <1>3 DEF LineInv, ConsoleType
    <3>2. Len(rss) \in DOMAIN rss /\ r \in RssValues
      BY <3>1
    <3>3. \A n \in Nat : n # NewLine
      BY DEF NewLine
    <3> HIDE DEF r
    <3> QED BY <1>0, <3>1, <3>2, <3>3
  <2>2. line' = Append(line, r) /\ serial' = serial
    BY <1>3, <2>1 DEF Written
  <2>3. ConsoleType'
    BY <1>0, <1>3, <2>1, ConsoleTypeWritten
  <2>4. /\ Own(line') \subseteq {Len(line) + 1} /\ line'[Len(line) + 1] = r
    <3> HIDE DEF r
    <3>1. line \in Seq(Int) /\ r \in Int
      BY <1>0, <2>1 DEF ConsoleType
    <3> QED BY <2>1, <2>2, <3>1, OwnAppended
  <2>5. OneNumber(line', rss')
    BY <1>0, <2>1, <2>4 DEF OneNumber
  <2> QED BY <1>0, <1>3, <2>2, <2>3, <2>5 DEF ConsoleInv, LineInv
<1> QED BY <1>1, <1>2, <1>3 DEF PrintRss

\* The application adds no number of fvm-init's.
LEMMA ConsoleAppWrites == ASSUME ConsoleInv, AppWrites, UNCHANGED hostVars PROVE ConsoleInv'
<1> USE DEF hostVars
<1>0. /\ ConsoleType /\ LineInv /\ UNCHANGED <<rss, reader, logged, pc>>
      /\ AppPieces \subseteq Int
  BY InitAssumption DEF InitAssumption, ConsoleInv, AppWrites
<1>1. PICK piece \in AppPieces : Written(piece)
  BY DEF AppWrites
<1>2. writes' \in 0 .. MaxAppWrites
  BY <1>0, InitAssumption DEF AppWrites, InitAssumption, ConsoleType
<1>3. ConsoleType'
  BY <1>0, <1>1, <1>2, ConsoleTypeWritten
<1>4. /\ \A n \in DOMAIN serial' : OneNumber(serial'[n], rss')
      /\ OneNumber(line', rss') /\ (Own(line) = {} => Own(line') = {})
  BY <1>0, <1>1, ForeignWritten
<1> QED BY <1>0, <1>3, <1>4 DEF ConsoleInv, LineInv

\* The reader thread takes lines that are there.
LEMMA ConsoleRead == ASSUME ConsoleInv, ReadLog PROVE ConsoleInv'
<1>0. ConsoleType /\ LineInv /\ UNCHANGED <<console, pc>> /\ Len(serial) \in Nat
  BY DEF ConsoleInv, ConsoleType, ReadLog, vars
<1>1. /\ logged' \in 0 .. Len(serial) + 1 /\ reader' \in {"reading", "ended"}
      /\ reader' = "reading" => logged' <= Len(serial)
  BY <1>0 DEF ReadLog, Forwarded, ConsoleType
<1>2. ConsoleType'
  BY <1>0, <1>1 DEF ConsoleType, console
<1>3. LineInv'
  BY <1>0 DEF LineInv, console
<1> QED BY <1>2, <1>3 DEF ConsoleInv

-----------------------------------------------------------------------------
(* The invariant of the whole.                                             *)

BootInv == ControlInv /\ ConsoleInv

\* Initially.
LEMMA BootInit == Init => BootInv
BY ControlInit, ConsoleInit DEF BootInv

\* Every step keeps both invariants; one case for each action.
LEMMA BootStep == ASSUME BootInv, [Next]_allVars PROVE BootInv'
<1> USE DEF BootInv
<1>0. /\ proc \in BOOLEAN /\ TERMINATE \in BOOLEAN /\ asked \in BOOLEAN /\ told \in BOOLEAN
      /\ vm \in {"off", "up", "paused", "gone"}
  BY DEF ControlInv, AppInv, AppType, PlaceInv
<1>1. CASE Build
  <2>1. ControlInv'
    BY <1>1, ControlBuild
  <2>2. ConsoleInv'
    BY <1>1, ConsoleQuiet DEF Build
  <2> QED BY <2>1, <2>2
<1>2. CASE InGuest
  <2>0. UNCHANGED hostVars /\ UNCHANGED <<logged, reader, request, build>>
    BY <1>2 DEF InGuest, hostVars
  <2>1. CASE Boot
    <3>1. pc = "off"
      BY <2>1 DEF Boot, ControlInv, PlaceInv
    <3> QED BY <2>0, <2>1, <3>1, ControlBoot, ConsoleQuiet DEF Boot, console
  <2>2. CASE InstallHandlers
    <3> USE DEF InstallHandlers, Up
    <3>1. ControlInv'
      BY <1>0, <2>0, <2>2, ControlMoves DEF appVars, console, Loop
    <3> QED BY <2>0, <2>2, <3>1, ConsoleQuiet
  <2>3. CASE MountFilesystems
    <3> USE DEF MountFilesystems, Up
    <3>1. ControlInv'
      BY <1>0, <2>0, <2>3, ControlMoves DEF appVars, console, Loop
    <3> QED BY <2>0, <2>3, <3>1, ConsoleQuiet
  <2>4. CASE ReadConfig
    <3>1. ControlInv'
      BY <2>0, <2>4, ControlReadConfig
    <3>2. pc' \in {"exec", "monitor", "exited"}
      <4>1. Configured(artifact, ReadConfigFile(artifact.conf))
        BY <2>4 DEF ReadConfig, Up, ControlInv, BuildInv, PlaceInv, Early, Agrees
      <4> QED BY <2>4, <4>1 DEF ReadConfig, Breaks, Exit, Configured
    <3> QED BY <2>0, <2>4, <3>1, <3>2, ConsoleQuiet DEF ReadConfig, Up
  <2>5. CASE Exec
    BY <2>0, <2>5, ControlExec, ConsoleQuiet DEF Exec, Up, Starts, StartFails, Exit, Breaks
  <2>6. CASE Spawn
    BY <2>0, <2>6, ControlSpawn, ConsoleQuiet DEF Spawn, Up, Starts, StartFails, Exit, Breaks
  <2>7. CASE Forward
    <3> USE DEF Forward, Up
    <3>1. ControlInv'
      BY <1>0, <2>0, <2>7, ControlMoves DEF appVars, console, Loop
    <3> QED BY <2>0, <2>7, <3>1, ConsoleQuiet
  <2>8. CASE Wait
    BY <2>0, <2>8, ControlWait, ConsoleQuiet DEF Wait, Up, ChildEnded, Exit, Breaks
  <2>9. CASE Measure
    <3>1. ControlInv'
      BY <1>0, <2>0, <2>9, ControlMoves DEF Measure, Up, appVars, console, Loop
    <3> QED BY <2>0, <2>9, <3>1, ConsoleMeasure
  <2>10. CASE PrintRss
    <3>1. ControlInv'
      BY <1>0, <2>0, <2>10, ControlMoves DEF PrintRss, Up, appVars, console, Loop
    <3> QED BY <2>0, <2>10, <3>1, ConsolePrint
  <2>11. CASE Sleep
    <3> USE DEF Sleep, Up
    <3>1. ControlInv'
      BY <1>0, <2>0, <2>11, ControlMoves DEF appVars, console, Loop
    <3> QED BY <2>0, <2>11, <3>1, ConsoleQuiet
  <2>12. CASE Signal
    <3> USE DEF Signal
    <3>1. ControlInv'
      BY <1>0, <2>0, <2>12, ControlMoves DEF appVars, console, Loop
    <3> QED BY <2>0, <2>12, <3>1, ConsoleQuiet
  <2>13. CASE AppWrites
    <3>1. ControlInv'
      BY <1>0, <2>0, <2>13, ControlMoves DEF AppWrites, Up, appVars, console, Loop
    <3> QED BY <2>0, <2>13, <3>1, ConsoleAppWrites
  <2>14. CASE AppLeaves
    <3>1. UNCHANGED console /\ (pc' = pc \/ (pc = "replaced" /\ pc' = "exited"))
      BY <2>14 DEF AppLeaves, AppEnds, Exit
    <3> QED BY <2>0, <2>14, <3>1, ControlAppLeaves, ConsoleQuiet
  <2>15. CASE Panic
    <3> USE DEF Panic, Up
    <3>1. ControlInv'
      BY <1>0, <2>0, <2>15, ControlMoves DEF appVars, console, Loop
    <3> QED BY <2>0, <2>15, <3>1, ConsoleQuiet
  <2> QED BY <1>2, <2>1, <2>2, <2>3, <2>4, <2>5, <2>6, <2>7, <2>8, <2>9, <2>10, <2>11,
             <2>12, <2>13, <2>14, <2>15 DEF InGuest, Guest, InitProcess
<1>3. CASE Shutdown
  <2>1. ControlInv'
    BY <1>0, <1>3, ControlMoves DEF Shutdown, appVars, console, hostVars
  <2>2. ConsoleInv'
    BY <1>3, ConsoleQuiet DEF Shutdown, hostVars
  <2> QED BY <2>1, <2>2
<1>4. CASE ReadLog
  <2>1. ControlInv'
    <3>1. UNCHANGED <<vars, request, build>>
      BY <1>4 DEF ReadLog
    <3> QED BY <3>1, ControlStutter
  <2>2. ConsoleInv'
    BY <1>4, ConsoleRead
  <2> QED BY <2>1, <2>2
<1>5. CASE UNCHANGED allVars
  BY <1>5, ControlStutter, ConsoleQuiet DEF allVars, hostVars, vars
<1> QED BY <1>1, <1>2, <1>3, <1>4, <1>5 DEF Next, Over

\* BootInv holds throughout, from the request to the end of the guest.
THEOREM BootInvariance == Spec => []BootInv
<1>1. Init => BootInv
  BY BootInit
<1>2. BootInv /\ [Next]_allVars => BootInv'
  BY BootStep
<1> QED BY <1>1, <1>2, PTL DEF Spec

-----------------------------------------------------------------------------
(* What the invariant says of the guest.                                   *)

\* fvm-init waits for, signals and answers for its own child only.
THEOREM ChildIsAccountedFor == Spec => []ChildAccountedFor
<1>1. ASSUME BootInv PROVE ChildAccountedFor
  <2>1. AppType /\ ExitInv /\ BuildInv /\ PlaceInv /\ ConfigInv /\ CredInv /\ ConsoleType
    BY <1>1 DEF BootInv, ControlInv, AppInv, ConsoleInv
  <2>2. config.uid \in {None} \cup Nat /\ config.gid \in {None} \cup Nat
    <3>1. CASE config = Unset
      BY <3>1, NothingRead
    <3>2. CASE config # Unset
      <4>1. Configured(artifact, config) /\ Agrees(artifact)
        BY <2>1, <3>2 DEF ConfigInv, BuildInv, Agrees
      <4> QED BY <4>1 DEF Configured, Agrees
    <3> QED BY <3>1, <3>2
  <2>3. TypeOK
    <3>1. /\ build \in {"asked", "built", "refused"} /\ (build = "asked" \/ request = NoRequest)
          /\ vm \in {"off", "up", "paused", "gone"}
      BY <2>1 DEF BuildInv, PlaceInv
    <3>2. pc \in {"off", "handlers", "mount", "config", "exec", "replaced", "monitor", "exited"} \cup Loop
      BY <2>1 DEF PlaceInv, Places, Early
    <3>3. /\ cred.uid \in Nat /\ cred.gid \in Nat
      BY <2>1 DEF CredInv
    <3> QED BY <2>1, <2>2, <3>1, <3>2, <3>3 DEF TypeOK, AppType, ConsoleType
  <2> QED BY <2>1, <2>3 DEF ChildAccountedFor, ExitInv
<1> QED BY <1>1, BootInvariance, PTL

\* The image of every build holds what its guest starts.
THEOREM GuestStarts == Spec => []StartsUnless
<1>1. BootInv => StartsUnless
  BY DEF BootInv, ControlInv
<1> QED BY <1>1, BootInvariance, PTL

\* The application has the user and group of the manifest.
THEOREM PrivilegesDropped == Spec => []DropsPrivileges
<1>1. BootInv => DropsPrivileges
  BY DEF BootInv, ControlInv, CredInv
<1> QED BY <1>1, BootInvariance, PTL

\* The manifest's source of RSS is the one the guest has.
THEOREM RssSourceIsTrue == Spec => []SourceIsTrue
<1>1. ASSUME BootInv PROVE SourceIsTrue
  <2> SUFFICES ASSUME app # "none", pc # "exited"
               PROVE  artifact.guest_rss_source = "InitWrapperSerial" <=> pc \in Loop
    BY DEF SourceIsTrue
  <2>1. PlaceInv /\ ExitInv /\ BuildInv
    BY <1>1 DEF BootInv, ControlInv, AppInv
  <2>2. pc = "replaced" \/ pc \in Loop
    BY <2>1 DEF PlaceInv, ExitInv, Places
  <2>3. CASE pc = "replaced"
    BY <2>1, <2>3 DEF PlaceInv, Loop
  <2>4. CASE pc \in Loop
    <3>1. pc # "off"
      BY <2>4 DEF Loop
    <3>2. Configured(artifact, config) /\ config.mode = "monitor"
      BY <2>1, <2>4, <3>1 DEF PlaceInv, BuildInv, Agrees
    <3> QED BY <2>4, <3>2 DEF Configured
  <2> QED BY <2>2, <2>3, <2>4
<1> QED BY <1>1, BootInvariance, PTL

\* A line with one number of fvm-init's gives it.
LEMMA MeasuredInLine ==
    ASSUME NEW l \in Seq(Int), NEW m, OneNumber(l, m), Digits(l) # <<>>
    PROVE  \/ \E j \in DOMAIN m : Digits(l) = <<m[j]>>
           \/ \E i \in DOMAIN Digits(l) : Digits(l)[i] \in AppPieces
<1> SUFFICES ASSUME \A i \in DOMAIN Digits(l) : Digits(l)[i] \notin AppPieces
             PROVE  \E j \in DOMAIN m : Digits(l) = <<m[j]>>
  OBVIOUS
<1> DEFINE n == Len(l)
<1>1. /\ n \in Nat /\ n > 1 /\ DOMAIN l = 1 .. n /\ \A i \in 2 .. n : l[i] \in Nat
      /\ Digits(l) = Tail(l)
  BY DEF Digits
<1>2. /\ Len(Tail(l)) = n - 1 /\ DOMAIN Tail(l) = 1 .. (n - 1) /\ Tail(l) \in Seq(Int)
      /\ \A i \in 1 .. (n - 1) : Tail(l)[i] = l[i + 1]
  BY <1>1
<1> HIDE DEF n
<1>3. \A i \in 2 .. n : i \in Own(l)
  <2> SUFFICES ASSUME NEW i \in 2 .. n PROVE i \in Own(l)
    OBVIOUS
  <2>1. i - 1 \in 1 .. (n - 1) /\ (i - 1) + 1 = i /\ i \in 1 .. n
    BY <1>1
  <2>2. Tail(l)[i - 1] = l[i]
    BY <1>2, <2>1
  <2>3. l[i] \notin AppPieces
    BY <1>1, <1>2, <2>1, <2>2
  <2> QED BY <1>1, <2>1, <2>3 DEF Own
<1>4. n = 2
  <2>1. n \in 2 .. n /\ 2 \in 2 .. n
    BY <1>1
  <2> QED BY <1>3, <2>1 DEF OneNumber
<1>5. PICK j \in DOMAIN m : m[j] = l[2]
  <2>1. 2 \in Own(l)
    BY <1>3, <1>4
  <2> QED BY <2>1 DEF OneNumber
<1>6. Tail(l) = <<l[2]>>
  <2> DEFINE t == Tail(l)
  <2>1. t \in Seq(Int) /\ Len(t) = 1 /\ t[1] = l[2]
    BY <1>2, <1>4
  <2> HIDE DEF t
  <2>2. t = <<l[2]>>
    BY <2>1
  <2> QED BY <2>2 DEF t
<1> QED BY <1>1, <1>5, <1>6

\* The number the host takes from the console is one fvm-init measured, whatever the
\* application writes around it, unless it writes digits alone into the line.
THEOREM RssIsMeasured == Spec => []RssWasMeasured
<1>1. ASSUME BootInv PROVE RssWasMeasured
  <2> DEFINE all == Append(serial, line)
             at == {i \in DOMAIN Log : Digits(Log[i]) # <<>>}
             k == Latest(at)
  <2>1. ConsoleType /\ LineInv
    BY <1>1 DEF BootInv, ConsoleInv
  <2>2. /\ all \in Seq(Seq(Int)) /\ logged \in Nat /\ logged <= Len(all)
        /\ \A n \in DOMAIN all : OneNumber(all[n], rss)
    <3>1. /\ Len(serial) \in Nat /\ Len(all) = Len(serial) + 1 /\ DOMAIN all = 1 .. (Len(serial) + 1)
          /\ all \in Seq(Seq(Int)) /\ DOMAIN serial = 1 .. Len(serial)
          /\ all[Len(serial) + 1] = line
          /\ \A n \in 1 .. Len(serial) : all[n] = serial[n]
      <4> DEFINE LineSet == Seq(Int)
      <4>1. serial \in Seq(LineSet) /\ line \in LineSet
        BY <2>1 DEF ConsoleType
      <4> HIDE DEF LineSet
      <4>2. all \in Seq(LineSet)
        BY <4>1
      <4> QED BY <4>1, <4>2 DEF LineSet
    <3> HIDE DEF all
    <3>2. \A n \in 1 .. (Len(serial) + 1) : n = Len(serial) + 1 \/ n \in 1 .. Len(serial)
      BY <3>1
    <3>3. logged \in Nat /\ logged <= Len(serial) + 1
      BY <2>1, <3>1 DEF ConsoleType
    <3>4. \A n \in 1 .. Len(serial) : OneNumber(serial[n], rss)
      BY <2>1, <3>1 DEF LineInv
    <3>5. ASSUME NEW n \in 1 .. (Len(serial) + 1) PROVE OneNumber(all[n], rss)
      <4>1. CASE n = Len(serial) + 1
        BY <2>1, <3>1, <4>1 DEF LineInv
      <4>2. CASE n \in 1 .. Len(serial)
        <5>1. all[n] = serial[n]
          BY <3>1, <4>2
        <5> QED BY <3>4, <4>2, <5>1
      <4> QED BY <3>2, <4>1, <4>2
    <3> QED BY <3>1, <3>3, <3>5
  <2> HIDE DEF all
  <2>3. /\ DOMAIN Log = 1 .. logged
        /\ \A i \in 1 .. logged : Log[i] \in Seq(Int) /\ OneNumber(Log[i], rss)
    <3> DEFINE LineSet == Seq(Int)
    <3>1. all \in Seq(LineSet)
      BY <2>2
    <3>2. Log = SubSeq(all, 1, logged)
      BY DEF Log, all
    <3> HIDE DEF LineSet
    <3>3. DOMAIN Log = 1 .. logged /\ \A i \in 1 .. logged : Log[i] = all[i] /\ i \in DOMAIN all
      BY <2>2, <3>1, <3>2
    <3>4. \A i \in DOMAIN all : all[i] \in LineSet
      BY <3>1
    <3> QED BY <2>2, <3>3, <3>4 DEF LineSet
  <2>4. CASE at = {}
    BY <2>4 DEF RssWasMeasured, GuestRss
  <2>5. CASE at # {}
    <3>1. k \in at
      <4>1. at \subseteq 0 .. logged
        BY <2>2, <2>3
      <4> HIDE DEF at
      <4> QED BY <2>2, <2>5, <4>1, LatestExists
    <3>2. Log[k] \in Seq(Int) /\ OneNumber(Log[k], rss) /\ Digits(Log[k]) # <<>>
      <4> HIDE DEF k
      <4> QED BY <2>3, <3>1
    <3>3. GuestRss = Digits(Log[k])
      BY <2>5 DEF GuestRss
    <3> HIDE DEF k, at
    <3>4. \/ \E j \in DOMAIN rss : GuestRss = <<rss[j]>>
          \/ \E i \in DOMAIN GuestRss : GuestRss[i] \in AppPieces
      BY <3>2, <3>3, MeasuredInLine
    <3> QED BY <3>4 DEF RssWasMeasured
  <2> QED BY <2>4, <2>5
<1> QED BY <1>1, BootInvariance, PTL
================================================================================
