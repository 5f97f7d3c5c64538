------------------------- MODULE VmLifecycleProofs -------------------------
(***************************************************************************)
(* Proofs about VmLifecycle, for any number of commands, host ports and    *)
(* interface names.                                                        *)
(***************************************************************************)
EXTENDS VmLifecycle, TLAPS

\* The calls a command can be at, written out for the provers.
LEMMA LabelList ==
  Labels =
    {"mkdir", "tap_add", "addr_add", "link_up", "neigh", "bind",
     "config", "spawn", "api_socket", "snap_load", "cgroup",
     "readiness", "probe_read", "record", "serve", "snap_create", "sd_kill",
     "sd_down", "sd_del", "drop_kill", "drop_down", "drop_del",
     "drop_dir", "drop_fwd", "u_fwd", "u_down", "u_del", "u_dir",
     "finish", "exit_ok", "exit_err", "killed"}
BY DEF Labels, LaunchLabels, RunLabels, StopLabels, DropLabels, UnwindLabels, Exits

\* Every name a process can produce is an interface name.
LEMMA NamesAreTaps == \A p \in Procs : NamesOf[p] \subseteq TapNames
BY ConstantsAssumption

\* A command line starts at least one VM, and the loop of run over its launches
\* never indexes past the last.
LEMMA PlansHaveLaunches ==
  ASSUME NEW pl \in Plans
  PROVE  /\ 1 \in DOMAIN pl.launches
         /\ \A i \in DOMAIN pl.launches :
               /\ i < Len(pl.launches) => i + 1 \in DOMAIN pl.launches
               /\ pl.launches[i] \in Launch
<1>1. pl.launches \in Seq(Launch) /\ pl.launches # <<>>
      BY ConstantsAssumption DEF Plan
<1> QED BY <1>1

\* The type invariant holds in every reachable state.
LEMMA TypeStep == TypeOK /\ [Next]_vars => TypeOK'
<1> SUFFICES ASSUME TypeOK, [Next]_vars PROVE TypeOK'
    OBVIOUS
<1> USE LabelList DEF TypeOK
<1>1. CASE UNCHANGED vars
      BY <1>1 DEF vars, procVars, hostVars, tapVars
<1>2. ASSUME NEW p \in Procs, MkRunDir(p) PROVE TypeOK'
      BY <1>2 DEF MkRunDir, Continue, Fail, Goto, tapVars, FcStates
<1>3. ASSUME NEW p \in Procs, NameTap(p) PROVE TypeOK'
      BY <1>3, NamesAreTaps DEF NameTap, Continue, Goto, hostVars, tapVars
<1>4. ASSUME NEW p \in Procs, TapAdd(p) PROVE TypeOK'
  <2>1. /\ pc' \in [Procs -> Labels] /\ failedAt' \in [Procs -> Labels \cup {"none"}]
        /\ name' \in [Procs -> TapNames \cup {NoTap}]
        BY <1>4, NamesAreTaps DEF TapAdd, Continue, Fail, Goto
  <2>2. /\ owner' \in [TapNames -> Procs \cup {NoProc}]
        /\ link' \in [TapNames -> {"down", "addressed", "up"}]
        BY <1>4, NamesAreTaps DEF TapAdd
  <2> QED BY <1>4, <2>1, <2>2 DEF TapAdd
<1>5. ASSUME NEW p \in Procs, AddrAdd(p) PROVE TypeOK'
      BY <1>5 DEF AddrAdd, Continue, Fail, Goto
<1>6. ASSUME NEW p \in Procs, LinkUp(p) PROVE TypeOK'
      BY <1>6 DEF LinkUp, Continue, Fail, Goto
<1>7. ASSUME NEW p \in Procs, Neigh(p) PROVE TypeOK'
      BY <1>7 DEF Neigh, Continue, Fail, Goto, hostVars, tapVars
<1>8. ASSUME NEW p \in Procs, Bind(p) PROVE TypeOK'
      BY <1>8 DEF Bind, Continue, Fail, Goto, tapVars
<1>9. ASSUME NEW p \in Procs, WriteConfig(p) PROVE TypeOK'
      BY <1>9 DEF WriteConfig, Continue, Fail, Goto, hostVars, tapVars
<1>10. ASSUME NEW p \in Procs, Spawn(p) PROVE TypeOK'
      BY <1>10 DEF Spawn, Continue, Fail, Goto, tapVars, FcStates
<1>11. ASSUME NEW p \in Procs, ApiSocket(p) PROVE TypeOK'
      BY <1>11 DEF ApiSocket, Continue, Fail, Goto, hostVars, tapVars
<1>12. ASSUME NEW p \in Procs, SnapLoad(p) PROVE TypeOK'
      BY <1>12 DEF SnapLoad, Continue, Fail, Goto, hostVars, tapVars
<1>13. ASSUME NEW p \in Procs, ApplyCgroups(p) PROVE TypeOK'
      BY <1>13 DEF ApplyCgroups, Continue, Fail, Goto, tapVars
<1>14. ASSUME NEW p \in Procs, Readiness(p) PROVE TypeOK'
  <2>1. AfterReady(p) \in Labels
        BY DEF AfterReady
  <2>2. pc' \in [Procs -> Labels] /\ failedAt' \in [Procs -> Labels \cup {"none"}]
        BY <1>14, <2>1 DEF Readiness, Continue, Fail, Goto
  <2>3. reached' \in [Procs -> Procs \cup {NoProc}]
        BY <1>14 DEF Readiness, Answering
  <2> QED BY <1>14, <2>2, <2>3 DEF Readiness, hostVars, tapVars
<1>14a. ASSUME NEW p \in Procs, ProbeRead(p) PROVE TypeOK'
      BY <1>14a DEF ProbeRead, AfterReady, Continue, Fail, Goto, hostVars, tapVars
<1>15. ASSUME NEW p \in Procs, RecordBenchmark(p) PROVE TypeOK'
      BY <1>15 DEF RecordBenchmark, Continue, Fail, Goto, hostVars, tapVars
<1>16. ASSUME NEW p \in Procs, Serve(p) PROVE TypeOK'
      BY <1>16 DEF Serve, Continue, Fail, Goto, hostVars, tapVars
<1>17. ASSUME NEW p \in Procs, CreateSnapshot(p) PROVE TypeOK'
      BY <1>17 DEF CreateSnapshot, Continue, Fail, Goto, hostVars, tapVars
<1>18. ASSUME NEW p \in Procs, Kill(p) PROVE TypeOK'
      BY <1>18 DEF Kill, After, Continue, Goto, tapVars, FcStates
<1>19. ASSUME NEW p \in Procs, TapDown(p) PROVE TypeOK'
  <2>1. pc' \in [Procs -> Labels]
        BY <1>19 DEF TapDown, After, Continue, Goto
  <2> QED BY <1>19, <2>1 DEF TapDown, Continue
<1>20. ASSUME NEW p \in Procs, TapDel(p) PROVE TypeOK'
  <2>1. pc' \in [Procs -> Labels]
        BY <1>20 DEF TapDel, After, Continue, Goto
  <2>2. /\ owner' \in [TapNames -> Procs \cup {NoProc}] /\ undeleted' \subseteq TapNames
        /\ link' \in [TapNames -> {"down", "addressed", "up"}]
        BY <1>20 DEF TapDel, tapVars
  <2>3. older' \in [TapNames -> SUBSET TapNames]
        BY <1>20 DEF TapDel, tapVars
  <2> QED BY <1>20, <2>1, <2>2, <2>3 DEF TapDel, Continue
<1>21. ASSUME NEW p \in Procs, RemoveRunDir(p) PROVE TypeOK'
      BY <1>21 DEF RemoveRunDir, Continue, Goto, tapVars
<1>22. ASSUME NEW p \in Procs, UnwindForwarders(p) PROVE TypeOK'
      BY <1>22 DEF UnwindForwarders, Released, Continue, Goto, tapVars
<1>23. ASSUME NEW p \in Procs, DropForwarders(p) PROVE TypeOK'
  <2>0. plan[p] \in Plans /\ at[p] \in DOMAIN plan[p].launches
        OBVIOUS
  <2>1. /\ at' = at \/ /\ at' = [at EXCEPT ![p] = @ + 1]
                       /\ at[p] + 1 \in DOMAIN plan[p].launches
        /\ plan' = plan
        BY <1>23, <2>0, PlansHaveLaunches DEF DropForwarders
  <2>2. /\ pc' \in [Procs -> Labels] /\ failedAt' \in [Procs -> Labels \cup {"none"}]
        /\ listener' \in [HostPorts -> Procs \cup {NoProc}]
        BY <1>23 DEF DropForwarders, Released, Continue, Goto
  <2>3. /\ at' \in [Procs -> Nat]
        /\ \A q \in Procs : at'[q] \in DOMAIN plan'[q].launches
        BY <2>1
  <2> QED BY <1>23, <2>2, <2>3 DEF DropForwarders, tapVars
<1>24. ASSUME NEW p \in Procs, Finish(p) PROVE TypeOK'
      BY <1>24 DEF Finish, Continue, Fail, Goto, hostVars, tapVars
<1>25. ASSUME NEW p \in Procs, Interrupt(p) PROVE TypeOK'
      BY <1>25 DEF Interrupt, Released, Goto, tapVars, FcStates
<1>26. ASSUME NEW p \in Procs, FcOpensTap(p) \/ GuestListens(p) \/ FcExits(p) PROVE TypeOK'
      BY <1>26 DEF FcOpensTap, GuestListens, FcExits, procVars, tapVars, FcStates
<1> QED
    BY <1>1, <1>2, <1>3, <1>4, <1>5, <1>6, <1>7, <1>8, <1>9, <1>10, <1>11, <1>12,
       <1>13, <1>14, <1>14a, <1>15, <1>16, <1>17, <1>18, <1>19, <1>20, <1>21, <1>22, <1>23,
       <1>24, <1>25, <1>26 DEF Next, Step, AllDone

-----------------------------------------------------------------------------
(***************************************************************************)
(* The inductive invariant.  A step of p leaves everything another process *)
(* q holds alone (OthersUntouched), so q's part survives (Frame); p's own  *)
(* part is a case per action.                                              *)
(***************************************************************************)

SameFor(q) ==
    /\ plan'[q] = plan[q] /\ at'[q] = at[q] /\ pc'[q] = pc[q] /\ name'[q] = name[q]
    /\ failedAt'[q] = failedAt[q] /\ fc'[q] = fc[q]
    /\ \A n \in TapNames : owner'[n] = q <=> owner[n] = q
    /\ \A n \in TapNames : owner[n] = q =>
          link'[n] = link[n] /\ (n \in undeleted' <=> n \in undeleted)
    /\ \A h \in HostPorts : listener'[h] = q <=> listener[h] = q
    /\ q \in runDirs' <=> q \in runDirs

OwnInv(p) == ControlInv(p) /\ FcInv(p) /\ TapInv(p) /\ PortInv(p) /\ DirInv(p)

\* What a step leaves of q's TAP, ports, directory and child is all that q's part
\* of the invariant speaks of.
LEMMA Frame ==
  ASSUME NEW q \in Procs, OwnInv(q), SameFor(q), TypeOK, TypeOK'
  PROVE  OwnInv(q)'
<1> USE DEF SameFor, OwnInv, Dry, Live, Current, Networked
<1>1. ControlInv(q)'
      BY DEF ControlInv
<1>2. FcInv(q)'
      BY DEF FcInv
<1>3. TapInv(q)'
  <2>1. Tap(q)' = Tap(q) /\ (Tap(q) \subseteq undeleted)' = (Tap(q) \subseteq undeleted)
        BY DEF Tap
  <2>2. name[q] \in TapNames /\ owner[name[q]] = q
           => (name[q] \in TapNames /\ owner[name[q]] = q)' /\ link'[name'[q]] = link[name[q]]
        OBVIOUS
  <2>3. Dry(q)' <=> Dry(q)
        OBVIOUS
  <2> HIDE DEF Dry
  <2> QED BY <2>1, <2>2, <2>3 DEF TapInv, HoldsTap, LinkIsUp
<1>4. PortInv(q)'
  <2>1. (HasPort(q)' <=> HasPort(q)) /\ (Dry(q)' <=> Dry(q))
        BY DEF HasPort
  <2>2. plan[q].ports \subseteq HostPorts
        BY ConstantsAssumption DEF TypeOK, Plan
  <2>3. Unbound(q)' = Unbound(q)
        BY <2>2 DEF Unbound
  <2> HIDE DEF Dry
  <2> QED BY <2>1, <2>3 DEF PortInv
<1>5. DirInv(q)'
      BY DEF DirInv
<1> QED BY <1>1, <1>2, <1>3, <1>4, <1>5

\* Two processes never name the same TAP, so a call on name[p] cannot disturb the
\* TAP of q.
LEMMA NamesApart ==
  ASSUME TypeOK, NamesInv, NEW p \in Procs, NEW q \in Procs, q # p,
         NEW n \in TapNames, owner[n] = q
  PROVE  n # name[p] /\ n \in NamesOf[q] /\ n \notin NamesOf[p]
<1>1. n \in NamesOf[q]
      BY DEF NamesInv, Tap
<1> QED BY <1>1, NamesAssumption, ConstantsAssumption DEF NamesInv

\* No call of p, and nothing that happens to p's child, changes what q holds.
LEMMA OthersUntouched ==
  ASSUME TypeOK, NamesInv, NEW p \in Procs, NEW q \in Procs, q # p,
         Step(p) \/ Interrupt(p) \/ FcOpensTap(p) \/ GuestListens(p) \/ FcExits(p)
  PROVE  SameFor(q)
<1> USE NamesApart, ConstantsAssumption DEF SameFor, TypeOK, Continue, Fail, Goto, hostVars, tapVars, procVars
<1>1. CASE MkRunDir(p)
      BY <1>1 DEF MkRunDir
<1>2. CASE NameTap(p)
      BY <1>2 DEF NameTap
<1>3. CASE TapAdd(p)
      BY <1>3 DEF TapAdd
<1>4. CASE AddrAdd(p)
      BY <1>4 DEF AddrAdd
<1>5. CASE LinkUp(p)
      BY <1>5 DEF LinkUp
<1>6. CASE Neigh(p)
      BY <1>6 DEF Neigh
<1>7. CASE Bind(p)
      BY <1>7 DEF Bind
<1>8. CASE WriteConfig(p)
      BY <1>8 DEF WriteConfig
<1>9. CASE Spawn(p)
      BY <1>9 DEF Spawn
<1>10. CASE ApiSocket(p)
      BY <1>10 DEF ApiSocket
<1>11. CASE SnapLoad(p)
      BY <1>11 DEF SnapLoad
<1>12. CASE ApplyCgroups(p)
      BY <1>12 DEF ApplyCgroups
<1>13. CASE Readiness(p)
      BY <1>13 DEF Readiness
<1>13a. CASE ProbeRead(p)
      BY <1>13a DEF ProbeRead
<1>14. CASE RecordBenchmark(p)
      BY <1>14 DEF RecordBenchmark
<1>15. CASE Serve(p)
      BY <1>15 DEF Serve
<1>16. CASE CreateSnapshot(p)
      BY <1>16 DEF CreateSnapshot
<1>17. CASE Kill(p)
      BY <1>17 DEF Kill
<1>18. CASE TapDown(p)
      BY <1>18 DEF TapDown
<1>19. CASE TapDel(p)
      BY <1>19 DEF TapDel
<1>20. CASE RemoveRunDir(p)
      BY <1>20 DEF RemoveRunDir
<1>21. CASE UnwindForwarders(p)
      BY <1>21 DEF UnwindForwarders, Released
<1>22. CASE DropForwarders(p)
      BY <1>22 DEF DropForwarders, Released
<1>23. CASE Finish(p)
      BY <1>23 DEF Finish
<1>24. CASE Interrupt(p)
      BY <1>24 DEF Interrupt, Released
<1>25. CASE FcOpensTap(p)
      BY <1>25 DEF FcOpensTap
<1>26. CASE GuestListens(p)
      BY <1>26 DEF GuestListens
<1>27. CASE FcExits(p)
      BY <1>27 DEF FcExits
<1> QED BY <1>1, <1>2, <1>3, <1>4, <1>5, <1>6, <1>7, <1>8, <1>9, <1>10, <1>11, <1>12, <1>13, <1>13a, <1>14, <1>15, <1>16, <1>17, <1>18, <1>19, <1>20, <1>21, <1>22, <1>23, <1>24, <1>25, <1>26, <1>27 DEF Step

\* The launch a command is in is one its plan names.
LEMMA CurrentIsLaunch == TypeOK => \A p \in Procs : Current(p) \in Launch
BY PlansHaveLaunches DEF TypeOK, Current

\* The run directory exists from mkdir to its removal.
LEMMA DirStep ==
  ASSUME NEW p \in Procs, TypeOK, DirInv(p),
         Step(p) \/ Interrupt(p) \/ FcOpensTap(p) \/ GuestListens(p) \/ FcExits(p)
  PROVE  DirInv(p)'
<1>0. /\ pc \in [Procs -> Labels] /\ failedAt \in [Procs -> Labels \cup {"none"}]
      /\ fc \in [Procs -> FcStates] /\ at \in [Procs -> Nat]
      /\ Current(p) \in Launch
      BY CurrentIsLaunch DEF TypeOK
<1> USE <1>0 DEF DirInv, LaunchLabels, RunLabels, StopLabels, DropLabels, UnwindLabels, Exits, Continue, Fail, Goto, hostVars, tapVars, procVars
<1>1. CASE MkRunDir(p)
      BY <1>1 DEF MkRunDir
<1>2. CASE NameTap(p)
      BY <1>2 DEF NameTap
<1>3. CASE TapAdd(p)
      BY <1>3 DEF TapAdd
<1>4. CASE AddrAdd(p)
      BY <1>4 DEF AddrAdd
<1>5. CASE LinkUp(p)
      BY <1>5 DEF LinkUp
<1>6. CASE Neigh(p)
      BY <1>6 DEF Neigh
<1>7. CASE Bind(p)
      BY <1>7 DEF Bind
<1>8. CASE WriteConfig(p)
      BY <1>8 DEF WriteConfig
<1>9. CASE Spawn(p)
      BY <1>9 DEF Spawn
<1>10. CASE ApiSocket(p)
      BY <1>10 DEF ApiSocket
<1>11. CASE SnapLoad(p)
      BY <1>11 DEF SnapLoad
<1>12. CASE ApplyCgroups(p)
      BY <1>12 DEF ApplyCgroups
<1>13. CASE Readiness(p)
      BY <1>13 DEF Readiness, AfterReady
<1>13a. CASE ProbeRead(p)
      BY <1>13a DEF ProbeRead, AfterReady
<1>14. CASE RecordBenchmark(p)
      BY <1>14 DEF RecordBenchmark
<1>15. CASE Serve(p)
      BY <1>15 DEF Serve
<1>16. CASE CreateSnapshot(p)
      BY <1>16 DEF CreateSnapshot
<1>17. CASE Kill(p)
      BY <1>17 DEF Kill, After
<1>18. CASE TapDown(p)
      BY <1>18 DEF TapDown, After
<1>19. CASE TapDel(p)
      BY <1>19 DEF TapDel, After
<1>20. CASE RemoveRunDir(p)
      BY <1>20 DEF RemoveRunDir
<1>21. CASE UnwindForwarders(p)
      BY <1>21 DEF UnwindForwarders
<1>22. CASE DropForwarders(p)
      BY <1>22 DEF DropForwarders
<1>23. CASE Finish(p)
      BY <1>23 DEF Finish
<1>24. CASE Interrupt(p)
      BY <1>24 DEF Interrupt
<1>25. CASE FcOpensTap(p)
      BY <1>25 DEF FcOpensTap
<1>26. CASE GuestListens(p)
      BY <1>26 DEF GuestListens
<1>27. CASE FcExits(p)
      BY <1>27 DEF FcExits
<1> QED
    BY <1>1, <1>2, <1>3, <1>4, <1>5, <1>6, <1>7, <1>8, <1>9, <1>10, <1>11,
       <1>12, <1>13, <1>13a, <1>14, <1>15, <1>16, <1>17, <1>18, <1>19, <1>20,
       <1>21, <1>22, <1>23, <1>24, <1>25, <1>26, <1>27 DEF Step

\* Where an error can be propagating, and where a dry run can be.
LEMMA ControlStep ==
  ASSUME NEW p \in Procs, TypeOK, ControlInv(p), FcInv(p),
         Step(p) \/ Interrupt(p) \/ FcOpensTap(p) \/ GuestListens(p) \/ FcExits(p)
  PROVE  ControlInv(p)'
<1>0. /\ pc \in [Procs -> Labels] /\ failedAt \in [Procs -> Labels \cup {"none"}]
      /\ fc \in [Procs -> FcStates] /\ at \in [Procs -> Nat]
      /\ Current(p) \in Launch
      BY CurrentIsLaunch DEF TypeOK
<1> USE <1>0 DEF ControlInv, ChildCalls, Launch, Dry, Current, Networked, LaunchLabels, RunLabels, StopLabels, DropLabels, UnwindLabels, Exits, Continue, Fail, Goto, hostVars, tapVars, procVars
<1>1. CASE MkRunDir(p)
      BY <1>1 DEF MkRunDir
<1>2. CASE NameTap(p)
      BY <1>2 DEF NameTap
<1>3. CASE TapAdd(p)
      BY <1>3 DEF TapAdd
<1>4. CASE AddrAdd(p)
      BY <1>4 DEF AddrAdd
<1>5. CASE LinkUp(p)
      BY <1>5 DEF LinkUp
<1>6. CASE Neigh(p)
      BY <1>6 DEF Neigh
<1>7. CASE Bind(p)
      BY <1>7 DEF Bind
<1>8. CASE WriteConfig(p)
      BY <1>8 DEF WriteConfig
<1>9. CASE Spawn(p)
      BY <1>9 DEF Spawn
<1>10. CASE ApiSocket(p)
      BY <1>10 DEF ApiSocket
<1>11. CASE SnapLoad(p)
      BY <1>11 DEF SnapLoad
<1>12. CASE ApplyCgroups(p)
      BY <1>12 DEF ApplyCgroups
<1>13. CASE Readiness(p)
      BY <1>13 DEF Readiness, AfterReady
<1>13a. CASE ProbeRead(p)
      BY <1>13a DEF ProbeRead, AfterReady
<1>14. CASE RecordBenchmark(p)
      BY <1>14 DEF RecordBenchmark
<1>15. CASE Serve(p)
      BY <1>15 DEF Serve
<1>16. CASE CreateSnapshot(p)
      BY <1>16 DEF CreateSnapshot, FcInv
<1>17. CASE Kill(p)
      BY <1>17 DEF Kill, After
<1>18. CASE TapDown(p)
      BY <1>18 DEF TapDown, After
<1>19. CASE TapDel(p)
      BY <1>19 DEF TapDel, After
<1>20. CASE RemoveRunDir(p)
      BY <1>20 DEF RemoveRunDir
<1>21. CASE UnwindForwarders(p)
      BY <1>21 DEF UnwindForwarders
<1>22. CASE DropForwarders(p)
      BY <1>22 DEF DropForwarders
<1>23. CASE Finish(p)
      BY <1>23 DEF Finish
<1>24. CASE Interrupt(p)
      BY <1>24 DEF Interrupt
<1>25. CASE FcOpensTap(p)
      BY <1>25 DEF FcOpensTap
<1>26. CASE GuestListens(p)
      BY <1>26 DEF GuestListens
<1>27. CASE FcExits(p)
      BY <1>27 DEF FcExits
<1> QED
    BY <1>1, <1>2, <1>3, <1>4, <1>5, <1>6, <1>7, <1>8, <1>9, <1>10, <1>11,
       <1>12, <1>13, <1>13a, <1>14, <1>15, <1>16, <1>17, <1>18, <1>19, <1>20,
       <1>21, <1>22, <1>23, <1>24, <1>25, <1>26, <1>27 DEF Step

\* Where a Firecracker of p can be alive.
LEMMA FcStep ==
  ASSUME NEW p \in Procs, TypeOK, ControlInv(p), FcInv(p),
         Step(p) \/ Interrupt(p) \/ FcOpensTap(p) \/ GuestListens(p) \/ FcExits(p)
  PROVE  FcInv(p)'
<1>0. /\ pc \in [Procs -> Labels] /\ failedAt \in [Procs -> Labels \cup {"none"}]
      /\ fc \in [Procs -> FcStates] /\ at \in [Procs -> Nat]
      /\ Current(p) \in Launch
      BY CurrentIsLaunch DEF TypeOK
<1> USE <1>0 DEF ControlInv, FcInv, ChildCalls, Dry, Current, Live, FcStates, LaunchLabels, RunLabels, StopLabels, DropLabels, UnwindLabels, Exits, Continue, Fail, Goto, hostVars, tapVars, procVars
<1>1. CASE MkRunDir(p)
      BY <1>1 DEF MkRunDir
<1>2. CASE NameTap(p)
      BY <1>2 DEF NameTap
<1>3. CASE TapAdd(p)
      BY <1>3 DEF TapAdd
<1>4. CASE AddrAdd(p)
      BY <1>4 DEF AddrAdd
<1>5. CASE LinkUp(p)
      BY <1>5 DEF LinkUp
<1>6. CASE Neigh(p)
      BY <1>6 DEF Neigh
<1>7. CASE Bind(p)
      BY <1>7 DEF Bind
<1>8. CASE WriteConfig(p)
      BY <1>8 DEF WriteConfig
<1>9. CASE Spawn(p)
      BY <1>9 DEF Spawn
<1>10. CASE ApiSocket(p)
      BY <1>10 DEF ApiSocket
<1>11. CASE SnapLoad(p)
      BY <1>11 DEF SnapLoad
<1>12. CASE ApplyCgroups(p)
      BY <1>12 DEF ApplyCgroups
<1>13. CASE Readiness(p)
      BY <1>13 DEF Readiness, AfterReady
<1>13a. CASE ProbeRead(p)
      BY <1>13a DEF ProbeRead, AfterReady
<1>14. CASE RecordBenchmark(p)
      BY <1>14 DEF RecordBenchmark
<1>15. CASE Serve(p)
      BY <1>15 DEF Serve
<1>16. CASE CreateSnapshot(p)
      BY <1>16 DEF CreateSnapshot
<1>17. CASE Kill(p)
      BY <1>17 DEF Kill, After
<1>18. CASE TapDown(p)
      BY <1>18 DEF TapDown, After
<1>19. CASE TapDel(p)
      BY <1>19 DEF TapDel, After
<1>20. CASE RemoveRunDir(p)
      BY <1>20 DEF RemoveRunDir
<1>21. CASE UnwindForwarders(p)
      BY <1>21 DEF UnwindForwarders
<1>22. CASE DropForwarders(p)
      BY <1>22 DEF DropForwarders
<1>23. CASE Finish(p)
      BY <1>23 DEF Finish
<1>24. CASE Interrupt(p)
      BY <1>24, LabelList DEF Interrupt, FcCalls
<1>25. CASE FcOpensTap(p)
      BY <1>25 DEF FcOpensTap
<1>26. CASE GuestListens(p)
      BY <1>26 DEF GuestListens
<1>27. CASE FcExits(p)
      BY <1>27 DEF FcExits
<1> QED
    BY <1>1, <1>2, <1>3, <1>4, <1>5, <1>6, <1>7, <1>8, <1>9, <1>10, <1>11,
       <1>12, <1>13, <1>13a, <1>14, <1>15, <1>16, <1>17, <1>18, <1>19, <1>20,
       <1>21, <1>22, <1>23, <1>24, <1>25, <1>26, <1>27 DEF Step

\* Where the ports of p are bound, and where they are not.
LEMMA PortStep ==
  ASSUME NEW p \in Procs, TypeOK, ControlInv(p), PortInv(p),
         Step(p) \/ Interrupt(p) \/ FcOpensTap(p) \/ GuestListens(p) \/ FcExits(p)
  PROVE  PortInv(p)'
<1>0. /\ pc \in [Procs -> Labels]
      /\ listener \in [HostPorts -> Procs \cup {NoProc}]
      /\ plan[p].ports \subseteq HostPorts /\ NoProc \notin Procs
      BY ConstantsAssumption DEF TypeOK, Plan
<1> USE <1>0 DEF ControlInv, PortInv, Unbound, HasPort, Dry, Current, Networked, LaunchLabels, RunLabels, StopLabels, DropLabels, UnwindLabels, Exits, Continue, Fail, Goto, hostVars, tapVars, procVars
<1>1. CASE MkRunDir(p)
      BY <1>1 DEF MkRunDir
<1>2. CASE NameTap(p)
      BY <1>2 DEF NameTap
<1>3. CASE TapAdd(p)
      BY <1>3 DEF TapAdd
<1>4. CASE AddrAdd(p)
      BY <1>4 DEF AddrAdd
<1>5. CASE LinkUp(p)
      BY <1>5 DEF LinkUp
<1>6. CASE Neigh(p)
      BY <1>6 DEF Neigh
<1>7. CASE Bind(p)
      BY <1>7 DEF Bind
<1>8. CASE WriteConfig(p)
      BY <1>8 DEF WriteConfig
<1>9. CASE Spawn(p)
      BY <1>9 DEF Spawn
<1>10. CASE ApiSocket(p)
      BY <1>10 DEF ApiSocket
<1>11. CASE SnapLoad(p)
      BY <1>11 DEF SnapLoad
<1>12. CASE ApplyCgroups(p)
      BY <1>12 DEF ApplyCgroups
<1>13. CASE Readiness(p)
      BY <1>13 DEF Readiness, AfterReady
<1>13a. CASE ProbeRead(p)
      BY <1>13a DEF ProbeRead, AfterReady
<1>14. CASE RecordBenchmark(p)
      BY <1>14 DEF RecordBenchmark
<1>15. CASE Serve(p)
      BY <1>15 DEF Serve
<1>16. CASE CreateSnapshot(p)
      BY <1>16 DEF CreateSnapshot
<1>17. CASE Kill(p)
      BY <1>17 DEF Kill, After
<1>18. CASE TapDown(p)
      BY <1>18 DEF TapDown, After
<1>19. CASE TapDel(p)
      BY <1>19 DEF TapDel, After
<1>20. CASE RemoveRunDir(p)
      BY <1>20 DEF RemoveRunDir
<1>21. CASE UnwindForwarders(p)
      BY <1>21 DEF UnwindForwarders, Released
<1>22. CASE DropForwarders(p)
      BY <1>22 DEF DropForwarders, Released
<1>23. CASE Finish(p)
      BY <1>23 DEF Finish
<1>24. CASE Interrupt(p)
      BY <1>24 DEF Interrupt, Released
<1>25. CASE FcOpensTap(p)
      BY <1>25 DEF FcOpensTap
<1>26. CASE GuestListens(p)
      BY <1>26 DEF GuestListens
<1>27. CASE FcExits(p)
      BY <1>27 DEF FcExits
<1> QED
    BY <1>1, <1>2, <1>3, <1>4, <1>5, <1>6, <1>7, <1>8, <1>9, <1>10, <1>11,
       <1>12, <1>13, <1>13a, <1>14, <1>15, <1>16, <1>17, <1>18, <1>19, <1>20,
       <1>21, <1>22, <1>23, <1>24, <1>25, <1>26, <1>27 DEF Step

\* Where the TAP of p exists: what is left after tuntap del is what it failed on.
LEMMA TapStep ==
  ASSUME NEW p \in Procs, TypeOK, NamesInv, ControlInv(p), FcInv(p), TapInv(p),
         Step(p) \/ Interrupt(p) \/ FcOpensTap(p) \/ GuestListens(p) \/ FcExits(p)
  PROVE  TapInv(p)'
<1>0. /\ pc \in [Procs -> Labels] /\ failedAt \in [Procs -> Labels \cup {"none"}]
      /\ name \in [Procs -> TapNames \cup {NoTap}]
      /\ owner \in [TapNames -> Procs \cup {NoProc}]
      /\ link \in [TapNames -> {"down", "addressed", "up"}]
      /\ NoProc \notin Procs /\ NoTap \notin TapNames
      /\ \A n \in TapNames : owner[n] = p => name[p] = n \/ n \in undeleted
      /\ undeleted \subseteq TapNames /\ \A n \in undeleted : Present(n)
      /\ \A q \in Procs : NamesOf[q] \subseteq TapNames
      BY ConstantsAssumption DEF TypeOK, NamesInv, Tap
<1> USE <1>0 DEF ControlInv, TapInv, Tap, TapCalls, HoldsTap, LinkIsUp, SetupCalls, ChildCalls, Dry, Current, Networked, LaunchLabels, RunLabels, StopLabels, DropLabels, UnwindLabels, Exits, Continue, Fail, Goto, hostVars, tapVars, procVars
<1>1. CASE MkRunDir(p)
      BY <1>1 DEF MkRunDir
<1>2. CASE NameTap(p)
      BY <1>2 DEF NameTap
<1>3. CASE TapAdd(p)
      BY <1>3 DEF TapAdd, Present
<1>4. CASE AddrAdd(p)
      BY <1>4 DEF AddrAdd, Present
<1>5. CASE LinkUp(p)
      BY <1>5 DEF LinkUp, Present
<1>6. CASE Neigh(p)
      BY <1>6 DEF Neigh
<1>7. CASE Bind(p)
      BY <1>7 DEF Bind
<1>8. CASE WriteConfig(p)
      BY <1>8 DEF WriteConfig
<1>9. CASE Spawn(p)
      BY <1>9 DEF Spawn
<1>10. CASE ApiSocket(p)
      BY <1>10 DEF ApiSocket
<1>11. CASE SnapLoad(p)
      BY <1>11 DEF SnapLoad
<1>12. CASE ApplyCgroups(p)
      BY <1>12 DEF ApplyCgroups
<1>13. CASE Readiness(p)
      BY <1>13 DEF Readiness, AfterReady
<1>13a. CASE ProbeRead(p)
      BY <1>13a DEF ProbeRead, AfterReady
<1>14. CASE RecordBenchmark(p)
      BY <1>14 DEF RecordBenchmark
<1>15. CASE Serve(p)
      BY <1>15 DEF Serve
<1>16. CASE CreateSnapshot(p)
      BY <1>16 DEF CreateSnapshot
<1>17. CASE Kill(p)
      BY <1>17 DEF Kill, After
<1>18. CASE TapDown(p)
      BY <1>18 DEF TapDown, After
<1>19. CASE TapDel(p)
  <2>1. CASE name[p] \notin TapNames
        BY <1>19, <2>1 DEF TapDel, After
  <2>2. CASE name[p] \in TapNames
    <3>1. /\ pc'[p] = After[pc[p]] /\ pc[p] \in {"sd_del", "drop_del", "u_del"}
          /\ UNCHANGED <<plan, at, name, failedAt>>
          BY <1>19 DEF TapDel
    <3>2. Tap(p)' \subseteq undeleted'
          BY <1>0, <1>19, <2>2 DEF TapDel, Present
    <3> QED BY <3>1, <3>2 DEF After
  <2> QED BY <2>1, <2>2
<1>20. CASE RemoveRunDir(p)
      BY <1>20 DEF RemoveRunDir
<1>21. CASE UnwindForwarders(p)
      BY <1>21 DEF UnwindForwarders
<1>22. CASE DropForwarders(p)
      BY <1>22 DEF DropForwarders
<1>23. CASE Finish(p)
      BY <1>23 DEF Finish
<1>24. CASE Interrupt(p)
  <2>1. /\ pc'[p] = "killed" /\ failedAt'[p] = pc[p] /\ pc[p] \notin Exits
        /\ UNCHANGED <<plan, at, tapVars>>
        BY <1>24 DEF Interrupt
  <2>2. Tap(p) \subseteq undeleted \/ pc[p] \in TapCalls
        BY <2>1, LabelList
  <2> QED BY <2>1, <2>2
<1>25. CASE FcOpensTap(p)
      BY <1>25 DEF FcOpensTap
<1>26. CASE GuestListens(p)
      BY <1>26 DEF GuestListens
<1>27. CASE FcExits(p)
      BY <1>27 DEF FcExits
<1> QED
    BY <1>1, <1>2, <1>3, <1>4, <1>5, <1>6, <1>7, <1>8, <1>9, <1>10, <1>11,
       <1>12, <1>13, <1>13a, <1>14, <1>15, <1>16, <1>17, <1>18, <1>19, <1>20,
       <1>21, <1>22, <1>23, <1>24, <1>25, <1>26, <1>27 DEF Step

\* A TAP's creator keeps its name in its handle until the TAP is gone, or `ip` has
\* failed to delete it.
LEMMA NamesStep ==
  ASSUME NEW p \in Procs, TypeOK, NamesInv, TapInv(p),
         Step(p) \/ Interrupt(p) \/ FcOpensTap(p) \/ GuestListens(p) \/ FcExits(p)
  PROVE  NamesInv'
<1> USE DEF NamesInv, Tap, Present
<1>0. /\ name \in [Procs -> TapNames \cup {NoTap}]
      /\ owner \in [TapNames -> Procs \cup {NoProc}]
      /\ NoProc \notin Procs /\ NoTap \notin TapNames
      /\ NamesOf[p] \subseteq TapNames /\ undeleted \subseteq TapNames
      BY ConstantsAssumption DEF TypeOK
<1>1. CASE MkRunDir(p) \/ NameTap(p)
  <2>1. Tap(p) \subseteq undeleted
        BY <1>1 DEF TapInv, MkRunDir, NameTap
  <2>2. /\ owner' = owner /\ undeleted' = undeleted
        /\ \E x \in NamesOf[p] \cup {NoTap} : name' = [name EXCEPT ![p] = x]
        BY <1>1 DEF MkRunDir, NameTap, hostVars, tapVars
  <2> QED BY <1>0, <2>1, <2>2
<1>2. CASE TapAdd(p)
  <2>1. Tap(p) \subseteq undeleted /\ undeleted' = undeleted
        BY <1>2 DEF TapInv, TapAdd
  <2>2. CASE UNCHANGED <<name, owner>>
        BY <2>1, <2>2
  <2>3. CASE \E n \in NamesOf[p] : /\ owner[n] = NoProc
                                  /\ owner' = [owner EXCEPT ![n] = p]
                                  /\ name' = [name EXCEPT ![p] = n]
    <3>1. PICK n \in NamesOf[p] : /\ owner[n] = NoProc
                                 /\ owner' = [owner EXCEPT ![n] = p]
                                 /\ name' = [name EXCEPT ![p] = n]
          BY <2>3
    <3>2. \A m \in TapNames \ {n} : owner'[m] = owner[m]
          BY <1>0, <3>1
    <3>3. owner'[n] = p /\ name'[p] = n /\ \A q \in Procs \ {p} : name'[q] = name[q]
          BY <1>0, <3>1
    <3>4. \A m \in TapNames : owner[m] = p => m \in undeleted
          BY <2>1
    <3> QED BY <1>0, <2>1, <3>2, <3>3, <3>4
  <2> QED BY <1>2, <2>2, <2>3 DEF TapAdd
<1>3. CASE TapDel(p)
  <2>1. CASE UNCHANGED tapVars
        BY <1>3, <2>1 DEF TapDel, tapVars
  <2>2. CASE /\ name[p] \in TapNames
             /\ owner' = [owner EXCEPT ![name[p]] = NoProc]
             /\ undeleted' = undeleted \ {name[p]}
        BY <1>0, <1>3, <2>2 DEF TapDel
  <2>3. CASE /\ name[p] \in TapNames /\ Present(name[p])
             /\ undeleted' = undeleted \cup {name[p]} /\ owner' = owner
        BY <1>0, <1>3, <2>3 DEF TapDel
  <2> QED BY <1>3, <2>1, <2>2, <2>3 DEF TapDel
<1>4. CASE UNCHANGED <<name, owner, undeleted>>
      BY <1>4
<1> QED
    BY <1>1, <1>2, <1>3, <1>4
    DEF Step, AddrAdd, LinkUp, Neigh, Bind, WriteConfig, Spawn, ApiSocket, SnapLoad,
        ApplyCgroups, Readiness, ProbeRead, RecordBenchmark, Serve, CreateSnapshot, Kill,
        TapDown, RemoveRunDir, UnwindForwarders, DropForwarders, Finish, Interrupt,
        FcOpensTap, GuestListens, FcExits, procVars, hostVars, tapVars

\* Every step of a command and of the environment preserves the invariant.
LEMMA InvStep == IInv /\ [Next]_vars => IInv'
<1> SUFFICES ASSUME IInv, [Next]_vars PROVE IInv'
    OBVIOUS
<1>0. TypeOK /\ NamesInv /\ \A q \in Procs : OwnInv(q)
      BY DEF IInv, OwnInv
<1>1. TypeOK'
      BY <1>0, TypeStep
<1>2. CASE UNCHANGED vars
  <2>1. \A q \in Procs : SameFor(q)
        BY <1>2 DEF SameFor, vars, procVars, hostVars, tapVars
  <2>2. \A q \in Procs : OwnInv(q)'
        BY <1>0, <1>1, <2>1, Frame
  <2>3. NamesInv'
        BY <1>0, <1>2 DEF NamesInv, Tap, Present, vars, procVars, hostVars, tapVars
  <2> QED BY <1>1, <2>2, <2>3 DEF IInv, OwnInv
<1>3. ASSUME NEW p \in Procs,
             Step(p) \/ Interrupt(p) \/ FcOpensTap(p) \/ GuestListens(p) \/ FcExits(p)
      PROVE  IInv'
  <2>1. ControlInv(p) /\ FcInv(p) /\ TapInv(p) /\ PortInv(p) /\ DirInv(p)
        BY <1>0 DEF OwnInv
  <2>2. NamesInv'
        BY <1>0, <1>3, <2>1, NamesStep
  <2>3. OwnInv(p)'
        BY <1>0, <1>3, <2>1, ControlStep, FcStep, TapStep, PortStep, DirStep DEF OwnInv
  <2>4. ASSUME NEW q \in Procs, q # p PROVE OwnInv(q)'
    <3>1. SameFor(q)
          BY <1>0, <1>3, <2>4, OthersUntouched
    <3> QED BY <1>0, <1>1, <3>1, Frame
  <2> QED BY <1>1, <2>2, <2>3, <2>4 DEF IInv, OwnInv
<1> QED BY <1>2, <1>3 DEF Next, AllDone

\* A command that has not made its first call holds nothing.
LEMMA InvInit == Init => IInv
<1> SUFFICES ASSUME Init PROVE IInv
    OBVIOUS
<1>1. TypeOK
  <2>1. \A p \in Procs : at[p] = 1 /\ 1 \in DOMAIN plan[p].launches
        BY PlansHaveLaunches DEF Init
  <2> QED BY <2>1, LabelList DEF Init, TypeOK, FcStates
<1>2. NamesInv
      BY ConstantsAssumption DEF Init, NamesInv, Tap
<1>3. ASSUME NEW p \in Procs
      PROVE  ControlInv(p) /\ FcInv(p) /\ TapInv(p) /\ PortInv(p) /\ DirInv(p)
  <2>1. /\ pc[p] = "mkdir" /\ failedAt[p] = "none" /\ ~Live(p) /\ Tap(p) = {}
        /\ ~HasPort(p) /\ p \notin runDirs
        BY ConstantsAssumption DEF Init, Live, Tap, HasPort
  <2> QED BY <2>1 DEF ControlInv, FcInv, TapInv, PortInv, DirInv, HoldsTap, LinkIsUp,
             LaunchLabels, RunLabels, StopLabels, DropLabels, UnwindLabels
<1> QED BY <1>1, <1>2, <1>3 DEF IInv

\* What each command holds at each call of launch_vm, of the drops and of the
\* cleanup is what IInv says, in every reachable state.
THEOREM Invariance == Spec => []IInv
BY InvInit, InvStep, PTL DEF Spec

\* The state of the host and of every command stays in its type.
THEOREM TypeCorrect == Spec => []TypeOK
<1>1. IInv => TypeOK
      BY DEF IInv
<1> QED BY <1>1, Invariance, PTL

\* What a command that returns or is interrupted leaves on the host is what the call
\* that failed, or that it was cut short in, and the failed deletions of TAPs account for.
THEOREM KnownLeaks == Spec => []LeaksOnlyWhereKnown
<1>1. IInv => LeaksOnlyWhereKnown
  <2> SUFFICES ASSUME IInv, NEW p \in Procs
               PROVE  /\ Returned(p) =>
                           /\ p \notin runDirs
                           /\ Live(p) => failedAt[p] \in ChildCalls
                           /\ Tap(p) \subseteq undeleted \/ failedAt[p] \in SetupCalls
                      /\ pc[p] = "killed" =>
                           /\ p \in runDirs => failedAt[p] \notin {"mkdir", "drop_fwd", "finish"}
                           /\ Live(p) => failedAt[p] \in FcCalls
                           /\ Tap(p) \subseteq undeleted \/ failedAt[p] \in TapCalls
                      /\ pc[p] \in Exits => ~HasPort(p)
      BY DEF LeaksOnlyWhereKnown
  <2>1. FcInv(p) /\ TapInv(p) /\ PortInv(p) /\ DirInv(p)
        BY DEF IInv
  <2> QED BY <2>1 DEF FcInv, TapInv, PortInv, DirInv, Returned, Exits
<1> QED BY <1>1, Invariance, PTL

\* Every launch finds the host as the launch before it found it, but for a TAP that
\* `ip` did not delete.
THEOREM CleanLaunches == Spec => []LaunchesStartClean
<1>1. IInv => LaunchesStartClean
      BY DEF IInv, FcInv, TapInv, PortInv, DirInv, LaunchesStartClean
<1> QED BY <1>1, Invariance, PTL

\* No other command takes the TAP, the link, the ports or the run directory of a VM
\* in use away, however many commands run.
THEOREM NetworkKept == Spec => []RunningVmKeepsNetwork
<1>1. IInv => RunningVmKeepsNetwork
  <2> SUFFICES ASSUME IInv, NEW p \in Procs, pc[p] \in RunLabels, ~Dry(p)
               PROVE  /\ p \in runDirs
                      /\ Networked(p) => /\ name[p] \in TapNames
                                         /\ owner[name[p]] = p /\ link[name[p]] = "up"
                                         /\ \A h \in plan[p].ports : listener[h] = p
      BY DEF RunningVmKeepsNetwork
  <2>1. TapInv(p) /\ PortInv(p) /\ DirInv(p)
        BY DEF IInv
  <2>2. p \in runDirs
        BY <2>1 DEF DirInv
  <2>3. \A h \in plan[p].ports : listener[h] = p
        BY <2>1 DEF PortInv, Unbound
  <2>4. Networked(p) => name[p] \in TapNames /\ owner[name[p]] = p /\ link[name[p]] = "up"
        BY <2>1 DEF TapInv, HoldsTap, LinkIsUp, RunLabels
  <2> QED BY <2>2, <2>3, <2>4
<1> QED BY <1>1, Invariance, PTL

\* What a step of p does to the order of the routes never puts one before another.
LEMMA OldestStays ==
  ASSUME TypeOK, NamesInv, NEW p \in Procs, NEW n \in TapNames, n # name[p], older[n] = {},
         Step(p) \/ Interrupt(p) \/ FcOpensTap(p) \/ GuestListens(p) \/ FcExits(p)
  PROVE  older'[n] = {}
<1>0. older \in [TapNames -> SUBSET TapNames]
      BY DEF TypeOK
<1>1. CASE UNCHANGED older
      BY <1>1
<1>2. CASE LinkUp(p)
      BY <1>0, <1>2 DEF LinkUp
<1>3. CASE TapDown(p)
      BY <1>0, <1>3 DEF TapDown
<1>4. CASE TapDel(p)
      BY <1>0, <1>4 DEF TapDel, tapVars
<1> QED
    BY <1>1, <1>2, <1>3, <1>4
    DEF Step, MkRunDir, NameTap, TapAdd, AddrAdd, Neigh, Bind, WriteConfig, Spawn,
        ApiSocket, SnapLoad, ApplyCgroups, Readiness, ProbeRead, RecordBenchmark, Serve,
        CreateSnapshot, Kill, RemoveRunDir, UnwindForwarders, DropForwarders, Finish,
        Interrupt, FcOpensTap, GuestListens, FcExits, procVars, hostVars, tapVars

\* While a command only talks to its VM it does not touch the network.
LEMMA RunningStepsAreQuiet ==
  ASSUME TypeOK, NEW p \in Procs, pc[p] \in RunLabels, pc'[p] \in RunLabels,
         Step(p) \/ Interrupt(p) \/ FcOpensTap(p) \/ GuestListens(p) \/ FcExits(p)
  PROVE  UNCHANGED <<name, tapVars>>
<1>0. pc \in [Procs -> Labels]
      BY DEF TypeOK
<1> USE <1>0 DEF RunLabels, Continue, Goto, procVars, hostVars, tapVars
<1>1. CASE Readiness(p) \/ ProbeRead(p) \/ RecordBenchmark(p) \/ Serve(p) \/ CreateSnapshot(p)
      BY <1>1 DEF Readiness, ProbeRead, RecordBenchmark, Serve, CreateSnapshot
<1>2. CASE Interrupt(p) \/ FcOpensTap(p) \/ GuestListens(p) \/ FcExits(p)
      BY <1>2 DEF Interrupt, FcOpensTap, GuestListens, FcExits
<1> QED
    BY <1>1, <1>2
    DEF Step, MkRunDir, NameTap, TapAdd, AddrAdd, LinkUp, Neigh, Bind, WriteConfig, Spawn,
        ApiSocket, SnapLoad, ApplyCgroups, Kill, TapDown, TapDel, RemoveRunDir,
        UnwindForwarders, DropForwarders, Finish

\* The guest address keeps leading to the VM it leads to while that VM is in use.
THEOREM RouteKept == Spec => EstablishedRouteKept
<1> DEFINE Kept == \A p \in Procs : pc[p] \in RunLabels /\ pc'[p] \in RunLabels /\ ~Dry(p)
                                    /\ Networked(p) /\ name[p] \in GuestRoute
                                        => name'[p] \in GuestRoute'
<1>1. IInv /\ [Next]_vars => [Kept]_vars
  <2> SUFFICES ASSUME IInv, Next,
                      NEW p \in Procs, pc[p] \in RunLabels, pc'[p] \in RunLabels,
                      ~Dry(p), Networked(p), name[p] \in GuestRoute
               PROVE  name'[p] \in GuestRoute'
      OBVIOUS
  <2>0. /\ TypeOK /\ NamesInv /\ TapInv(p)
        /\ name[p] \in TapNames /\ owner[name[p]] = p
        /\ link[name[p]] = "up" /\ older[name[p]] = {}
        BY DEF IInv, TapInv, HoldsTap, GuestRoute
  <2>1. ASSUME NEW q \in Procs,
               Step(q) \/ Interrupt(q) \/ FcOpensTap(q) \/ GuestListens(q) \/ FcExits(q)
        PROVE  name'[p] \in GuestRoute'
    <3>1. CASE q = p
      <4>1. UNCHANGED <<name, tapVars>>
            BY <2>0, <2>1, <3>1, RunningStepsAreQuiet
      <4> QED BY <2>0, <4>1 DEF GuestRoute, tapVars
    <3>2. CASE q # p
      <4>1. SameFor(p)
            BY <2>0, <2>1, <3>2, OthersUntouched
      <4>2. name[p] # name[q]
            BY <2>0, <3>2, NamesApart
      <4>3. older'[name[p]] = {}
            BY <2>0, <2>1, <4>2, OldestStays
      <4> QED BY <2>0, <4>1, <4>3 DEF SameFor, GuestRoute
    <3> QED BY <3>1, <3>2
  <2>2. CASE AllDone
        BY <2>0, <2>2 DEF AllDone, vars, procVars, hostVars, tapVars, GuestRoute
  <2> QED BY <2>1, <2>2 DEF Next
<1>2. Spec => [][Kept]_vars
      BY <1>1, Invariance, PTL DEF Spec
<1> QED BY <1>2 DEF EstablishedRouteKept
=============================================================================
