---------------------------- MODULE ServiceProofs ----------------------------
(***************************************************************************)
(* Proofs about Service, for any set of trees and any number of installs   *)
(* and uninstalls, of which each may be abandoned at any step.             *)
(***************************************************************************)
EXTENDS Service, TLAPS

-----------------------------------------------------------------------------
(* Types.                                                                   *)

\* The three operations on the daemons and their socket.
LEMMA DaemonsTyped ==
    ASSUME TypeOK, NEW d \in Daemon,
           \/ Launch(d)
           \/ /\ up' \in SUBSET Daemon /\ closing' \in SUBSET Daemon
              /\ \E by \in SUBSET Daemon : Unlink(by)
           \/ UNCHANGED daemons
    PROVE  {up', closing', crowded'} \subseteq SUBSET Daemon
           /\ sock' \in Daemon \cup {"none", "dead"}
BY DEF TypeOK, Launch, Listened, Unlink, daemons

\* A job that goes on to another of its steps stays a job.
LEMMA JobTyped ==
    ASSUME TypeOK,
           NEW step \in {"bin", "script", "look", "example", "register", "start",
                         "last", "stop", "deregister", "initd", "conf", "sock", "end"},
           Continue(step) \/ End
    PROVE  job' \in [cmd : {"none", "install", "uninstall"}, tree : Tree,
                     at : {"bin", "script", "look", "example", "register", "start",
                           "last", "stop", "deregister", "initd", "conf", "sock", "end"}]
BY TreeAssumption DEF TypeOK, Continue, End, NoJob

LEMMA StartTyped ==
    ASSUME TypeOK, RcStart \/ RcStop \/ UNCHANGED <<openrc, daemons>>
    PROVE  /\ {up', closing', crowded'} \subseteq SUBSET Daemon
           /\ sock' \in Daemon \cup {"none", "dead"}
           /\ started' \in BOOLEAN /\ enabled' \in BOOLEAN
<1>1. CASE RcStart
  <2>1. CASE Launch("service")
    BY <1>1, <2>1, DaemonsTyped DEF RcStart, TypeOK, Daemon
  <2>2. CASE UNCHANGED daemons
    BY <1>1, <2>2 DEF RcStart, TypeOK, daemons
  <2> QED
    BY <1>1, <2>1, <2>2 DEF RcStart
<1>2. CASE RcStop
  BY <1>2 DEF RcStop, Unlink, TypeOK, Daemon
<1>3. CASE UNCHANGED <<openrc, daemons>>
  BY <1>3 DEF TypeOK, openrc, daemons
<1> QED
  BY <1>1, <1>2, <1>3

LEMMA TypeInductive == TypeOK /\ [Next]_vars => TypeOK'
<1> SUFFICES ASSUME TypeOK, [Next]_vars
             PROVE  TypeOK'
  OBVIOUS
<1> USE DEF files, openrc, daemons, history, uninstalled
<1>1. CASE RunByHand
  <2>1. "hand" \in Daemon
    BY DEF Daemon
  <2> QED
    BY <1>1, <2>1, DaemonsTyped DEF RunByHand, TypeOK
<1>2. ASSUME NEW d \in Daemon, Terminate(d) \/ Exit(d) \/ Crash(d)
      PROVE  TypeOK'
  <2>1. /\ {up', closing', crowded'} \subseteq SUBSET Daemon
        /\ sock' \in Daemon \cup {"none", "dead"}
    BY <1>2 DEF Terminate, Exit, Crash, Unlink, TypeOK
  <2> QED
    BY <1>2, <2>1 DEF Terminate, Exit, Crash, TypeOK
<1>3. CASE StartService \/ StopService
  <2>1. served' \in BOOLEAN /\ off' \in BOOLEAN
    BY <1>3 DEF StartService, StopService, TypeOK
  <2> QED
    BY <1>3, <2>1, StartTyped DEF StartService, StopService, TypeOK
<1>4. ASSUME NEW t \in Tree, WriteConfig(t)
      PROVE  TypeOK'
  <2>1. kept' \in BOOLEAN
    BY <1>4 DEF WriteConfig, TypeOK
  <2> QED
    BY <1>4, <2>1 DEF WriteConfig, TypeOK
<1>5. ASSUME NEW t \in Tree, Install(t) \/ Uninstall(t)
      PROVE  TypeOK'
  <2>1. jobs' = jobs + 1 /\ jobs < MaxJobs
    BY <1>5 DEF Install, Uninstall
  <2>2. jobs' \in 0 .. MaxJobs
    BY <2>1, TreeAssumption DEF TypeOK
  <2>3. {done', cleaned'} \subseteq SUBSET Tree
    BY <1>5 DEF Install, Uninstall, TypeOK
  <2>4. {kept', served', off'} \subseteq BOOLEAN
    BY <1>5 DEF Install, Uninstall, TypeOK
  <2>5. job' \in [cmd : {"none", "install", "uninstall"}, tree : Tree,
                 at : {"bin", "script", "look", "example", "register", "start",
                       "last", "stop", "deregister", "initd", "conf", "sock", "end"}]
    BY <1>5 DEF Install, Uninstall
  <2>6. CASE Install(t)
    BY <2>6, <2>2, <2>3, <2>4, <2>5 DEF Install, TypeOK
  <2>7. CASE Uninstall(t)
    BY <2>7, <2>2, <2>3, <2>4, <2>5 DEF Uninstall, TypeOK
  <2> QED
    BY <1>5, <2>6, <2>7
<1>6. CASE CopyBinary
  BY <1>6, JobTyped DEF CopyBinary, Copied, TypeOK
<1>7. CASE WriteScript
  BY <1>7, JobTyped DEF WriteScript, TypeOK
<1>8. CASE LookForConfig \/ WriteExample
  BY <1>8, JobTyped DEF LookForConfig, WriteExample, TypeOK
<1>9. CASE WriteCutShort
  <2>1. job.tree \in Tree
    BY DEF TypeOK
  <2>2. cut' \subseteq Tree \X {"initd", "conf"}
    BY <1>9, <2>1 DEF WriteCutShort, TypeOK
  <2>3. initd' \in [Tree -> {"none", "part", "script"}]
        /\ conf' \in [Tree -> {"none", "part", "example", "user"}]
    BY <1>9, <2>1 DEF WriteCutShort, TypeOK
  <2> QED
    BY <1>9, <2>2, <2>3, JobTyped DEF WriteCutShort, TypeOK
<1>10. CASE Register
  <2>1. enabled' \in BOOLEAN
    BY <1>10 DEF Register, TypeOK
  <2>2. CASE job.tree = System
    BY <1>10, <2>1, <2>2, JobTyped DEF Register, TypeOK
  <2>3. CASE job.tree # System
    BY <1>10, <2>1, <2>3, JobTyped DEF Register, TypeOK
  <2> QED
    BY <2>2, <2>3
<1>11. CASE InstallStarts
  BY <1>11, JobTyped, StartTyped DEF InstallStarts, TypeOK
<1>12. CASE Installed \/ Abandon
  <2>1. done' \in SUBSET Tree
    BY <1>12 DEF Installed, Abandon, TypeOK
  <2> QED
    BY <1>12, <2>1, JobTyped DEF Installed, Abandon, TypeOK
<1>13. CASE UninstallStops
  <2>1. served' \in BOOLEAN
    BY <1>13 DEF UninstallStops, TypeOK
  <2> QED
    BY <1>13, <2>1, JobTyped, StartTyped DEF UninstallStops, TypeOK
<1>14. CASE Deregister
  <2>1. served' \in BOOLEAN
    BY <1>14 DEF Deregister, TypeOK
  <2> QED
    BY <1>14, <2>1, JobTyped DEF Deregister, TypeOK
<1>15. CASE RemoveFile
  BY <1>15, JobTyped DEF RemoveFile, Without, TypeOK
<1>16. CASE FileStays
  BY <1>16, JobTyped DEF FileStays, TypeOK
<1>17. CASE RemoveSocket
  <2>1. off' \in BOOLEAN
    BY <1>17 DEF RemoveSocket, TypeOK
  <2> QED
    BY <1>17, <2>1, JobTyped DEF RemoveSocket, Unlink, TypeOK
<1>18. CASE UNCHANGED vars
  BY <1>18 DEF vars, TypeOK
<1> QED
  BY <1>1, <1>2, <1>3, <1>4, <1>5, <1>6, <1>7, <1>8, <1>9, <1>10, <1>11, <1>12,
     <1>13, <1>14, <1>15, <1>16, <1>17, <1>18 DEF Next

\* Every reachable state is well typed: whatever is abandoned, no tree ever holds
\* a part of the program (copyFile).
THEOREM TypeCorrect == Spec => []TypeOK
<1>1. Init => TypeOK
  <2> SUFFICES ASSUME Init PROVE TypeOK
    OBVIOUS
  <2>1. job \in [cmd : {"none", "install", "uninstall"}, tree : Tree,
                at : {"bin", "script", "look", "example", "register", "start",
                      "last", "stop", "deregister", "initd", "conf", "sock", "end"}]
    BY TreeAssumption DEF Init, NoJob
  <2>2. jobs \in 0 .. MaxJobs
    BY TreeAssumption DEF Init
  <2> QED
    BY <2>1, <2>2 DEF Init, TypeOK
<1> QED
  BY <1>1, TypeInductive, PTL DEF Spec

-----------------------------------------------------------------------------
(* The socket.                                                              *)

\* A daemon that has had the machine for itself is at the path of the socket,
\* through any starts, stops, crashes and installs (Server.Listen, Shutdown).
THEOREM SocketCorrect == Spec => []ServesAtSocket
<1>1. Init => ServesAtSocket
  BY DEF Init, ServesAtSocket
<1>2. ServesAtSocket /\ [Next]_vars => ServesAtSocket'
  <2> SUFFICES ASSUME ServesAtSocket, [Next]_vars
               PROVE  ServesAtSocket'
    OBVIOUS
  <2> USE DEF ServesAtSocket
  <2>1. ASSUME NEW d, Launch(d)
        PROVE  ServesAtSocket'
    BY <2>1 DEF Launch, Listened
  <2>2. ASSUME NEW d \in Daemon, Terminate(d) \/ Exit(d) \/ Crash(d)
        PROVE  ServesAtSocket'
    BY <2>2 DEF Terminate, Exit, Crash, Unlink
  <2>3. CASE RcStart
    BY <2>3, <2>1 DEF RcStart, daemons
  <2>4. CASE RcStop
    BY <2>4 DEF RcStop, Unlink
  <2>5. CASE RemoveSocket
    BY <2>5 DEF RemoveSocket, Unlink
  <2>6. CASE UNCHANGED daemons
    BY <2>6 DEF daemons
  <2>7. CASE RunByHand \/ StartService \/ StopService \/ InstallStarts \/ UninstallStops
    BY <2>7, <2>1, <2>3, <2>4, <2>6
       DEF RunByHand, StartService, StopService, InstallStarts, UninstallStops
  <2>8. CASE \/ \E t \in Tree : WriteConfig(t) \/ Install(t) \/ Uninstall(t)
             \/ CopyBinary \/ WriteScript \/ LookForConfig \/ WriteExample
             \/ WriteCutShort \/ Register \/ Installed \/ Abandon \/ Deregister
             \/ RemoveFile \/ FileStays \/ UNCHANGED vars
    <3>1. UNCHANGED daemons
      BY <2>8 DEF WriteConfig, Install, Uninstall, CopyBinary, WriteScript,
                  LookForConfig, WriteExample, WriteCutShort, Register, Installed,
                  Abandon, Deregister, RemoveFile, FileStays, vars
    <3> QED
      BY <2>6, <3>1
  <2> QED
    BY <2>2, <2>5, <2>7, <2>8 DEF Next
<1> QED
  BY <1>1, <1>2, PTL DEF Spec

-----------------------------------------------------------------------------
(* Files.                                                                   *)

\* What each step of an install can rely on.
InstallPhase ==
    LET t == job.tree IN
    job.cmd = "install" =>
        /\ t \notin cleaned /\ (t = System => ~off)
        /\ job.at = "start" => t = System
        /\ job.at # "bin" => bin[t] = "whole"
        /\ job.at \notin {"bin", "script"} => initd[t] # "none"
        /\ job.at = "example" => wrote \/ conf[t] = "none"
        /\ job.at \in {"register", "start", "last"} => conf[t] # "none"

\* What each step of an uninstall has seen to, unless something failed.
UninstallPhase ==
    LET t == job.tree IN
    job.cmd = "uninstall" =>
        /\ t \notin done
        /\ served \/
             /\ job.at # "stop" => ~started
             /\ job.at \notin {"stop", "deregister"} => ~enabled
        /\ kept \/
             /\ job.at \in {"initd", "conf", "sock"} => bin[t] = "none"
             /\ job.at \in {"conf", "sock"} => initd[t] = "none"
             /\ job.at = "sock" => conf[t] = "none"

\* A file that is there in part was cut short.
PartsAreCut ==
    \A t \in Tree : /\ initd[t] = "part" => <<t, "initd">> \in cut
                    /\ conf[t] = "part" => <<t, "conf">> \in cut

ServiceIsStarted == "service" \in up \cup closing => started

DoneIsThere ==
    \A t \in done : bin[t] = "whole" /\ initd[t] # "none" /\ conf[t] # "none"

Inv ==
    /\ InstallPhase
    /\ UninstallPhase
    /\ PartsAreCut
    /\ ServiceIsStarted
    /\ DoneIsThere
    /\ UninstallIsComplete

\* A configuration that the user writes can only help.
LEMMA WriteConfigKeeps ==
    ASSUME TypeOK, Inv, NEW u \in Tree, WriteConfig(u)
    PROVE  Inv'
<1>1. /\ conf \in [Tree -> {"none", "part", "example", "user"}]
      /\ job.tree \in Tree /\ done \subseteq Tree
  BY DEF TypeOK
<1>2. /\ UNCHANGED <<bin, initd, enabled, started, up, closing, job, done>>
      /\ conf' = [conf EXCEPT ![u] = "user"]
      /\ cut' = cut \ {<<u, "conf">>}
      /\ wrote' = (wrote \/ job.cmd = "install")
      /\ cleaned' = cleaned \ {u}
      /\ UNCHANGED <<served, off>>
      /\ kept' = (kept \/ (job.cmd = "uninstall" /\ job.at = "sock" /\ job.tree = u))
  BY DEF WriteConfig, openrc, daemons, Running
<1>3. \A t \in Tree : conf'[t] = IF t = u THEN "user" ELSE conf[t]
  BY <1>1, <1>2
<1>4. InstallPhase'
  BY <1>1, <1>2, <1>3 DEF Inv, InstallPhase
<1>5. UninstallPhase'
  <2> SUFFICES ASSUME job.cmd = "uninstall"
               PROVE  /\ job.tree \notin done
                      /\ served \/
                           /\ job.at # "stop" => ~started
                           /\ job.at \notin {"stop", "deregister"} => ~enabled
                      /\ kept' \/
                           /\ job.at \in {"initd", "conf", "sock"} => bin[job.tree] = "none"
                           /\ job.at \in {"conf", "sock"} => initd[job.tree] = "none"
                           /\ job.at = "sock" => conf'[job.tree] = "none"
    BY <1>2 DEF UninstallPhase
  <2>1. ~kept' => ~kept /\ (job.at = "sock" => conf'[job.tree] = conf[job.tree])
    BY <1>1, <1>2, <1>3
  <2> QED
    BY <2>1 DEF Inv, UninstallPhase
<1>6. PartsAreCut'
  <2> SUFFICES ASSUME NEW t \in Tree
               PROVE  /\ initd[t] = "part" => <<t, "initd">> \in cut'
                      /\ conf'[t] = "part" => <<t, "conf">> \in cut'
    BY <1>2 DEF PartsAreCut
  <2>1. initd[t] = "part" => <<t, "initd">> \in cut'
    BY <1>2 DEF Inv, PartsAreCut
  <2>2. conf'[t] = "part" => t # u /\ conf[t] = "part"
    BY <1>3
  <2> QED
    BY <1>2, <2>1, <2>2 DEF Inv, PartsAreCut
<1>7. ServiceIsStarted'
  BY <1>2 DEF Inv, ServiceIsStarted
<1>8. DoneIsThere'
  BY <1>1, <1>2, <1>3 DEF Inv, DoneIsThere
<1>9. cleaned \subseteq Tree
  BY DEF TypeOK
<1>10. UninstallIsComplete'
  BY <1>2, <1>3, <1>9 DEF Inv, UninstallIsComplete
<1> QED
  BY <1>4, <1>5, <1>6, <1>7, <1>8, <1>10 DEF Inv

\* The script stops the service for good.
LEMMA StopKeeps ==
    ASSUME Inv, StopService
    PROVE  Inv'
<1>1. /\ UNCHANGED <<bin, initd, conf, enabled, job, done, cut, wrote, kept, served,
                   cleaned, off>>
      /\ started' = FALSE
      /\ up' = up \ {"service"}
      /\ closing' = closing \ {"service"}
  BY DEF StopService, RcStop, files, history, uninstalled
<1>2. InstallPhase' /\ PartsAreCut' /\ DoneIsThere'
  BY <1>1 DEF Inv, InstallPhase, PartsAreCut, DoneIsThere
<1>3. UninstallPhase'
  BY <1>1 DEF Inv, UninstallPhase
<1>4. ServiceIsStarted'
  BY <1>1 DEF Inv, ServiceIsStarted
<1>5. UninstallIsComplete'
  BY <1>1 DEF Inv, UninstallIsComplete
<1> QED
  BY <1>2, <1>3, <1>4, <1>5 DEF Inv

\* Only what is installed can be started.
LEMMA StartKeeps ==
    ASSUME TypeOK, Inv, StartService
    PROVE  Inv'
<1>1. /\ UNCHANGED <<bin, initd, conf, enabled, job, done, cut, wrote, cleaned>>
      /\ initd[System] = "script"
      /\ started' = TRUE
      /\ served' = (served \/ (job.cmd = "uninstall" /\ job.at # "stop"))
      /\ off' = FALSE
      /\ UNCHANGED kept
  BY DEF StartService, RcStart, files
<1>2. InstallPhase' /\ PartsAreCut' /\ DoneIsThere'
  BY <1>1 DEF Inv, InstallPhase, PartsAreCut, DoneIsThere
<1>3. UninstallPhase'
  BY <1>1, Zenon DEF Inv, UninstallPhase
<1>4. ServiceIsStarted'
  BY <1>1 DEF ServiceIsStarted
<1>5. UninstallIsComplete'
  BY <1>1 DEF Inv, UninstallIsComplete
<1> QED
  BY <1>2, <1>3, <1>4, <1>5 DEF Inv

LEMMA FilesInductive == TypeOK /\ Inv /\ [Next]_vars => Inv'
<1> SUFFICES ASSUME TypeOK, Inv, [Next]_vars
             PROVE  Inv'
  OBVIOUS
<1> USE TreeAssumption DEF files, openrc, daemons, history, uninstalled, Inv, InstallPhase,
        UninstallPhase, PartsAreCut, ServiceIsStarted, DoneIsThere,
        UninstallIsComplete, TypeOK, Running, Continue, End, NoJob
<1>1. CASE RunByHand
  BY <1>1 DEF RunByHand, Launch
<1>2. ASSUME NEW d \in Daemon, Terminate(d) \/ Exit(d) \/ Crash(d)
      PROVE  Inv'
  BY <1>2 DEF Terminate, Exit, Crash
<1>3. CASE StartService
  BY <1>3, StartKeeps
<1>4. CASE StopService
  BY <1>4, StopKeeps
<1>5. ASSUME NEW t \in Tree, WriteConfig(t)
      PROVE  Inv'
  BY <1>5, WriteConfigKeeps
<1>6. ASSUME NEW t \in Tree, Install(t)
      PROVE  Inv'
  BY <1>6 DEF Install
<1>7. ASSUME NEW t \in Tree, Uninstall(t)
      PROVE  Inv'
  BY <1>7 DEF Uninstall
<1>8. CASE CopyBinary
  BY <1>8 DEF CopyBinary, Copied
<1>9. CASE WriteScript
  BY <1>9 DEF WriteScript
<1>10. CASE LookForConfig
  BY <1>10 DEF LookForConfig, KeepsConfig
<1>11. CASE WriteExample
  BY <1>11 DEF WriteExample
<1>12. CASE WriteCutShort
  BY <1>12 DEF WriteCutShort
<1>13. CASE Register
  <2>1. InstallPhase' /\ UninstallPhase'
    <3>1. /\ job.cmd = "install" /\ job.at = "register"
          /\ UNCHANGED <<files, wrote, cleaned, off>>
      BY <1>13 DEF Register
    <3>2. job' = [job EXCEPT !.at = IF job.tree = System THEN "start" ELSE "last"]
      BY <1>13 DEF Register
    <3>3. /\ job'.cmd = "install" /\ job'.tree = job.tree
          /\ job'.at \in {"start", "last"}
          /\ job'.at = "start" => job.tree = System
      BY <3>1, <3>2
    <3> QED
      BY <3>1, <3>3
  <2>2. PartsAreCut' /\ DoneIsThere'
    BY <1>13 DEF Register
  <2>3. ServiceIsStarted'
    BY <1>13 DEF Register
  <2>4. UninstallIsComplete'
    BY <1>13 DEF Register
  <2> QED
    BY <2>1, <2>2, <2>3, <2>4
<1>14. CASE InstallStarts
  BY <1>14 DEF InstallStarts, RcStart, Launch
<1>15. CASE Installed
  BY <1>15 DEF Installed
<1>16. CASE Abandon
  BY <1>16 DEF Abandon
<1>17. CASE UninstallStops
  BY <1>17 DEF UninstallStops, RcStop
<1>18. CASE Deregister
  <2>1. InstallPhase' /\ PartsAreCut' /\ DoneIsThere'
    BY <1>18 DEF Deregister
  <2>2. UninstallPhase'
    BY <1>18 DEF Deregister
  <2>3. ServiceIsStarted'
    BY <1>18 DEF Deregister
  <2>4. UninstallIsComplete'
    <3>1. enabled' => enabled
      BY <1>18, Zenon DEF Deregister
    <3>2. UNCHANGED <<files, started, daemons, cleaned, off>>
      BY <1>18 DEF Deregister
    <3> QED
      BY <3>1, <3>2
  <2> QED
    BY <2>1, <2>2, <2>3, <2>4
<1>19. CASE RemoveFile
  BY <1>19, SMTT(30) DEF RemoveFile, Without
<1>20. CASE FileStays
  BY <1>20 DEF FileStays
<1>21. CASE RemoveSocket
  BY <1>21 DEF RemoveSocket
<1>22. CASE UNCHANGED vars
  BY <1>22 DEF vars
<1> QED
  BY <1>1, <1>2, <1>3, <1>4, <1>5, <1>6, <1>7, <1>8, <1>9, <1>10, <1>11, <1>12,
     <1>13, <1>14, <1>15, <1>16, <1>17, <1>18, <1>19, <1>20, <1>21, <1>22 DEF Next

LEMMA FilesInvariant == Spec => []Inv
<1>1. Init => Inv
  BY DEF Init, Inv, InstallPhase, UninstallPhase, PartsAreCut,
         ServiceIsStarted, DoneIsThere, UninstallIsComplete, NoJob
<1> QED
  BY <1>1, FilesInductive, TypeCorrect, PTL DEF Spec

\* What an install has completed stays startable (copyFile, cmdInstall).
THEOREM StaysInstalledCorrect == Spec => []StaysInstalled
<1>1. TypeOK /\ Inv => StaysInstalled
  BY DEF TypeOK, Inv, DoneIsThere, PartsAreCut, StaysInstalled
<1> QED
  BY <1>1, TypeCorrect, FilesInvariant, PTL

\* What an uninstall removes is gone until the next install, and the service
\* that it stopped and deregistered is off, after any earlier commands; a failed
\* step, a start or a write of the user in between excepted (cmdUninstall).
THEOREM UninstallCorrect == Spec => []UninstallIsComplete
BY FilesInvariant, PTL DEF Inv

\* No install takes a configuration of the user's (cmdInstall).
THEOREM UserConfigCorrect == Spec => UserConfigKept
<1> DEFINE Kept == \A t \in Tree : conf[t] = "user" /\ conf'[t] # "user" =>
                       job.tree = t /\ (job.cmd = "uninstall" \/ wrote)
<1>1. TypeOK /\ Inv /\ [Next]_vars => [Kept]_vars
  <2> SUFFICES ASSUME TypeOK, Inv, Next
               PROVE  Kept
    OBVIOUS
  <2> USE DEF TypeOK, Running
  <2>1. CASE WriteExample
    BY <2>1 DEF WriteExample, Inv, InstallPhase
  <2>2. CASE WriteCutShort
    BY <2>2 DEF WriteCutShort, Inv, InstallPhase
  <2>3. CASE RemoveFile
    BY <2>3 DEF RemoveFile, Without
  <2>4. ASSUME NEW t \in Tree, WriteConfig(t)
        PROVE  Kept
    BY <2>4 DEF WriteConfig
  <2>5. CASE UNCHANGED conf
    BY <2>5
  <2> QED
    BY <2>1, <2>2, <2>3, <2>4, <2>5
       DEF Next, RunByHand, Terminate, Exit, Crash, StartService, StopService,
           Install, CopyBinary, WriteScript, LookForConfig, Register, InstallStarts,
           Installed, Abandon, Uninstall, UninstallStops, Deregister, FileStays,
           RemoveSocket, files
<1> QED
  BY <1>1, TypeCorrect, FilesInvariant, PTL DEF Spec, UserConfigKept
=============================================================================
