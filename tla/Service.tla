-------------------------------- MODULE Service --------------------------------
(***************************************************************************)
(* nexthop as a service of the system: the commands install and uninstall  *)
(* (cmd/nexthop/install.go), the OpenRC script they leave, the entries of  *)
(* the main menu that call it (tui.go), and the control socket that the    *)
(* daemons of a machine share (internal/control/server.go).                *)
(*                                                                         *)
(* A tree is what -prefix names: the system itself, or a directory that    *)
(* nothing is started from.  At most one install or uninstall runs at a    *)
(* time; everything else may happen between two of its steps.              *)
(***************************************************************************)
EXTENDS Naturals

CONSTANTS
    Tree,    \* where the program can be installed
    System,  \* the tree without a prefix
    MaxJobs  \* bound on the installs and uninstalls

ASSUME TreeAssumption == System \in Tree /\ MaxJobs \in Nat

\* The daemon that OpenRC runs, and one that is run by hand with the default
\* socket.
Daemon == {"service", "hand"}

VARIABLES
    bin,      \* tree -> usr/sbin/nexthop
    initd,    \* tree -> etc/init.d/nexthop
    conf,     \* tree -> etc/nexthop/config.yaml
    enabled,  \* OpenRC starts the service when the system boots
    started,  \* OpenRC takes the service to be started
    up,       \* the daemons that serve
    closing,  \* the daemons in Shutdown, for up to two seconds
    sock,     \* where /run/nexthop.sock leads: "none", "dead" or a daemon
    job,      \* the command that runs and its next step
    jobs,     \* the commands so far
    done,     \* history: the trees that an install was completed in
    cut,      \* history: the files that were written in part only
    wrote,    \* history: the user wrote the configuration after install looked
    kept,     \* history: this uninstall could not remove a file, or the user
              \* wrote the configuration after it was removed
    served,   \* history: this uninstall had no script to stop the service with,
              \* or stop or deregister failed, or a start came after the stop
    cleaned,  \* history: the trees that an uninstall has just removed
    off,      \* history: an uninstall has ended the service
    crowded   \* history: the daemons that have not had the socket for themselves

files == <<bin, initd, conf>>
openrc == <<enabled, started>>
daemons == <<up, closing, sock, crowded>>
uninstalled == <<kept, served, cleaned, off>>
history == <<done, cut, wrote, uninstalled>>
vars == <<files, openrc, daemons, job, jobs, history>>

NoJob == [cmd |-> "none", tree |-> System, at |-> "end"]
Running(cmd, step) == job.cmd = cmd /\ job.at = step
Continue(step) == job' = [job EXCEPT !.at = step]
End == job' = NoJob

Init ==
    /\ bin = [t \in Tree |-> "none"]
    /\ initd = [t \in Tree |-> "none"]
    /\ conf = [t \in Tree |-> "none"]
    /\ enabled = FALSE
    /\ started = FALSE
    /\ up = {}
    /\ closing = {}
    /\ sock = "none"
    /\ job = NoJob
    /\ jobs = 0
    /\ done = {}
    /\ cut = {}
    /\ wrote = FALSE
    /\ kept = FALSE
    /\ served = FALSE
    /\ cleaned = {}
    /\ off = FALSE
    /\ crowded = {}

-----------------------------------------------------------------------------
(* Daemons and their socket.                                               *)

\* A socket file that is there already is left alone.
ListenedKeeping(d) == IF sock = "dead" THEN "dead" ELSE d

\* Listen removes whatever is at the path.
Listened(d) == d

Launch(d) ==
    /\ d \notin up \cup closing
    /\ up' = up \cup {d}
    /\ sock' = Listened(d)
    /\ crowded' = IF up \cup closing = {} THEN {} ELSE up \cup closing \cup {d}
    /\ UNCHANGED closing

\* The path is removed, whoever listens there now.
Unlink(by) == sock' = "none" /\ crowded' = crowded \cup (up \ by)

RunByHand ==
    /\ Launch("hand")
    /\ UNCHANGED <<files, openrc, job, jobs, history>>

\* SIGTERM: Shutdown closes the listener, which removes the path.
Terminate(d) ==
    /\ d \in up
    /\ up' = up \ {d}
    /\ closing' = closing \cup {d}
    /\ Unlink({d})
    /\ UNCHANGED <<files, openrc, job, jobs, history>>

\* When the requests are answered or two seconds have passed, Shutdown removes
\* the path once more.
Exit(d) ==
    /\ d \in closing
    /\ closing' = closing \ {d}
    /\ Unlink({})
    /\ UNCHANGED <<files, openrc, up, job, jobs, history>>

Crash(d) ==
    /\ d \in up
    /\ up' = up \ {d}
    /\ sock' = IF sock = d THEN "dead" ELSE sock
    /\ UNCHANGED <<files, openrc, closing, crowded, job, jobs, history>>

-----------------------------------------------------------------------------
(* The script.                                                             *)

\* OpenRC puts the daemon in the background and does not wait to see whether
\* it accepts its configuration or ends at once; no supervisor restarts it.
RcStart ==
    /\ initd[System] = "script"
    /\ bin[System] = "whole"
    /\ ~started
    /\ started' = TRUE
    /\ \/ conf[System] \in {"example", "user"} /\ Launch("service")
       \/ UNCHANGED daemons
    /\ UNCHANGED enabled

\* OpenRC waits for the daemon to end; stop_post then removes the socket.
RcStop ==
    /\ initd[System] = "script"
    /\ started
    /\ started' = FALSE
    /\ up' = up \ {"service"}
    /\ closing' = closing \ {"service"}
    /\ Unlink({"service"})
    /\ UNCHANGED enabled

\* The administrator, the main menu, or a boot.
StartService ==
    /\ RcStart
    /\ served' = (served \/ (job.cmd = "uninstall" /\ job.at # "stop"))
    /\ off' = FALSE
    /\ UNCHANGED <<files, job, jobs, done, cut, wrote, kept, cleaned>>

StopService ==
    /\ RcStop
    /\ UNCHANGED <<files, job, jobs, history>>

\* The user writes the configuration file, or completes one.
WriteConfig(t) ==
    /\ conf' = [conf EXCEPT ![t] = "user"]
    /\ cut' = cut \ {<<t, "conf">>}
    /\ wrote' = (wrote \/ job.cmd = "install")
    /\ cleaned' = cleaned \ {t}
    /\ kept' = (kept \/ (Running("uninstall", "sock") /\ job.tree = t))
    /\ UNCHANGED <<bin, initd, openrc, daemons, job, jobs, done, served, off>>

-----------------------------------------------------------------------------
(* install.                                                                *)

Install(t) ==
    /\ job = NoJob
    /\ jobs < MaxJobs
    /\ job' = [cmd |-> "install", tree |-> t, at |-> "bin"]
    /\ jobs' = jobs + 1
    /\ wrote' = FALSE
    /\ cleaned' = cleaned \ {t}
    /\ off' = (off /\ t # System)
    /\ UNCHANGED <<files, openrc, daemons, done, cut, kept, served>>

\* A copy that is written where the program is.
CopiedInPlace == {"whole", "part"}

\* copyFile moves a complete copy into its place, or fails and leaves what is
\* there.  A kill in its middle leaves its temporary file, which nothing reads
\* and no uninstall removes: that file is left out.
Copied == {"whole", bin[job.tree]}

CopyBinary ==
    /\ Running("install", "bin")
    /\ \E b \in Copied :
           /\ bin' = [bin EXCEPT ![job.tree] = b]
           /\ IF b = "whole" THEN Continue("script") ELSE End
    /\ UNCHANGED <<initd, conf, openrc, daemons, jobs, history>>

WriteScript ==
    /\ Running("install", "script")
    /\ initd' = [initd EXCEPT ![job.tree] = "script"]
    /\ cut' = cut \ {<<job.tree, "initd">>}
    /\ Continue("look")
    /\ UNCHANGED <<bin, conf, openrc, daemons, jobs, done, wrote, uninstalled>>

\* Every install writes the example.
KeepsNothing(t) == FALSE

KeepsConfig(t) == conf[t] # "none"

LookForConfig ==
    /\ Running("install", "look")
    /\ Continue(IF KeepsConfig(job.tree) THEN "register" ELSE "example")
    /\ UNCHANGED <<files, openrc, daemons, jobs, history>>

WriteExample ==
    /\ Running("install", "example")
    /\ conf' = [conf EXCEPT ![job.tree] = "example"]
    /\ Continue("register")
    /\ UNCHANGED <<bin, initd, openrc, daemons, jobs, history>>

\* os.WriteFile truncates the file, then writes: the disk is full, or install
\* is killed.
WriteCutShort ==
    LET t == job.tree IN
    /\ \/ /\ Running("install", "script")
          /\ initd' = [initd EXCEPT ![t] = "part"]
          /\ cut' = cut \cup {<<t, "initd">>}
          /\ UNCHANGED conf
       \/ /\ Running("install", "example")
          /\ conf' = [conf EXCEPT ![t] = "part"]
          /\ cut' = cut \cup {<<t, "conf">>}
          /\ UNCHANGED initd
    /\ End
    /\ UNCHANGED <<bin, openrc, daemons, jobs, done, wrote, uninstalled>>

\* rc-update add; a failure is only a warning.  With a prefix nothing is
\* registered or started.
Register ==
    /\ Running("install", "register")
    /\ IF job.tree = System
       THEN enabled' \in {enabled, TRUE} /\ Continue("start")
       ELSE Continue("last") /\ UNCHANGED enabled
    /\ UNCHANGED <<files, started, daemons, jobs, history>>

\* rc-service start; again a failure is only a warning.
InstallStarts ==
    /\ Running("install", "start")
    /\ RcStart \/ UNCHANGED <<openrc, daemons>>
    /\ Continue("last")
    /\ UNCHANGED <<files, jobs, history>>

Installed ==
    /\ Running("install", "last")
    /\ done' = done \cup {job.tree}
    /\ End
    /\ UNCHANGED <<files, openrc, daemons, jobs, cut, wrote, uninstalled>>

\* A command is killed, or a step fails that changes nothing.
Abandon ==
    /\ job # NoJob
    /\ End
    /\ UNCHANGED <<files, openrc, daemons, jobs, history>>

-----------------------------------------------------------------------------
(* uninstall.  Failures are ignored.                                       *)

Uninstall(t) ==
    /\ job = NoJob
    /\ jobs < MaxJobs
    /\ job' = [cmd |-> "uninstall", tree |-> t,
               at |-> IF initd[System] = "none" THEN "bin" ELSE "stop"]
    /\ jobs' = jobs + 1
    /\ done' = done \ {t}
    /\ kept' = FALSE
    /\ served' = (initd[System] = "none" /\ (started \/ enabled))
    /\ UNCHANGED <<files, openrc, daemons, cut, wrote, cleaned, off>>

\* The service is not stopped before its files go.
UninstallLeavesRunning ==
    /\ Running("uninstall", "stop")
    /\ Continue("deregister")
    /\ UNCHANGED <<files, openrc, daemons, jobs, history>>

\* The script of the system is called, whatever the prefix.
UninstallStops ==
    /\ Running("uninstall", "stop")
    /\ \/ RcStop /\ UNCHANGED served
       \/ UNCHANGED <<openrc, daemons>> /\ served' = (served \/ started)
    /\ Continue("deregister")
    /\ UNCHANGED <<files, jobs, done, cut, wrote, kept, cleaned, off>>

Deregister ==
    /\ Running("uninstall", "deregister")
    /\ enabled' \in {enabled, FALSE}
    /\ served' = (served \/ enabled')
    /\ Continue("bin")
    /\ UNCHANGED <<files, started, daemons, jobs, done, cut, wrote, kept, cleaned, off>>

Without(f, k) ==
    IF Running("uninstall", k) THEN [f EXCEPT ![job.tree] = "none"] ELSE f

RemoveFile ==
    /\ \/ Running("uninstall", "bin") /\ Continue("initd")
       \/ Running("uninstall", "initd") /\ Continue("conf")
       \/ Running("uninstall", "conf") /\ Continue("sock")
    /\ bin' = Without(bin, "bin")
    /\ initd' = Without(initd, "initd")
    /\ conf' = Without(conf, "conf")
    /\ cut' = cut \ {<<job.tree, job.at>>}
    /\ UNCHANGED <<openrc, daemons, jobs, done, wrote, uninstalled>>

FileStays ==
    /\ \/ Running("uninstall", "bin") /\ Continue("initd")
       \/ Running("uninstall", "initd") /\ Continue("conf")
       \/ Running("uninstall", "conf") /\ Continue("sock")
    /\ kept' = TRUE
    /\ UNCHANGED <<files, openrc, daemons, jobs, done, cut, wrote, served, cleaned, off>>

\* The socket, the pid file and the wrapper of the system, whatever the prefix.
RemoveSocket ==
    /\ Running("uninstall", "sock")
    /\ Unlink({})
    /\ cleaned' = IF kept THEN cleaned ELSE cleaned \cup {job.tree}
    /\ off' = (off \/ (job.tree = System /\ ~served))
    /\ End
    /\ UNCHANGED <<files, openrc, up, closing, jobs, done, cut, wrote, kept, served>>

Next ==
    \/ RunByHand
    \/ \E d \in Daemon : Terminate(d)
    \/ \E d \in Daemon : Exit(d)
    \/ \E d \in Daemon : Crash(d)
    \/ StartService
    \/ StopService
    \/ \E t \in Tree : WriteConfig(t)
    \/ \E t \in Tree : Install(t)
    \/ CopyBinary
    \/ WriteScript
    \/ LookForConfig
    \/ WriteExample
    \/ WriteCutShort
    \/ Register
    \/ InstallStarts
    \/ Installed
    \/ Abandon
    \/ \E t \in Tree : Uninstall(t)
    \/ UninstallStops
    \/ Deregister
    \/ RemoveFile
    \/ FileStays
    \/ RemoveSocket

Spec == Init /\ [][Next]_vars

-----------------------------------------------------------------------------

\* Every variable has its type: the program is never there in part only, which
\* is what copyFile is for (install.go 153-180).
TypeOK ==
    /\ bin \in [Tree -> {"none", "whole"}]
    /\ initd \in [Tree -> {"none", "part", "script"}]
    /\ conf \in [Tree -> {"none", "part", "example", "user"}]
    /\ {enabled, started, wrote, kept, served, off} \subseteq BOOLEAN
    /\ {up, closing, crowded} \subseteq SUBSET Daemon
    /\ sock \in Daemon \cup {"none", "dead"}
    /\ job \in [cmd : {"none", "install", "uninstall"}, tree : Tree,
                at : {"bin", "script", "look", "example", "register", "start",
                      "last", "stop", "deregister", "initd", "conf", "sock", "end"}]
    /\ jobs \in 0 .. MaxJobs
    /\ {done, cleaned} \subseteq SUBSET Tree
    /\ cut \subseteq Tree \X {"initd", "conf"}

\* A configuration of the user's is only ever lost to an uninstall of its tree:
\* not to an install, be it the first, a repeated or an abandoned one, unless
\* the user wrote it while the install was under way (install.go 82-94).
UserConfigKept ==
    [][\A t \in Tree : conf[t] = "user" /\ conf'[t] # "user" =>
           job.tree = t /\ (job.cmd = "uninstall" \/ wrote)]_vars

\* Where an install was once completed and no uninstall has come since, the
\* service can be started, also in the middle of another install and after one
\* that was abandoned; excepted is a script or an example that was written in
\* part only (install.go 56-94).
StaysInstalled ==
    \A t \in done :
        /\ bin[t] = "whole"
        /\ initd[t] = "script" \/ <<t, "initd">> \in cut
        /\ conf[t] \in {"example", "user"} \/ <<t, "conf">> \in cut

\* What the last uninstall of a tree could remove is gone until the next
\* install: its program, its script and its configuration, unless a removal
\* failed or the user wrote the configuration after its removal.  And when an
\* uninstall of the system found the script, stopped and deregistered the
\* service with it, and no start came between the stop and the end, then the
\* service is neither registered nor running, whatever earlier uninstalls left
\* undone (install.go 116-143).  That leaves out the uninstall that finds no
\* script, which cannot stop a service that an earlier one left running and
\* ends without an error, and the start in between.
UninstallIsComplete ==
    /\ \A t \in cleaned : {bin[t], initd[t], conf[t]} = {"none"}
    /\ off => ~enabled /\ ~started /\ "service" \notin up \cup closing

\* A daemon that serves can be reached: the path leads to it, unless another
\* daemon ran at the same time, or the script or uninstall removed the path
\* (server.go 61-87).
ServesAtSocket == \A d \in up : d \notin crowded => sock = d

\* An uninstall with a prefix leaves the service of the system alone: it does
\* not stop an installed one that runs and that OpenRC starts at boot, it does
\* not deregister it, and it leaves it its socket.
PrefixLeavesSystem ==
    [][(/\ job.cmd = "uninstall" /\ job.tree # System /\ job' # job
        /\ System \in done /\ enabled /\ "service" \in up)
           => UNCHANGED <<openrc, daemons>>]_vars
===============================================================================
