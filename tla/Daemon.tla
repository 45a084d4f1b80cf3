-------------------------------- MODULE Daemon --------------------------------
(***************************************************************************)
(* The process "nexthop run" (cmd/nexthop/run.go) with its control server  *)
(* (internal/control/server.go) and its configuration file                 *)
(* (config.Load, config.Save): start, the two ways to change the           *)
(* configuration, signals, shutdown, and crashes at any step.              *)
(*                                                                         *)
(* Each request of the control server runs in a goroutine of its own, and *)
(* SIGHUP is served by main; nothing orders their steps.  The manager      *)
(* appears as the configuration it runs, which Reload replaces at once.    *)
(***************************************************************************)
EXTENDS Sequences, Naturals

CONSTANTS
    Config,   \* contents of the file that pass Parse
    Broken,   \* any content that does not
    Request,  \* the requests the control server serves at a time
    Main,     \* the goroutine of cmdRun
    Off       \* no configuration is running

ASSUME DaemonAssumption ==
    /\ Broken \notin Config
    /\ Off \notin Config
    /\ Main \notin Request

Content == Config \cup {Broken}
Actor == Request \cup {Main}

VARIABLES
    file,        \* the content of the configuration file
    running,     \* the configuration of the manager
    main,        \* "down", "starting", "loop" (signals are handled), "stopping"
    serving,     \* the control server accepts requests
    sigCh,       \* the channel of signal.Notify, of capacity 1
    at,          \* actor -> its next step: "idle", "load", "temp", "rename", "reload"
    new,         \* actor -> the configuration it parsed
    edited,      \* the file was edited since the daemon last read or wrote it
    overlapped,  \* changes overlapped, and none has had the file to itself since
    hupOwed,     \* a SIGHUP was sent and the file has not been read since
    termOwed     \* a SIGTERM found room and the process still runs

vars == <<file, running, main, serving, sigCh, at, new,
          edited, overlapped, hupOwed, termOwed>>

process == <<main, serving, sigCh>>
history == <<edited, overlapped, hupOwed, termOwed>>

Busy == {a \in Actor : at[a] # "idle"}

Init ==
    /\ file \in Content
    /\ running = Off
    /\ main = "down"
    /\ serving = FALSE
    /\ sigCh = <<>>
    /\ at = [a \in Actor |-> "idle"]
    /\ new = [a \in Actor |-> Off]
    /\ edited = TRUE
    /\ overlapped = FALSE
    /\ hupOwed = FALSE
    /\ termOwed = FALSE

Goto(a, step) == at' = [at EXCEPT ![a] = step]

-----------------------------------------------------------------------------
(* The process.                                                            *)

\* Load, router.New, state.New and the first steps of cmdRun.  A file that does
\* not load ends the process at once, before it has changed anything, and so does
\* a valid one whose egress_device does not exist (run.go 80-84): such a start
\* leaves the daemon down and is a stuttering step.
Start ==
    /\ main = "down"
    /\ file \in Config
    /\ main' = "starting"
    /\ running' = file
    /\ serving' = TRUE
    /\ edited' = FALSE
    /\ overlapped' = FALSE
    /\ UNCHANGED <<file, sigCh, at, new, hupOwed, termOwed>>

\* signal.Notify: from here on signals are handled.
Ready ==
    /\ main = "starting"
    /\ main' = "loop"
    /\ UNCHANGED <<file, running, serving, sigCh, at, new, history>>

\* The process is gone, with all of its goroutines; the file stays.
Gone ==
    /\ main' = "down"
    /\ running' = Off
    /\ serving' = FALSE
    /\ sigCh' = <<>>
    /\ at' = [a \in Actor |-> "idle"]
    /\ new' = [a \in Actor |-> Off]
    /\ hupOwed' = FALSE
    /\ termOwed' = FALSE
    /\ UNCHANGED <<file, edited, overlapped>>

\* A crash, a kill, or Listen that fails.
Crash == main # "down" /\ Gone

\* Serve returns an error: probing is cancelled, main goes on.
ServeFails ==
    /\ serving
    /\ serving' = FALSE
    /\ UNCHANGED <<file, running, main, sigCh, at, new, history>>

-----------------------------------------------------------------------------
(* Signals.                                                                *)

\* A channel without a buffer: a signal is lost unless main waits for it.
RoomUnbuffered == main = "loop" /\ at[Main] = "idle" /\ sigCh = <<>>

\* A channel that grows.
RoomAlways == TRUE

\* Delivery does not block: a signal that finds the channel full is dropped.
Room == sigCh = <<>>

SendSignal(sig) ==
    /\ main \in {"loop", "stopping"}
    /\ sigCh' = IF Room THEN Append(sigCh, sig) ELSE sigCh
    /\ hupOwed' = (hupOwed \/ sig = "HUP")
    /\ termOwed' = (termOwed \/ (sig = "TERM" /\ Room))
    /\ UNCHANGED <<file, running, main, serving, at, new, edited, overlapped>>

\* Before Notify both signals have their default effect.
KilledWhileStarting == main = "starting" /\ Gone

TakeHup ==
    /\ main = "loop"
    /\ at[Main] = "idle"
    /\ sigCh = <<"HUP">>
    /\ sigCh' = <<>>
    /\ Goto(Main, "load")
    /\ overlapped' = (overlapped \/ Busy # {})
    /\ UNCHANGED <<file, running, main, serving, new, edited, hupOwed, termOwed>>

TakeTerm ==
    /\ main = "loop"
    /\ at[Main] = "idle"
    /\ sigCh = <<"TERM">>
    /\ sigCh' = <<>>
    /\ main' = "stopping"
    /\ serving' = FALSE
    /\ UNCHANGED <<file, running, at, new, history>>

\* Shutdown that waits for the requests however long they take.
ExitWaiting == main = "stopping" /\ Busy = {} /\ Gone

\* Shutdown waits for the requests, but no longer than two seconds.
Exit == main = "stopping" /\ Gone

-----------------------------------------------------------------------------
(* Changing the configuration.                                             *)

Accepts(r) == serving /\ r \in Request /\ at[r] = "idle"

\* POST /api/config: a body that does not parse is answered at once.
PostConfig(r, c) ==
    /\ Accepts(r)
    /\ c \in Config
    /\ Goto(r, "temp")
    /\ new' = [new EXCEPT ![r] = c]
    /\ overlapped' = (overlapped \/ Busy # {})
    /\ UNCHANGED <<file, running, process, edited, hupOwed, termOwed>>

\* POST /api/reload.
PostReload(r) ==
    /\ Accepts(r)
    /\ Goto(r, "load")
    /\ overlapped' = (overlapped \/ Busy # {})
    /\ UNCHANGED <<file, running, process, new, edited, hupOwed, termOwed>>

\* ReloadFromFile reads the file; if it does not parse the old configuration
\* stays.  SIGHUP asked main for this.
Load(a) ==
    /\ at[a] = "load"
    /\ IF file \in Config
       THEN /\ Goto(a, "reload")
            /\ new' = [new EXCEPT ![a] = file]
            /\ edited' = FALSE
            /\ overlapped' = (overlapped /\ Busy # {a})
       ELSE Goto(a, "idle") /\ UNCHANGED <<new, edited, overlapped>>
    /\ hupOwed' = (hupOwed /\ a # Main)
    /\ UNCHANGED <<file, running, process, termOwed>>

\* Save that truncates the file and writes it where it is.
WriteInPlace(a) ==
    /\ at[a] = "temp"
    /\ file' = Broken
    /\ Goto(a, "rename")
    /\ UNCHANGED <<running, process, new, history>>

\* Save writes a temporary file beside the file.
WriteTemp(a) ==
    /\ at[a] = "temp"
    /\ Goto(a, "rename")
    /\ UNCHANGED <<file, running, process, new, history>>

\* Save moves it over the file.
Rename(a) ==
    /\ at[a] = "rename"
    /\ file' = new[a]
    /\ edited' = FALSE
    /\ overlapped' = (overlapped /\ Busy # {a})
    /\ Goto(a, "reload")
    /\ UNCHANGED <<running, process, new, hupOwed, termOwed>>

\* Save that reports success although the file could not be replaced.
SaveFailsSilently(a) ==
    /\ at[a] \in {"temp", "rename"}
    /\ Goto(a, "reload")
    /\ UNCHANGED <<file, running, process, new, history>>

\* Save fails: the temporary file is removed and the request refused.
SaveFails(a) ==
    /\ at[a] \in {"temp", "rename"}
    /\ Goto(a, "idle")
    /\ UNCHANGED <<file, running, process, new, history>>

\* Manager.Reload, and the answer.
Reload(a) ==
    /\ at[a] = "reload"
    /\ running' = new[a]
    /\ Goto(a, "idle")
    /\ UNCHANGED <<file, process, new, history>>

\* An administrator edits the file, for instance makes a mistake in it.
Edit(c) ==
    /\ c # file
    /\ file' = c
    /\ edited' = TRUE
    /\ UNCHANGED <<running, process, at, new, overlapped, hupOwed, termOwed>>

Next ==
    \/ Start
    \/ Ready
    \/ Crash
    \/ ServeFails
    \/ \E sig \in {"HUP", "TERM"} : SendSignal(sig)
    \/ KilledWhileStarting
    \/ TakeHup
    \/ TakeTerm
    \/ Exit
    \/ \E r \in Request, c \in Config : PostConfig(r, c)
    \/ \E r \in Request : PostReload(r)
    \/ \E a \in Actor : Load(a)
    \/ \E a \in Actor : WriteTemp(a)
    \/ \E a \in Actor : Rename(a)
    \/ \E a \in Actor : SaveFails(a)
    \/ \E a \in Actor : Reload(a)
    \/ \E c \in Content : Edit(c)

\* Main handles the signals it is given to the end.
Fairness ==
    /\ WF_vars(TakeHup)
    /\ WF_vars(Load(Main))
    /\ WF_vars(Reload(Main))
    /\ WF_vars(TakeTerm)
    /\ WF_vars(Exit)

Spec == Init /\ [][Next]_vars /\ Fairness

-----------------------------------------------------------------------------

\* Every variable has its type; the signal channel holds one signal at most.
TypeOK ==
    /\ file \in Content
    /\ running \in Config \cup {Off}
    /\ main \in {"down", "starting", "loop", "stopping"}
    /\ serving \in BOOLEAN
    /\ sigCh \in {<<>>, <<"HUP">>, <<"TERM">>}
    /\ at \in [Actor -> {"idle", "load", "temp", "rename", "reload"}]
    /\ new \in [Actor -> Config \cup {Off}]
    /\ <<edited, overlapped, hupOwed, termOwed>>
           \in BOOLEAN \X BOOLEAN \X BOOLEAN \X BOOLEAN

\* A crash or a failure at any step of Save leaves a file that loads: what Load
\* does not accept, an administrator wrote (config.go 167).  That a file loads
\* does not say that its egress_device exists.
FileLoads == ~edited => file \in Config

Quiet == main # "down" /\ Busy = {}

\* When no change is under way, the daemon runs what its file says, so that a
\* restart changes nothing; steps that fail do not break this.  Excepted are a
\* file edited since, and changes that overlapped.
RunsItsFile == Quiet /\ ~edited /\ ~overlapped => running = file

\* The same for changes that overlapped.
AlwaysRunsItsFile == Quiet /\ ~edited => running = file

\* An unanswered signal is never lost inside the process: a SIGHUP still waits in
\* the channel, as itself or behind the signal that took its place, or main is
\* about to read the file, or the process is on its way out; an accepted SIGTERM
\* waits or is being carried out (run.go 117-132).
SignalsKept ==
    /\ hupOwed => sigCh # <<>> \/ at[Main] = "load" \/ main = "stopping"
    /\ termOwed => sigCh = <<"TERM">> \/ main = "stopping"

\* No SIGHUP is without effect: the file is read again after the last one that
\* was sent, even if it came while an earlier one was being served, or the
\* process ends.
HupHonoured == hupOwed ~> ~hupOwed

\* A SIGTERM that was not dropped ends the process, whatever requests are under
\* way and whatever signals come after it; one that finds the channel full is
\* dropped (run.go 117-132, server.go 82-87).
TermHonoured == termOwed ~> ~termOwed
===============================================================================
