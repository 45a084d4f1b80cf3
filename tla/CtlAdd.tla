-------------------------------- MODULE CtlAdd --------------------------------
(***************************************************************************)
(* The command "nexthop add" (cmd/nexthop/ctl.go): it reads the daemon's   *)
(* configuration, prompts for a target, asks for a confirmation, and posts *)
(* what it read with the target at its end.                                *)
(***************************************************************************)
EXTENDS NexthopConfig

CONSTANTS
    Typed  \* field -> the values a user types there, good ones and bad

VARIABLES
    running,   \* the configuration the daemon runs
    late,      \* posts a client gave up, as in ConfigEditor
    phase,     \* "idle" or "confirm"
    read,      \* the configuration it read
    target     \* the target it prompted for

NoTarget == [name |-> Empty, ip |-> Empty, weight |-> 0,
             probe |-> "ping", port |-> 0, url |-> FALSE]

\* The port is not asked for.
PortPromptNone(t) == t.port = 0

\* The prompt for the port comes for tcp and udp.
PortPrompt(t) == IF t.probe \in {"tcp", "udp"} THEN t.port \in Port ELSE t.port = 0

\* What the prompts let through.  A known way to probe passes in any spelling
\* and is kept as it was typed: "other" is TCP or Ping.
Prompted(t, c) ==
    /\ t.name # Empty
    /\ t.name \notin Names(c)
    /\ ParseIP[t.ip] # NoIP
    /\ t.weight >= 0
    /\ t.probe \in ProbeMethod \cup {"other"}
    /\ PortPrompt(t)
    /\ t.url = (t.probe = "http")

\* Only the new target is posted.
ExtendedAlone == [read EXCEPT !.targets = <<target>>]

Extended == [read EXCEPT !.targets = Append(@, target)]

NoConfig == [interval |-> 0, timeout |-> 0, egress |-> Empty, rounds |-> 0,
             finalIP |-> Empty, targets |-> <<>>]

AddInit == phase = "idle" /\ read = NoConfig /\ target = NoTarget

\* The prompts look at what was read.  What is validated after them is not the
\* new configuration but the one that was read, which is valid.
ReadAndPrompt(t) ==
    /\ phase = "idle"
    /\ Prompted(t, running)
    /\ phase' = "confirm"
    /\ read' = running
    /\ target' = t
    /\ UNCHANGED <<running, late>>

End ==
    /\ phase' = "idle"
    /\ read' = NoConfig
    /\ target' = NoTarget

\* A no, or the end of the input.
Decline ==
    /\ phase = "confirm"
    /\ End
    /\ UNCHANGED <<running, late>>

\* The daemon applies what it finds valid; the command ends in any case.
Post(answer) ==
    /\ phase = "confirm"
    /\ answer # "refused" => Valid(Extended)
    /\ running' = IF answer = "ok" THEN Extended ELSE running
    /\ late' = IF answer = "timeout"
               THEN late \cup {[cfg |-> Extended, base |-> read, touched |-> {target.name}]}
               ELSE late
    /\ End

AddNext ==
    \/ \E t \in [name : Typed.name, ip : Typed.ip, weight : Typed.weight,
                 probe : Typed.probe, port : Typed.port \cup {0}, url : BOOLEAN] :
           ReadAndPrompt(t)
    \/ Decline
    \/ \E answer \in {"ok", "refused", "timeout"} : Post(answer)

-----------------------------------------------------------------------------

AddTypeOK ==
    /\ phase \in {"idle", "confirm"}
    /\ read \in Config
    /\ target \in Target

\* What the prompts let through and the user confirmed, the daemon accepts,
\* unless the way to probe was not typed in lower case (ctl.go 306-375 against
\* config.go 130-165).
PromptsSuffice == phase = "confirm" /\ target.probe # "other" => Valid(Extended)
===============================================================================
