------------------------------- MODULE Editing -------------------------------
(***************************************************************************)
(* Two clients of one daemon: the editor and the command add.  Each reads  *)
(* the configuration, works on a copy and posts the whole of it; the       *)
(* daemon has no version to compare and takes every valid post.            *)
(***************************************************************************)
EXTENDS ConfigEditor

CONSTANTS
    AddTyped,  \* what the user of add types
    Stored,    \* the configurations the daemon may run at the start
    MaxChanges \* bound on the posts that change something

ASSUME StoredAssumption == \A c \in Stored : c \in Config /\ Valid(c)

ASSUME AddAssumption ==
    /\ MaxChanges \in Nat
    /\ AddTyped.name \subseteq Name \cup {Empty}
    /\ AddTyped.ip \subseteq Text
    /\ AddTyped.weight \cup AddTyped.port \subseteq Int
    /\ AddTyped.probe \subseteq ProbeMethod \cup {"other"}

VARIABLES
    phase, read, target,  \* of the command add
    changes               \* the posts so far that changed something

Add == INSTANCE CtlAdd WITH Typed <- AddTyped

vars == <<editorVars, phase, read, target, changes>>

Init ==
    /\ running \in Stored
    /\ EditorInit
    /\ Add!AddInit
    /\ changes = 0

\* A post that is applied at once, or left to the daemon; the late effect of a
\* post is none of its own.
Posting ==
    \/ late' = late /\ running' # running
    \/ ~(late' \subseteq late)

Count ==
    /\ changes' = changes + (IF Posting THEN 1 ELSE 0)
    /\ changes' <= MaxChanges

EditorStep ==
    /\ EditorNext
    /\ Count
    /\ UNCHANGED <<phase, read, target>>

AddStep ==
    /\ Add!AddNext
    /\ Count
    /\ stale' = (mode # "closed" /\ (stale \/ running' # running))
    /\ UNCHANGED editor

Next == EditorStep \/ AddStep

Spec == Init /\ [][Next]_vars

-----------------------------------------------------------------------------

\* Every variable of the two clients has its type; the cursor of the editor is
\* on a row that exists.
TypeOK == EditorTypeOK /\ Add!AddTypeOK

\* See CtlAdd.PromptsSuffice.
PromptsSuffice == Add!PromptsSuffice

\* A post changes only what its user changed, all else stays as the daemon has
\* it, if the daemon still runs the copy the post was made from: when the client
\* posts, and for a post its client gave up (client.go 28) when the daemon comes
\* to apply it.  The daemon compares no versions: a post made from an older copy
\* may undo what was posted in between, and so may a post that was sent in time
\* and is applied after another one; nothing else can (config_tui.go 746-761,
\* ctl.go 377-384).
NothingLostUnlessStale ==
    [][running' # running =>
         IF late' # late
         THEN \A p \in late \ late' :
                  p.base = running => AgreeOutside(p.touched, running, running')
         ELSE IF phase' = phase
         THEN base = running => AgreeOutside(touched, running, running')
         ELSE read = running => AgreeOutside({target.name}, running, running')]_vars
===============================================================================
