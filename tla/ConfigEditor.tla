----------------------------- MODULE ConfigEditor -----------------------------
(***************************************************************************)
(* The terminal editor of the configuration (cmd/nexthop/config_tui.go):   *)
(* it reads the daemon's configuration into a draft, the user edits rows   *)
(* of the draft one at a time, and save posts the whole of it.             *)
(*                                                                         *)
(* A key that changes nothing but the message line is not an action.  An   *)
(* input line (modeInput) takes every key until Enter or Escape, so opening *)
(* it, typing and Enter are one action, with the value the text denotes: a *)
(* value that is not accepted is asked for again, Escape changes nothing,  *)
(* and an empty text stands for the value shown.  Rows and targets count   *)
(* from 1.  The mode "confirm" is modeInput with a pending deletion, and   *)
(* "closed" is no editor at all.                                           *)
(***************************************************************************)
EXTENDS NexthopConfig

CONSTANTS
    Typed,     \* field -> the values a user types there, good ones and bad
    MaxTouched \* bound on what is edited between two reads or saves

ASSUME EditorAssumption ==
    /\ MaxTouched \in Nat
    /\ Typed.interval \cup Typed.timeout \cup Typed.rounds \subseteq Int
    /\ Typed.weight \cup Typed.port \subseteq Int
    /\ Typed.egress \subseteq Device \cup {Empty}
    /\ Typed.name \subseteq Name \cup {Empty}
    /\ Typed.ip \cup Typed.finalIP \subseteq Text
    /\ Typed.probe \subseteq ProbeMethod \cup {"other"}
    /\ Typed.url \subseteq BOOLEAN

VARIABLES
    running,       \* the configuration the daemon runs (Daemon.running)
    late,          \* posts the client gave up, which the daemon may still apply:
                   \* cfg, and as a history the copy it was made from (base)
                   \* and what its user changed in it (touched)
    mode,
    cfg,           \* the draft
    sel,           \* the selected row: the global fields, then the targets
    formTarget,    \* the copy of a target that the form edits
    formTargetIdx, \* its place in the draft, 0 for a new target
    base,          \* history: the configuration last read or saved with success
    touched,       \* history: the fields and names changed since
    stale          \* history: somebody else has changed the daemon's since

form == <<formTarget, formTargetIdx>>
editor == <<mode, cfg, sel, form, base, touched>>
editorVars == <<running, late, editor, stale>>

GlobalField == <<"interval", "timeout", "egress", "rounds", "finalIP">>
NGlobal == Len(GlobalField)
Rows(c) == NGlobal + Len(c.targets)
SelectedTarget == sel - NGlobal

\* The draft of no session.
NoDraft == [interval |-> 0, timeout |-> 0, egress |-> Empty, rounds |-> 0,
            finalIP |-> Empty, targets |-> <<>>]

NewTarget == [name |-> Empty, ip |-> Empty, weight |-> 100,
              probe |-> "ping", port |-> 0, url |-> FALSE]

FormFields(t) ==
    {"name", "ip", "weight", "probe"}
        \cup {f \in {"port"} : t.probe \in {"tcp", "udp"}}
        \cup {f \in {"url"} : t.probe = "http"}

GlobalAccepts(f, v) ==
    CASE f = "egress" -> v # Empty
      [] f = "rounds" -> v >= 1
      [] f = "finalIP" -> ParseIP[v] # NoIP
      [] OTHER -> TRUE      \* any duration, the two are compared by save only

NameFree(n) ==
    \A i \in DOMAIN cfg.targets : i # formTargetIdx => cfg.targets[i].name # n

FormAccepts(f, v) ==
    CASE f = "name" -> v # Empty /\ NameFree(v)
      [] f = "ip" -> ParseIP[v] # NoIP
      [] f = "weight" -> v >= 0
      [] f = "probe" -> v \in ProbeMethod
      [] f = "port" -> v \in Port
      [] f = "url" -> v

\* Another way to probe drops the port or the url that does not belong to it.
WithField(t, f, v) ==
    IF f # "probe"
    THEN [t EXCEPT ![f] = v]
    ELSE [t EXCEPT !.probe = v,
                   !.port = IF v \in {"tcp", "udp"} THEN @ ELSE 0,
                   !.url = v = "http" /\ @]

RemoveTarget(ts, k) == SubSeq(ts, 1, k - 1) \o SubSeq(ts, k + 1, Len(ts))

CloseForm ==
    /\ formTarget' = NewTarget
    /\ formTargetIdx' = 0

OpenForm(t, k) ==
    /\ formTarget' = t
    /\ formTargetIdx' = k

\* The value that was there, typed again, touches nothing.
Touch(what) ==
    /\ touched' = IF cfg' = cfg THEN touched ELSE touched \cup what
    /\ Cardinality(touched') <= MaxTouched

-----------------------------------------------------------------------------
(* Opening and the cursor.                                                 *)

\* newCfgEditor, from the main menu or the command line.
Read ==
    /\ mode = "closed"
    /\ cfg' = running
    /\ base' = running
    /\ touched' = {}
    /\ stale' = FALSE
    /\ sel' = 1
    /\ UNCHANGED <<running, late>>

Open == Read /\ mode' = "nav" /\ UNCHANGED form

\* The entry of the main menu that adds a target starts with its form.
OpenAdd == Read /\ mode' = "form" /\ OpenForm(NewTarget, 0)

Move ==
    /\ mode = "nav"
    /\ sel' \in {sel - 1, sel + 1} \cap 1 .. Rows(cfg)
    /\ UNCHANGED <<running, late, mode, cfg, form, base, touched, stale>>

Quit ==
    /\ mode = "nav"
    /\ mode' = "closed"
    /\ cfg' = NoDraft
    /\ base' = NoDraft
    /\ sel' = 1
    /\ touched' = {}
    /\ stale' = FALSE
    /\ UNCHANGED <<running, late, form>>

-----------------------------------------------------------------------------
(* Global fields.                                                          *)

EditGlobal ==
    LET f == GlobalField[sel] IN
    /\ mode = "nav"
    /\ sel <= NGlobal
    /\ \E v \in Typed[f] \cup {cfg[f]} :
           GlobalAccepts(f, v) /\ cfg' = [cfg EXCEPT ![f] = v]
    /\ Touch({f})
    /\ UNCHANGED <<running, late, mode, sel, form, base, stale>>

-----------------------------------------------------------------------------
(* The form of one target.                                                 *)

EditTarget ==
    /\ mode = "nav"
    /\ SelectedTarget \in DOMAIN cfg.targets
    /\ mode' = "form"
    /\ OpenForm(cfg.targets[SelectedTarget], SelectedTarget)
    /\ UNCHANGED <<running, late, cfg, sel, base, touched, stale>>

AddTarget ==
    /\ mode = "nav"
    /\ mode' = "form"
    /\ OpenForm(NewTarget, 0)
    /\ UNCHANGED <<running, late, cfg, sel, base, touched, stale>>

\* The arrow keys select any field that the form has for its target.
EditField ==
    /\ mode = "form"
    /\ \E f \in FormFields(formTarget) : \E v \in Typed[f] \cup {formTarget[f]} :
           FormAccepts(f, v) /\ formTarget' = WithField(formTarget, f, v)
    /\ UNCHANGED <<running, late, mode, cfg, sel, formTargetIdx, base, touched, stale>>

CancelForm ==
    /\ mode = "form"
    /\ mode' = "nav"
    /\ CloseForm
    /\ UNCHANGED <<running, late, cfg, sel, base, touched, stale>>

\* The draft with the form's target in its place.
Trial ==
    IF formTargetIdx = 0
    THEN [cfg EXCEPT !.targets = Append(@, formTarget)]
    ELSE [cfg EXCEPT !.targets[formTargetIdx] = formTarget]

FormNames ==
    {formTarget.name} \cup
        (IF formTargetIdx = 0 THEN {} ELSE {cfg.targets[formTargetIdx].name})

\* Only the name is looked at.
CommitChecksName == formTarget.name # Empty /\ NameFree(formTarget.name)

\* The whole draft must be valid with the target in its place.
CommitChecks == formTarget.name # Empty /\ NameFree(formTarget.name) /\ Valid(Trial)

CommitForm ==
    /\ mode = "form"
    /\ CommitChecks
    /\ cfg' = Trial
    /\ sel' = NGlobal + (IF formTargetIdx = 0 THEN Len(Trial.targets) ELSE formTargetIdx)
    /\ mode' = "nav"
    /\ Touch(FormNames)
    /\ CloseForm
    /\ UNCHANGED <<running, late, base, stale>>

-----------------------------------------------------------------------------
(* Deleting.  The cursor cannot move while the question is open.           *)

AskDelete ==
    /\ mode = "nav"
    /\ SelectedTarget \in DOMAIN cfg.targets
    /\ mode' = "confirm"
    /\ UNCHANGED <<running, late, cfg, sel, form, base, touched, stale>>

DeclineDelete ==
    /\ mode = "confirm"
    /\ mode' = "nav"
    /\ UNCHANGED <<running, late, cfg, sel, form, base, touched, stale>>

\* The last row may be gone; the cursor then goes to the new last row.
ClampedNever(row, c) == row

Clamped(row, c) == IF row > Rows(c) THEN Rows(c) ELSE row

\* The target above the one selected.
DoomedAbove == IF SelectedTarget > 1 THEN SelectedTarget - 1 ELSE SelectedTarget

Doomed == SelectedTarget

ConfirmDelete ==
    /\ mode = "confirm"
    /\ cfg' = [cfg EXCEPT !.targets = RemoveTarget(@, Doomed)]
    /\ sel' = Clamped(sel, cfg')
    /\ Touch({cfg.targets[SelectedTarget].name})
    /\ mode' = "nav"
    /\ UNCHANGED <<running, late, form, base, stale>>

-----------------------------------------------------------------------------
(* Saving: the daemon's answer may be yes, no, or late.                    *)

\* Success is what the client takes for one.
AcknowledgedAlways(answer) == TRUE

Acknowledged(answer) == answer = "ok"

Save(answer) ==
    /\ mode = "nav"
    /\ Valid(cfg)
    /\ running' = IF answer = "ok" THEN cfg ELSE running
    /\ late' = IF answer = "timeout"
               THEN late \cup {[cfg |-> cfg, base |-> base, touched |-> touched]}
               ELSE late
    /\ IF Acknowledged(answer)
       THEN base' = cfg /\ touched' = {} /\ stale' = FALSE
       ELSE UNCHANGED <<base, touched, stale>>
    /\ UNCHANGED <<mode, cfg, sel, form>>

\* A post that its client gave up after five seconds: ApplyConfig goes on.
ApplyLate(p) ==
    /\ p \in late
    /\ running' = p.cfg
    /\ late' = late \ {p}
    /\ stale' = (mode # "closed")
    /\ UNCHANGED editor

EditorInit ==
    /\ late = {}
    /\ mode = "closed"
    /\ cfg = NoDraft
    /\ sel = 1
    /\ formTarget = NewTarget
    /\ formTargetIdx = 0
    /\ base = NoDraft
    /\ touched = {}
    /\ stale = FALSE

EditorNext ==
    \/ Open
    \/ OpenAdd
    \/ Move
    \/ Quit
    \/ EditGlobal
    \/ EditTarget
    \/ AddTarget
    \/ EditField
    \/ CancelForm
    \/ CommitForm
    \/ AskDelete
    \/ DeclineDelete
    \/ ConfirmDelete
    \/ \E answer \in {"ok", "refused", "timeout"} : Save(answer)
    \/ \E p \in late : ApplyLate(p)
-----------------------------------------------------------------------------

EditorTypeOK ==
    /\ {running, cfg, base} \cup {p.cfg : p \in late} \subseteq Config
    /\ mode \in {"closed", "nav", "form", "confirm"}
    /\ sel \in 1 .. Rows(cfg)
    /\ mode = "confirm" => sel > NGlobal
    /\ formTarget \in Target
    /\ formTargetIdx \in 0 .. Len(cfg.targets)
    /\ stale \in BOOLEAN

\* What the daemon runs and what is posted is valid, and so is every target of
\* the draft, with a name of its own, at any moment of a session; only the
\* global fields and the number of targets may be wrong in between
\* (config_tui.go 677-713).
DraftTargetsValid ==
    /\ \A c \in {running} \cup {p.cfg : p \in late} : Valid(c)
    /\ \A i \in DOMAIN cfg.targets : ValidTarget(cfg.targets[i])
    /\ \A i, j \in DOMAIN cfg.targets :
           cfg.targets[i].name = cfg.targets[j].name => i = j

TargetsOf(c) == {c.targets[i] : i \in DOMAIN c.targets}

\* t is u, or comes before it.
InOrder(c, t, u) ==
    \E i, j \in DOMAIN c.targets : i <= j /\ c.targets[i] = t /\ c.targets[j] = u

\* c and d differ at most in the fields and targets named: every other target
\* that one has the other has too, in the same order.
AgreeOutside(what, c, d) ==
    /\ \A i \in DOMAIN GlobalField :
           GlobalField[i] \notin what => c[GlobalField[i]] = d[GlobalField[i]]
    /\ \A t, u \in TargetsOf(c) \cup TargetsOf(d) :
           t.name \notin what /\ u.name \notin what
               => (InOrder(c, t, u) <=> InOrder(d, t, u))

\* Nothing but what the user saw selected and confirmed differs in the draft:
\* forms that were abandoned leave no trace, a deletion takes the target it
\* named, and the other targets keep their order (config_tui.go 654-742).
DraftKeepsRest == mode # "closed" => AgreeOutside(touched, base, cfg)

\* Until somebody else changes the configuration, the daemon runs what the
\* editor read or was told to be saved: a save that failed is not taken for one
\* that succeeded (config_tui.go 756-760, client.go 54-65).
SavedMeansRunning == mode # "closed" /\ ~stale => running = base
===============================================================================
