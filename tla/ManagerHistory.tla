---------------------------- MODULE ManagerHistory ----------------------------
(***************************************************************************)
(* Manager with a history variable: for each target the run of equal       *)
(* results that were last applied to it.  It states what stable_rounds     *)
(* promises without looking at the counters of the code.                   *)
(***************************************************************************)
EXTENDS Manager

CONSTANT MaxStreak   \* bound of the history: longer runs count as MaxStreak

ASSUME StreakAssumption ==
    MaxStreak \in Nat \ {0} /\ \A c \in Configs : c.rounds <= MaxStreak

VARIABLE streak      \* name -> the direction and the length of the run

hvars == <<vars, streak>>

NoStreak == [ok |-> FALSE, len |-> 0]

Extend(s, ok) ==
    IF s.len = 0 \/ s.ok # ok
    THEN [ok |-> ok, len |-> 1]
    ELSE [s EXCEPT !.len = Min({@ + 1, MaxStreak})]

HInit == Init /\ streak = [n \in Names(cfg) |-> NoStreak]

HApplyResults(ok, read, write) ==
    /\ ApplyResults(ok, read, write)
    /\ streak' = [n \in DOMAIN streak |->
                    IF n \in DOMAIN ok THEN Extend(streak[n], ok[n]) ELSE streak[n]]

HReload(c, read, write) ==
    /\ Reload(c, read, write)
    /\ streak' = [n \in Names(c) |->
                    IF n \in DOMAIN streak THEN streak[n] ELSE NoStreak]

HNext ==
    \/ StartRound /\ UNCHANGED streak
    \/ \E ok \in [RoundNames -> BOOLEAN], read \in BOOLEAN, write \in Write :
           HApplyResults(ok, read, write)
    \/ ArmTimer /\ UNCHANGED streak
    \/ \E c \in Configs, read \in BOOLEAN, write \in Write : HReload(c, read, write)
    \/ Cancel /\ UNCHANGED streak
    \/ LoopExit /\ UNCHANGED streak
    \/ \E r \in IP \cup {NoRoute} : ExternalRoute(r) /\ UNCHANGED streak

HSpec == HInit /\ [][HNext]_hvars

-----------------------------------------------------------------------------

Applying(n) == loop = "probing" /\ loop' # loop /\ n \in RoundNames

\* stable_rounds never lets a state flip early: when a target flips, the last
\* stable_rounds results applied to it, the present one included, all said so,
\* whatever reloads changed its definition, its neighbours or stable_rounds
\* itself in between (state.go 155-174).
NoEarlyFlip ==
    [][\A n \in DOMAIN states \cap DOMAIN states' :
          states'[n].up # states[n].up =>
              /\ streak'[n].ok = states'[n].up
              /\ streak'[n].len >= cfg.rounds]_hvars

\* ... nor late: once stable_rounds results in a row have said the same, the
\* target is in that state.
NoLateFlip ==
    [][\A n \in DOMAIN states : Applying(n) /\ streak'[n].len >= cfg.rounds =>
          states'[n].up = streak'[n].ok]_hvars
===============================================================================
