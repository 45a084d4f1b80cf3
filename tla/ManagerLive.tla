----------------------------- MODULE ManagerLive -----------------------------
(***************************************************************************)
(* Manager among targets that are healthy or not: the results of a round  *)
(* are what the network was like between the start and the end of the     *)
(* round.  It states that the daemon recovers once disturbances end.      *)
(***************************************************************************)
EXTENDS Manager

VARIABLES
    health,   \* target -> it would answer a probe now
    sampled,  \* the targets of the round in flight that were healthy when it started
    calm      \* the disturbances are over

lvars == <<vars, health, sampled, calm>>

AllTargets == UNION {{c.targets[i] : i \in DOMAIN c.targets} : c \in Configs}

Healthy == {t \in AllTargets : health[t]}

LInit ==
    /\ Init
    /\ health \in [AllTargets -> BOOLEAN]
    /\ sampled = {}
    /\ calm = FALSE

LStartRound ==
    /\ StartRound
    /\ sampled' = {cfg.targets[i] : i \in DOMAIN cfg.targets} \cap Healthy
    /\ UNCHANGED <<health, calm>>

\* Each probe answers for the definition its prober was built from, as the
\* target was at the start of the round or is at its end.
Observable(ok) ==
    \A n \in DOMAIN ok :
        LET t == round.probers[n].target
        IN  ok[n] => round.live /\ t \in sampled \cup Healthy

\* A cancelled context fails the probes in flight too.
Missed(ok) ==
    \E n \in DOMAIN ok :
        LET t == round.probers[n].target
        IN  ~ok[n] /\ ~cancelled /\ t \in sampled \cap Healthy

\* Reading the route may always fail; replacing it fails only before calm.
LApplyResults(ok, read, write) ==
    /\ calm => write = "done"
    /\ Observable(ok)
    /\ ~Missed(ok)
    /\ ApplyResults(ok, read, write)
    /\ sampled' = {}
    /\ UNCHANGED <<health, calm>>

HealthChanges(t) ==
    health' = [health EXCEPT ![t] = ~@] /\ UNCHANGED <<vars, sampled>>

\* What ends with calm: reloads, changes of the route from outside, failures
\* of the control server, and changes of the network.
Disturb ==
    \/ \E c \in Configs, read \in BOOLEAN, write \in Write :
           Reload(c, read, write) /\ UNCHANGED <<health, sampled>>
    \/ \E r \in IP \cup {NoRoute} : ExternalRoute(r) /\ UNCHANGED <<health, sampled>>
    \/ Cancel /\ UNCHANGED <<health, sampled>>
    \/ \E t \in AllTargets : HealthChanges(t)

LNext ==
    \/ LStartRound
    \/ \E ok \in [RoundNames -> BOOLEAN], read \in BOOLEAN, write \in Write :
           LApplyResults(ok, read, write)
    \/ ArmTimer /\ UNCHANGED <<health, sampled, calm>>
    \/ LoopExit /\ UNCHANGED <<health, sampled, calm>>
    \/ ~calm /\ Disturb /\ UNCHANGED calm
    \/ ~calm /\ calm' = TRUE /\ UNCHANGED <<vars, health, sampled>>

\* The timer of Run fires, every probe returns within its timeout, and Run goes
\* on to the next wait.  Only LStartRound, LApplyResults and ArmTimer make these
\* changes of loop, and each is possible whenever loop allows it.
RoundStarts == loop \in {"starting", "waiting"} /\ loop' = "probing"
RoundEnds == loop = "probing" /\ loop' = "pacing"
WaitStarts == loop = "pacing" /\ loop' = "waiting"

Fairness == WF_loop(RoundStarts) /\ WF_loop(RoundEnds) /\ WF_loop(WaitStarts)

LSpec == LInit /\ [][LNext]_lvars /\ Fairness

-----------------------------------------------------------------------------

\* The targets as the round in flight copied them.
Copied == {round.targets[i] : i \in DOMAIN round.targets}

\* The round in flight, if there is one, saw the targets as they are.
RoundIsFresh ==
    loop = "probing" =>
        /\ round.live
        /\ round.targets = cfg.targets
        /\ sampled = Copied \cap Healthy

Undisturbed == calm /\ ~cancelled /\ RoundIsFresh

Settled ==
    /\ \A n \in DOMAIN states : states[n].up = health[states[n].target]
    /\ BestReached(cfg, states, route)

\* Whatever reloads, failed updates, changes of the route from outside and
\* flapping targets there were, once they end every target's state is its
\* health for good and the route is at the best healthy gateway for good, as
\* long as the probing loop has not been cancelled.
Recovers == <>(calm /\ ~cancelled) => <>[]Settled

\* It cannot be left: the daemon that is right and undisturbed stays right,
\* although reading the route may go on failing (state.go 188-212).
StaysSettled ==
    [][Undisturbed /\ Settled => Undisturbed' /\ Settled']_lvars

\* How many rounds a target needs to come to its health, if nothing disturbs.
RoundsLeft(n) ==
    LET s == states[n]
    IN  IF s.up = health[s.target] THEN 0
        ELSE IF s.pending + 1 >= cfg.rounds THEN 1
        ELSE cfg.rounds - s.pending

\* And it is reached at once, whatever the disturbances left behind: every
\* undisturbed round brings each target one round nearer to its health, so that
\* stable_rounds of them suffice, and the round that brings the last one there
\* brings the route there too (state.go 134-190).
RoundsApproach ==
    [][Undisturbed /\ RoundEnds =>
         /\ \A n \in DOMAIN states :
                RoundsLeft(n)' = IF RoundsLeft(n) = 0 THEN 0 ELSE RoundsLeft(n) - 1
         /\ Addressed(cfg) /\ (\A n \in DOMAIN states : RoundsLeft(n) <= 1)
                => Settled']_lvars

\* Then nothing is pending any more and the loop is back at probe_interval: the
\* pace it reads, and every timer it has armed.
ReturnsToBaseInterval ==
    <>(calm /\ ~cancelled) =>
        <>[](nextInterval = cfg.interval /\ timer \in {0, cfg.interval})

\* A round makes a target flip only if the target itself, as it is defined now,
\* gave reason to: it goes down only if it did not answer all the time, up only
\* if it answered.  Two cases are left out, in which the code goes by something
\* else: a cancelled context fails every probe (run.go 109), and a reload during
\* the round gives the results to a new definition (state.go 141).  Reloads
\* before the round may have given the name to another target.
FlipsOnEvidence ==
    [][\A n \in RoundNames \cap DOMAIN states :
           LET t == states[n].target
           IN  loop' # loop /\ ~cancelled /\ t \in Copied
                   /\ states'[n].up # states[n].up =>
               IF states'[n].up THEN t \in sampled \cup Healthy
                                ELSE t \notin sampled \cap Healthy]_lvars
=============================================================================
