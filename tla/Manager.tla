------------------------------- MODULE Manager -------------------------------
(***************************************************************************)
(* The state manager of the daemon (internal/state/state.go): the probing  *)
(* loop, debouncing, the adaptive interval, the choice of the next hop and *)
(* hot reload.                                                             *)
(*                                                                         *)
(* Each action is what one critical section of Manager.mu does.  A round   *)
(* of ProbeOnce is two of them: StartRound takes its snapshot under the    *)
(* read lock, ApplyResults uses the results under the write lock.  The     *)
(* probes run between the two, so Reload may come in between.  ArmTimer is *)
(* interval(): Run reads the pace under the read lock, then waits for as   *)
(* long as it read.  Status and Config only read and are left out.         *)
(*                                                                         *)
(* The route updater (internal/router) is its interface: CurrentDefault    *)
(* may fail, and ReplaceDefault is done, is refused before it touches      *)
(* anything, or fails after it removed the route ("lost").                 *)
(***************************************************************************)
EXTENDS NexthopConfig, FiniteSetsExt

CONSTANTS
    Configs,      \* the configurations the daemon is ever given
    MinInterval,  \* the floor of the adaptive interval (100ms)
    NoRoute       \* "there is no default route"

ASSUME ConfigsAssumption == Configs \subseteq {c \in Config : Valid(c)}
ASSUME IntervalAssumption == MinInterval \in Nat \ {0}
ASSUME NoRouteAssumption == NoRoute \notin IP

VARIABLES
    cfg,             \* the configuration in force
    probers,         \* name -> prober
    states,          \* name -> state of the target
    nextInterval,    \* the pace: what Run reads before it waits
    timer,           \* the interval of the timer Run waits for, 0 if none is armed
    currentNexthop,  \* what Status reports as the active next hop
    finalActive,     \* what Status reports about the fallback
    route,           \* the gateway of the kernel's default route, or NoRoute
    loop,            \* where Run is: a member of Phase
    round,           \* what the round in flight copied when it started
    cancelled        \* the context of Run has been cancelled

routeVars == <<route, currentNexthop, finalActive>>
tables == <<cfg, probers, states>>
vars == <<cfg, probers, states, nextInterval, timer, currentNexthop,
          finalActive, route, loop, round, cancelled>>

\* Before the first round, in a round, between a round and the next wait, in
\* the select of Run, and returned from Run.
Phase == {"starting", "probing", "pacing", "waiting", "exited"}

\* A prober is built from a target and a timeout (probe.New).
Prober == [target : Target, timeout : Int]

TargetState == [target : Target, up : BOOLEAN,
                pending : Nat, pendingUp : BOOLEAN]

NewProbers(c) ==
    [n \in Names(c) |-> [target |-> TargetNamed(c, n), timeout |-> c.timeout]]

FreshState(t) ==
    [target |-> t, up |-> FALSE, pending |-> 0, pendingUp |-> FALSE]

NoRound == [targets |-> <<>>, probers |-> <<>>, live |-> FALSE]

RoundNames == {round.targets[i].name : i \in DOMAIN round.targets}

Write == {"done", "refused", "lost"}

-----------------------------------------------------------------------------
(***************************************************************************)
(* The choice of the next hop and the convergence of the route.            *)
(***************************************************************************)

\* The weights sorted the other way.
DesiredLightest(c, st) ==
    LET sorted == SortedTargets(c.targets)
        live == {k \in DOMAIN sorted : /\ sorted[k].name \in DOMAIN st
                                       /\ st[sorted[k].name].up}
    IN  IF live = {} THEN c.finalIP ELSE sorted[Max(live)].ip

DesiredNexthop(c, st) ==
    LET sorted == SortedTargets(c.targets)
        live == {k \in DOMAIN sorted : /\ sorted[k].name \in DOMAIN st
                                       /\ st[sorted[k].name].up}
    IN  IF live = {} THEN c.finalIP ELSE sorted[Min(live)].ip

\* read: CurrentDefault did not fail.
RouteMatches(c, st, read) ==
    /\ read
    /\ route # NoRoute
    /\ Format[route] = DesiredNexthop(c, st)

Replaced(gw, write) ==
    CASE write = "done"    -> gw
      [] write = "refused" -> route
      [] write = "lost"    -> NoRoute

\* An update that is reported before it is made.
ReconcileReportsFirst(c, st, write) ==
    LET desired == DesiredNexthop(c, st)
        gw == ParseIP[desired]
    IN  IF gw = NoIP
        THEN UNCHANGED routeVars
        ELSE /\ route' = Replaced(gw, write)
             /\ currentNexthop' = desired
             /\ finalActive' = (desired = c.finalIP)

Reconcile(c, st, write) ==
    LET desired == DesiredNexthop(c, st)
        gw == ParseIP[desired]
    IN  IF gw = NoIP
        THEN UNCHANGED routeVars
        ELSE /\ route' = Replaced(gw, write)
             /\ IF write = "done"
                THEN /\ currentNexthop' = desired
                     /\ finalActive' = (desired = c.finalIP)
                ELSE UNCHANGED <<currentNexthop, finalActive>>

\* A manager that looks at the route only when a target flipped.
ConvergeOnChange(changed, c, st, read, write) ==
    IF changed THEN Reconcile(c, st, write) ELSE UNCHANGED routeVars

Converge(changed, c, st, read, write) ==
    IF changed \/ ~RouteMatches(c, st, read)
    THEN Reconcile(c, st, write)
    ELSE UNCHANGED routeVars

-----------------------------------------------------------------------------
(***************************************************************************)
(* Debouncing and the adaptive interval.                                   *)
(***************************************************************************)

\* How many results in a row, ok included, have opposed the stable state.
RunLength(s, ok) ==
    IF s.pending = 0 \/ s.pendingUp # ok THEN 1 ELSE s.pending + 1

\* One more opposing result: the n-th in a row.
Pend(s, ok, n) == [s EXCEPT !.pending = n, !.pendingUp = ok]

\* A flip that leaves the count of the run behind it.
ObserveKeepCount(s, ok, rounds) ==
    LET n == RunLength(s, ok)
    IN  IF ok = s.up
        THEN [s EXCEPT !.pending = 0]
        ELSE IF n >= rounds
             THEN [Pend(s, ok, n) EXCEPT !.up = ok]
             ELSE Pend(s, ok, n)

\* A result that agrees with the stable state does not end the run.
ObserveNoReset(s, ok, rounds) ==
    LET n == RunLength(s, ok)
    IN  IF ok = s.up
        THEN s
        ELSE IF n >= rounds
             THEN [Pend(s, ok, 0) EXCEPT !.up = ok]
             ELSE Pend(s, ok, n)

\* One round too many before a flip.
ObserveLate(s, ok, rounds) ==
    LET n == RunLength(s, ok)
    IN  IF ok = s.up
        THEN [s EXCEPT !.pending = 0]
        ELSE IF n > rounds
             THEN [Pend(s, ok, 0) EXCEPT !.up = ok]
             ELSE Pend(s, ok, n)

\* The state of a target after one more result.
Observe(s, ok, rounds) ==
    LET n == RunLength(s, ok)
    IN  IF ok = s.up
        THEN [s EXCEPT !.pending = 0]
        ELSE IF n >= rounds
             THEN [Pend(s, ok, 0) EXCEPT !.up = ok]
             ELSE Pend(s, ok, n)

\* Halving without the floor.
HalvedNoFloor(i) == i \div 2

Halved(i) == IF i \div 2 < MinInterval THEN MinInterval ELSE i \div 2

\* A round that confirms a flip goes on accelerating.
AdaptedAfterFlip(hasPending, changed) ==
    IF hasPending THEN Halved(nextInterval) ELSE cfg.interval

\* The accelerated interval is never given up.
AdaptedNoReset(hasPending, changed) ==
    IF hasPending THEN Halved(nextInterval) ELSE nextInterval

AdaptedInterval(hasPending, changed) ==
    IF hasPending /\ ~changed THEN Halved(nextInterval) ELSE cfg.interval

-----------------------------------------------------------------------------
Init ==
    /\ cfg \in Configs
    /\ probers = NewProbers(cfg)
    /\ states = [n \in Names(cfg) |-> FreshState(TargetNamed(cfg, n))]
    /\ nextInterval = cfg.interval
    /\ timer = 0
    /\ currentNexthop = Empty
    /\ finalActive = FALSE
    /\ route \in IP \cup {NoRoute}
    /\ loop = "starting"
    /\ round = NoRound
    /\ cancelled = FALSE

\* ProbeOnce, up to the RUnlock.  The first round starts at once, the others
\* when the timer fires; a timer that fires together with the cancellation
\* may win the select of Run.
StartRound ==
    /\ loop \in {"starting", "waiting"}
    /\ round' = [targets |-> cfg.targets, probers |-> probers,
                 live |-> ~cancelled]
    /\ loop' = "probing"
    /\ timer' = 0
    /\ UNCHANGED <<tables, nextInterval, routeVars, cancelled>>

\* ProbeOnce from the Lock on: all probes have returned, ok says how.  A probe
\* started under a cancelled context fails.
ApplyResults(ok, read, write) ==
    /\ loop = "probing"
    /\ loop' = "pacing"
    /\ round' = NoRound
    /\ (\E n \in DOMAIN ok : ok[n]) => round.live
    /\ LET seen == DOMAIN ok \cap DOMAIN states
           new == [n \in DOMAIN states |->
                      IF n \in seen THEN Observe(states[n], ok[n], cfg.rounds)
                                    ELSE states[n]]
           hasPending == \E n \in seen : ok[n] # states[n].up
           changed == \E n \in seen : new[n].up # states[n].up
       IN  /\ states' = new
           /\ nextInterval' = AdaptedInterval(hasPending, changed)
           /\ Converge(changed, cfg, new, read, write)
    /\ UNCHANGED <<cfg, probers, timer, cancelled>>

\* Run reads the pace and arms its timer with it.  A reload during the wait
\* does not reach the timer: the next wait is the first at the new pace.
ArmTimer ==
    /\ loop = "pacing"
    /\ loop' = "waiting"
    /\ timer' = nextInterval
    /\ UNCHANGED <<tables, nextInterval, routeVars, round, cancelled>>

\* A reload that keeps the old definition of a target it knows.
KeptStale(s, t) == s

\* What Reload does with the state of a target whose name remains.
Kept(s, t) == [s EXCEPT !.target = t]

\* A reload that makes probers only for the names it does not know.
ProbersKept(c) ==
    [n \in Names(c) |-> IF n \in DOMAIN probers THEN probers[n]
                                                ELSE NewProbers(c)[n]]

\* Reload makes every prober anew: the definition or the timeout may differ.
ProbersAfter(c) == NewProbers(c)

\* A reload that goes on at the pace there was.
PaceKept(c) == nextInterval

\* Reload goes back to the configured interval.
PaceAfter(c) == c.interval

\* Reload: new tables; a target whose name remains keeps its stable state.
Reload(c, read, write) ==
    LET new == [n \in Names(c) |->
                  IF n \in DOMAIN states
                  THEN Kept(states[n], TargetNamed(c, n))
                  ELSE FreshState(TargetNamed(c, n))]
    IN  /\ cfg' = c
        /\ probers' = ProbersAfter(c)
        /\ states' = new
        /\ nextInterval' = PaceAfter(c)
        /\ Converge(FALSE, c, new, read, write)
        /\ UNCHANGED <<timer, loop, round, cancelled>>

\* The control server failed, or the process is about to return from main.
Cancel ==
    /\ ~cancelled
    /\ cancelled' = TRUE
    /\ UNCHANGED <<tables, nextInterval, timer, routeVars, loop, round>>

\* Run sees the cancelled context in its select and returns.
LoopExit ==
    /\ loop = "waiting"
    /\ cancelled
    /\ loop' = "exited"
    /\ timer' = 0
    /\ UNCHANGED <<tables, nextInterval, routeVars, round, cancelled>>

\* An administrator, a DHCP client or the kernel changes the default route.
ExternalRoute(r) ==
    /\ r # route
    /\ route' = r
    /\ UNCHANGED <<tables, nextInterval, timer, currentNexthop, finalActive,
                   loop, round, cancelled>>

Next ==
    \/ StartRound
    \/ \E ok \in [RoundNames -> BOOLEAN], read \in BOOLEAN, write \in Write :
           ApplyResults(ok, read, write)
    \/ ArmTimer
    \/ \E c \in Configs, read \in BOOLEAN, write \in Write :
           Reload(c, read, write)
    \/ Cancel
    \/ LoopExit
    \/ \E r \in IP \cup {NoRoute} : ExternalRoute(r)

Spec == Init /\ [][Next]_vars

-----------------------------------------------------------------------------
(***************************************************************************)
(* Properties.                                                             *)
(***************************************************************************)

\* Every variable has the type its Go declaration gives it.
TypeOK ==
    /\ cfg \in Configs
    /\ probers \in [Names(cfg) -> Prober]
    /\ states \in [Names(cfg) -> TargetState]
    /\ nextInterval \in Nat \ {0}
    /\ timer \in IF loop = "waiting" THEN Nat \ {0} ELSE {0}
    /\ currentNexthop \in Text
    /\ finalActive \in BOOLEAN
    /\ route \in IP \cup {NoRoute}
    /\ loop \in Phase
    /\ cancelled \in BOOLEAN

\* The three tables describe the same configuration, and the round in flight
\* has a prober of its own for each target it copied: a Reload between the two
\* critical sections of ProbeOnce makes no probe goroutine call a nil prober,
\* and no state or prober outlives the target it was built from
\* (state.go 103-124, 248-268).
TablesAgree ==
    /\ \A i \in DOMAIN cfg.targets :
           LET t == cfg.targets[i]
           IN  /\ states[t.name].target = t
               /\ probers[t.name] = [target |-> t, timeout |-> cfg.timeout]
    /\ \A i \in DOMAIN round.targets :
           LET t == round.targets[i]
           IN  /\ t.name \in DOMAIN round.probers
               /\ round.probers[t.name].target = t
    /\ \A i, j \in DOMAIN round.targets :
           round.targets[i].name = round.targets[j].name => i = j

\* A pending count is always about leaving the present state, across flips,
\* reloads that change stable_rounds and rounds whose results come late.
PendingOpposes ==
    \A n \in DOMAIN states :
        states[n].pending > 0 => states[n].pendingUp # states[n].up

\* The pace differs from probe_interval only while some target is on its way
\* to a flip: no reload, removal of the suspicious target or late round leaves
\* it accelerated (state.go 177-189, 268).  A timer that is armed already keeps
\* the pace it was armed with for one more wait.
AcceleratedOnlyWhilePending ==
    nextInterval # cfg.interval => \E n \in DOMAIN states : states[n].pending > 0

\* Each time Run arms its timer, the wait lies between probe_interval and the
\* floor of the adaptive interval, of the configuration then in force: below
\* probe_interval the pace never passes the floor, and where probe_interval is
\* itself below the floor, a pending target slows the loop down to the floor
\* and no further.  A reload between two waits counts for the next one; a wait
\* under way runs to its end at the pace there was (state.go 81-94, 177-189, 268).
PaceBounded ==
    [][loop # "waiting" /\ loop' = "waiting" =>
         timer' \in Min({cfg.interval, MinInterval}) .. Max({cfg.interval, MinInterval})]_vars

\* The gateway the documentation asks for: among the targets that are up the
\* heaviest, the first in the file among equals, or final_ip when none is up.
BestReached(c, st, r) ==
    LET ts == c.targets
        up == {i \in DOMAIN ts : st[ts[i].name].up}
    IN  IF up = {}
        THEN r = ParseIP[c.finalIP]
        ELSE \E i \in up :
               /\ r = ParseIP[ts[i].ip]
               /\ \A j \in up : \/ ts[j].weight < ts[i].weight
                                \/ ts[j].weight = ts[i].weight /\ i <= j

\* Every target has an IPv4 address; an http target may have none.
Addressed(c) == \A i \in DOMAIN c.targets : ParseIP[c.targets[i].ip] # NoIP

ConvergingStep ==
    \/ \E ok \in [RoundNames -> BOOLEAN], read \in BOOLEAN :
           ApplyResults(ok, read, "done")
    \/ \E c \in Configs, read \in BOOLEAN : Reload(c, read, "done")

\* A round or a reload whose route update does not fail ends with the kernel's
\* default route at the best gateway, whatever happened to the route, the
\* tables or earlier updates before it.
RoundConverges ==
    [][ConvergingStep /\ Addressed(cfg') => BestReached(cfg', states', route')]_vars

\* The same without the condition on the addresses: "the highest weight among
\* the live upstreams", and final_ip when all are down.
FailoverNeverBlocked ==
    [][ConvergingStep => BestReached(cfg', states', route')]_vars

\* What Status reports changes only in a step that leaves the kernel's route
\* there: an update that failed is never reported, and the flag for final_ip
\* belongs to the gateway reported with it (state.go 223-239).
StatusFollowsUpdates ==
    [][<<currentNexthop, finalActive>>' # <<currentNexthop, finalActive>> =>
         /\ ParseIP[currentNexthop'] = route'
         /\ finalActive' = (currentNexthop' = cfg'.finalIP)]_vars
=============================================================================
