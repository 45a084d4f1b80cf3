---------------------------- MODULE ManagerProofs ----------------------------
(***************************************************************************)
(* Theorems about Manager, for every set of valid configurations.          *)
(*                                                                         *)
(* The inductive invariant is Inv: the type invariant, the fact that each  *)
(* table is exactly what its configuration says (and the round in flight   *)
(* what some earlier one said), and the two facts about pending counts.    *)
(***************************************************************************)
EXTENDS Manager, NexthopConfigProofs

\* The round in flight is the copy of a configuration that was in force.
RoundOK ==
    \/ round = NoRound
    \/ \E c \in Configs : /\ round.targets = c.targets
                          /\ round.probers = NewProbers(c)

Tables ==
    /\ probers = NewProbers(cfg)
    /\ \A n \in Names(cfg) : states[n].target = TargetNamed(cfg, n)

Opposing(s) == s.pending > 0 => s.pendingUp # s.up

Inv ==
    /\ TypeOK
    /\ Tables
    /\ RoundOK
    /\ \A n \in Names(cfg) : Opposing(states[n])
    /\ AcceleratedOnlyWhilePending

-----------------------------------------------------------------------------
(* The choice of the next hop.                                             *)

LEMMA ConfigIsValid ==
    ASSUME NEW c \in Configs
    PROVE  /\ c \in Config /\ Valid(c)
           /\ c.targets \in Seq(Target)
           /\ c.interval \in Nat \ {0} /\ c.timeout \in Int
           /\ c.rounds \in Nat \ {0}
           /\ c.finalIP \in Text /\ ParseIP[c.finalIP] \in IP
<1>1. c \in Config /\ Valid(c)
  BY ConfigsAssumption
<1>2. c.interval > 0 /\ c.rounds >= 1 /\ ParseIP[c.finalIP] # NoIP
  BY <1>1 DEF Valid
<1>3. /\ c.targets \in Seq(Target) /\ c.interval \in Int /\ c.timeout \in Int
      /\ c.rounds \in Int /\ c.finalIP \in Text
  BY <1>1 DEF Config
<1> QED
  BY <1>1, <1>2, <1>3, AddressAssumption

\* DesiredNexthop names the gateway of the best target of a configuration
\* (state.go 214-221 with config.go 196-204): every target sorted away before
\* the chosen one is down.
LEMMA DesiredIsBest ==
    ASSUME NEW c \in Configs, NEW st \in [Names(c) -> TargetState]
    PROVE  /\ DesiredNexthop(c, st) \in Text
           /\ BestReached(c, st, ParseIP[DesiredNexthop(c, st)])
<1> DEFINE ts == c.targets
           sorted == SortedTargets(ts)
           live == {k \in DOMAIN sorted : /\ sorted[k].name \in DOMAIN st
                                          /\ st[sorted[k].name].up}
           up == {i \in DOMAIN ts : st[ts[i].name].up}
<1>1. ts \in Seq(Target) /\ c.finalIP \in Text
  BY ConfigIsValid
<1>2. \A i \in DOMAIN ts : ts[i].name \in DOMAIN st /\ ts[i] \in Target
  BY <1>1 DEF Names
<1>3. \A i \in up : Rank(ts, i) \in live
  BY <1>1, <1>2, RankBounds, SortedIsPermutation
<1>4. ASSUME NEW k \in live
      PROVE  \E i \in up : Rank(ts, i) = k /\ sorted[k] = ts[i]
  BY <1>1, <1>4, SortedIsPermutation
<1>5. CASE live = {}
  <2>1. up = {}
    BY <1>3, <1>5
  <2>2. DesiredNexthop(c, st) = c.finalIP
    BY <1>5 DEF DesiredNexthop
  <2> QED
    BY <1>1, <2>1, <2>2 DEF BestReached
<1>6. CASE live # {}
  <2>1. live \in SUBSET Nat
    BY <1>1, SortedIsPermutation
  <2>2. \E m \in live : \A k \in live : m <= k
    BY <1>6, <2>1, LeastNatural
  <2>3. Min(live) \in live /\ \A k \in live : Min(live) <= k
    BY <2>2 DEF Min
  <2>4. PICK i \in up : Rank(ts, i) = Min(live) /\ sorted[Min(live)] = ts[i]
    BY <1>4, <2>3
  <2>5. DesiredNexthop(c, st) = ts[i].ip
    BY <1>6, <2>4 DEF DesiredNexthop
  <2>6. ts[i].ip \in Text
    BY <1>2, <2>4 DEF Target
  <2>7. ASSUME NEW j \in up
        PROVE  ts[j].weight < ts[i].weight \/ (ts[j].weight = ts[i].weight /\ i <= j)
    <3>1. i \in DOMAIN ts /\ j \in DOMAIN ts
      BY <2>4, <2>7
    <3>2. Rank(ts, i) <= Rank(ts, j)
      BY <1>3, <2>3, <2>4, <2>7
    <3>3. Rank(ts, i) \in Int /\ Rank(ts, j) \in Int
      BY <1>1, <3>1, RankBounds
    <3>4. ~Precedes(ts, j, i)
      BY <1>1, <3>1, <3>2, <3>3, RankBounds
    <3>5. ts[i].weight \in Int /\ ts[j].weight \in Int
      BY <1>2, <3>1 DEF Target
    <3> QED
      BY <1>1, <3>1, <3>4, <3>5 DEF Precedes
  <2> QED
    BY <2>4, <2>5, <2>6, <2>7 DEF BestReached
<1> QED
  BY <1>5, <1>6

-----------------------------------------------------------------------------
(* Debouncing.                                                             *)

\* What one result does to the state of a target.
LEMMA ObserveStep ==
    ASSUME NEW s \in TargetState, NEW ok \in BOOLEAN, NEW r \in Nat
    PROVE  /\ Observe(s, ok, r) \in TargetState
           /\ Observe(s, ok, r).target = s.target
           /\ Opposing(Observe(s, ok, r))
           /\ ok # s.up /\ Observe(s, ok, r).up = s.up
                => Observe(s, ok, r).pending > 0
<1> DEFINE n == RunLength(s, ok)
<1>1. /\ s.up \in BOOLEAN /\ s.pending \in Nat /\ s.pendingUp \in BOOLEAN
      /\ s.target \in Target
      /\ s = [target |-> s.target, up |-> s.up, pending |-> s.pending,
              pendingUp |-> s.pendingUp]
  BY DEF TargetState
<1>2. n \in Nat \ {0}
  BY <1>1 DEF RunLength
<1>3. CASE ok = s.up
  <2>1. Observe(s, ok, r) = [target |-> s.target, up |-> s.up, pending |-> 0,
                             pendingUp |-> s.pendingUp]
    BY <1>1, <1>3 DEF Observe, Pend
  <2> QED
    BY <1>1, <1>3, <2>1 DEF TargetState, Opposing
<1>4. CASE ok # s.up /\ n >= r
  <2>1. Observe(s, ok, r) = [target |-> s.target, up |-> ok, pending |-> 0,
                             pendingUp |-> ok]
    BY <1>1, <1>4 DEF Observe, Pend
  <2> QED
    BY <1>1, <1>4, <2>1 DEF TargetState, Opposing
<1>5. CASE ok # s.up /\ ~(n >= r)
  <2>1. Observe(s, ok, r) = [target |-> s.target, up |-> s.up, pending |-> n,
                             pendingUp |-> ok]
    BY <1>1, <1>5 DEF Observe, Pend
  <2> HIDE DEF n
  <2> QED
    BY <1>1, <1>2, <1>5, <2>1 DEF TargetState, Opposing
<1> QED
  BY <1>3, <1>4, <1>5

-----------------------------------------------------------------------------
(* The critical sections.                                                  *)

RouteTypes ==
    /\ currentNexthop \in Text
    /\ finalActive \in BOOLEAN
    /\ route \in IP \cup {NoRoute}

\* Whatever the updater answers, the route variables keep their types; and if
\* it does not fail and targets have addresses, the route is at the best one.
LEMMA ConvergeStep ==
    ASSUME RouteTypes,
           NEW STATE c, c \in Configs,
           NEW STATE st, st \in [Names(c) -> TargetState],
           NEW STATE changed, changed \in BOOLEAN,
           NEW read \in BOOLEAN, NEW write \in Write,
           Converge(changed, c, st, read, write)
    PROVE  /\ RouteTypes'
           /\ write = "done" /\ Addressed(c) => BestReached(c, st, route')
<1> DEFINE d == DesiredNexthop(c, st)
<1>1. d \in Text /\ BestReached(c, st, ParseIP[d])
  BY DesiredIsBest
<1>2. /\ ParseIP[d] \in IP \cup {NoIP}
      /\ Addressed(c) => ParseIP[d] # NoIP
  <2>1. ParseIP[c.finalIP] # NoIP
    BY ConfigIsValid, AddressAssumption
  <2> QED
    BY <1>1, <2>1, AddressAssumption DEF Addressed, BestReached
<1>3. CASE changed \/ ~RouteMatches(c, st, read)
  <2>1. Reconcile(c, st, write)
    BY <1>3 DEF Converge
  <2>2. CASE ParseIP[d] = NoIP
    BY <2>1, <2>2, <1>2 DEF Reconcile, RouteTypes, routeVars
  <2>3. CASE ParseIP[d] # NoIP /\ write = "done"
    <3>1. route' = ParseIP[d] /\ currentNexthop' = d /\ finalActive' = (d = c.finalIP)
      BY <2>1, <2>3 DEF Reconcile, Replaced
    <3> QED
      BY <3>1, <2>3, <1>1, <1>2 DEF RouteTypes
  <2>4. CASE ParseIP[d] # NoIP /\ write # "done"
    <3>1. /\ route' \in {route, NoRoute}
          /\ currentNexthop' = currentNexthop /\ finalActive' = finalActive
      BY <2>1, <2>4 DEF Reconcile, Replaced, Write
    <3> QED
      BY <3>1, <2>4 DEF RouteTypes
  <2> QED
    BY <2>2, <2>3, <2>4
<1>4. CASE ~(changed \/ ~RouteMatches(c, st, read))
  <2>1. UNCHANGED routeVars
    BY <1>4 DEF Converge
  <2>2. route \in IP /\ Format[route] = d
    BY <1>4 DEF RouteMatches, RouteTypes
  <2>3. ParseIP[d] = route
    BY <2>2, AddressAssumption
  <2>4. route' = ParseIP[d]
    BY <2>1, <2>3 DEF routeVars
  <2> QED
    BY <1>1, <2>1, <2>4 DEF routeVars, RouteTypes
<1> QED
  BY <1>3, <1>4

\* The tables that a configuration is given have their types.
LEMMA NewTables ==
    ASSUME NEW c \in Configs
    PROVE  /\ NewProbers(c) \in [Names(c) -> Prober]
           /\ \A n \in Names(c) : /\ TargetNamed(c, n) \in Target
                                 /\ FreshState(TargetNamed(c, n)) \in TargetState
<1>1. c \in Config /\ Valid(c) /\ c.timeout \in Int
  BY ConfigIsValid
<1>2. \A n \in Names(c) : TargetNamed(c, n) \in Target
  BY <1>1, NameHasTarget
<1> QED
  BY <1>1, <1>2 DEF NewProbers, Prober, FreshState, TargetState

\* Halving keeps an interval positive.
LEMMA HalvedPositive ==
    ASSUME NEW i \in Nat \ {0}
    PROVE  Halved(i) \in Nat \ {0}
BY IntervalAssumption DEF Halved

LEMMA InitInv == Init => Inv
<1> SUFFICES ASSUME Init PROVE Inv
  OBVIOUS
<1>1. cfg \in Configs /\ cfg.interval \in Nat \ {0}
  BY ConfigIsValid DEF Init
<1>2. probers \in [Names(cfg) -> Prober] /\ states \in [Names(cfg) -> TargetState]
  BY <1>1, NewTables DEF Init
<1>3. TypeOK
  BY <1>1, <1>2, AddressAssumption DEF Init, TypeOK, Phase
<1>4. Tables /\ RoundOK /\ AcceleratedOnlyWhilePending
  BY <1>1 DEF Init, Tables, RoundOK, AcceleratedOnlyWhilePending, FreshState
<1>5. \A n \in Names(cfg) : Opposing(states[n])
  BY DEF Init, Opposing, FreshState
<1> QED
  BY <1>3, <1>4, <1>5 DEF Inv

\* ProbeOnce after the probes, for any results.
LEMMA ApplyResultsInv ==
    ASSUME Inv, NEW ok \in [RoundNames -> BOOLEAN],
           NEW read \in BOOLEAN, NEW write \in Write, ApplyResults(ok, read, write)
    PROVE  Inv'
<1> DEFINE seen == DOMAIN ok \cap DOMAIN states
           after == [n \in DOMAIN states |->
                       IF n \in seen THEN Observe(states[n], ok[n], cfg.rounds)
                                     ELSE states[n]]
           hasPending == \E n \in seen : ok[n] # states[n].up
           changed == \E n \in seen : after[n].up # states[n].up
<1>1. /\ states' = after
      /\ nextInterval' = AdaptedInterval(hasPending, changed)
      /\ Converge(changed, cfg, after, read, write)
      /\ round' = NoRound /\ loop = "probing" /\ loop' = "pacing"
      /\ UNCHANGED <<cfg, probers, timer, cancelled>>
  BY DEF ApplyResults
<1>2. /\ cfg \in Configs /\ cfg.rounds \in Nat /\ cfg.interval \in Nat \ {0}
      /\ states \in [Names(cfg) -> TargetState]
      /\ nextInterval \in Nat \ {0} /\ RouteTypes
  BY ConfigIsValid DEF Inv, TypeOK, RouteTypes
<1>3. ASSUME NEW n \in Names(cfg)
      PROVE  /\ after[n] \in TargetState
             /\ after[n].target = states[n].target
             /\ Opposing(after[n])
             /\ n \in seen /\ ok[n] # states[n].up /\ after[n].up = states[n].up
                  => after[n].pending > 0
  <2>1. states[n] \in TargetState /\ Opposing(states[n])
    BY <1>2, <1>3 DEF Inv
  <2>2. CASE n \in seen
    <3>1. ok[n] \in BOOLEAN /\ after[n] = Observe(states[n], ok[n], cfg.rounds)
      BY <1>2, <2>2
    <3> QED
      BY <1>2, <2>1, <3>1, ObserveStep
  <2>3. CASE n \notin seen
    BY <1>2, <2>1, <2>3
  <2> QED
    BY <2>2, <2>3
<1>4. after \in [Names(cfg) -> TargetState]
  BY <1>2, <1>3
<1>5. changed \in BOOLEAN
  OBVIOUS
<1> HIDE DEF after
<1>6. RouteTypes'
  BY <1>1, <1>2, <1>4, <1>5, ConvergeStep
<1>7. nextInterval' \in Nat \ {0}
  BY <1>1, <1>2, HalvedPositive DEF AdaptedInterval
<1>8. TypeOK'
  BY <1>1, <1>4, <1>6, <1>7 DEF Inv, TypeOK, RouteTypes, Phase
<1>9. Tables' /\ RoundOK'
  BY <1>1, <1>2, <1>3 DEF Inv, Tables, RoundOK
<1>10. \A n \in Names(cfg') : Opposing(states'[n])
  BY <1>1, <1>3
<1>11. AcceleratedOnlyWhilePending'
  <2>1. CASE hasPending /\ ~changed
    <3>1. PICK n \in seen : ok[n] # states[n].up /\ after[n].up = states[n].up
      BY <2>1
    <3>2. n \in Names(cfg) /\ after[n].pending > 0
      BY <1>2, <1>3, <3>1
    <3> QED
      BY <1>1, <1>4, <3>2 DEF AcceleratedOnlyWhilePending
  <2>2. CASE ~(hasPending /\ ~changed)
    BY <1>1, <2>2 DEF AdaptedInterval, AcceleratedOnlyWhilePending
  <2> QED
    BY <2>1, <2>2
<1> QED
  BY <1>8, <1>9, <1>10, <1>11 DEF Inv

\* A reload, for any valid configuration.
LEMMA ReloadInv ==
    ASSUME Inv, NEW c \in Configs, NEW read \in BOOLEAN, NEW write \in Write,
           Reload(c, read, write)
    PROVE  Inv'
<1> DEFINE after == [n \in Names(c) |->
                       IF n \in DOMAIN states
                       THEN Kept(states[n], TargetNamed(c, n))
                       ELSE FreshState(TargetNamed(c, n))]
<1>1. /\ cfg' = c /\ probers' = NewProbers(c) /\ states' = after
      /\ nextInterval' = c.interval
      /\ Converge(FALSE, c, after, read, write)
      /\ UNCHANGED <<timer, loop, round, cancelled>>
  BY DEF Reload, ProbersAfter, PaceAfter
<1>2. /\ c.interval \in Nat \ {0} /\ NewProbers(c) \in [Names(c) -> Prober]
      /\ states \in [Names(cfg) -> TargetState] /\ RouteTypes
  BY ConfigIsValid, NewTables DEF Inv, TypeOK, RouteTypes
<1>3. ASSUME NEW n \in Names(c)
      PROVE  /\ after[n] \in TargetState
             /\ after[n].target = TargetNamed(c, n)
             /\ Opposing(after[n])
  <2>1. TargetNamed(c, n) \in Target /\ FreshState(TargetNamed(c, n)) \in TargetState
    BY NewTables
  <2>2. CASE n \in DOMAIN states
    <3>1. states[n] \in TargetState /\ Opposing(states[n])
      BY <1>2, <2>2 DEF Inv
    <3> QED
      BY <2>1, <2>2, <3>1 DEF Kept, TargetState, Opposing
  <2>3. CASE n \notin DOMAIN states
    BY <2>1, <2>3 DEF FreshState, Opposing
  <2> QED
    BY <2>2, <2>3
<1>4. after \in [Names(c) -> TargetState]
  BY <1>3
<1> HIDE DEF after
<1>5. RouteTypes'
  BY <1>1, <1>2, <1>4, ConvergeStep
<1>6. TypeOK'
  BY <1>1, <1>2, <1>4, <1>5 DEF Inv, TypeOK, RouteTypes
<1>7. Tables' /\ (\A n \in Names(cfg') : Opposing(states'[n]))
  BY <1>1, <1>3 DEF Tables
<1>8. RoundOK' /\ AcceleratedOnlyWhilePending'
  BY <1>1 DEF Inv, RoundOK, AcceleratedOnlyWhilePending
<1> QED
  BY <1>6, <1>7, <1>8 DEF Inv

LEMMA NextInv == Inv /\ [Next]_vars => Inv'
<1> SUFFICES ASSUME Inv, [Next]_vars PROVE Inv'
  OBVIOUS
<1>1. CASE StartRound
  <2>1. round' = [targets |-> cfg.targets, probers |-> NewProbers(cfg),
                  live |-> ~cancelled]
    BY <1>1 DEF StartRound, Inv, Tables
  <2>2. RoundOK'
    BY <2>1 DEF RoundOK, Inv, TypeOK
  <2> QED
    BY <1>1, <2>2 DEF StartRound, Inv, TypeOK, Tables, Opposing, tables,
                      routeVars, AcceleratedOnlyWhilePending, Phase
<1>2. ASSUME NEW ok \in [RoundNames -> BOOLEAN], NEW read \in BOOLEAN,
             NEW write \in Write, ApplyResults(ok, read, write)
      PROVE  Inv'
  BY <1>2, ApplyResultsInv
<1>3. ASSUME NEW c \in Configs, NEW read \in BOOLEAN, NEW write \in Write,
             Reload(c, read, write)
      PROVE  Inv'
  BY <1>3, ReloadInv
<1>4. CASE Cancel
  BY <1>4 DEF Cancel, Inv, TypeOK, Tables, RoundOK, Opposing, tables, routeVars,
              AcceleratedOnlyWhilePending
<1>5. CASE LoopExit
  BY <1>5 DEF LoopExit, Inv, TypeOK, Tables, RoundOK, Opposing, tables, routeVars,
              AcceleratedOnlyWhilePending, Phase
<1>6. ASSUME NEW r \in IP \cup {NoRoute}, ExternalRoute(r)
      PROVE  Inv'
  BY <1>6 DEF ExternalRoute, Inv, TypeOK, Tables, RoundOK, Opposing, tables,
              AcceleratedOnlyWhilePending
<1>7. CASE ArmTimer
  BY <1>7 DEF ArmTimer, Inv, TypeOK, Tables, RoundOK, Opposing, tables, routeVars,
              AcceleratedOnlyWhilePending, Phase
<1>8. CASE UNCHANGED vars
  BY <1>8 DEF vars, Inv, TypeOK, Tables, RoundOK, Opposing,
              AcceleratedOnlyWhilePending
<1> QED
  BY <1>1, <1>2, <1>3, <1>4, <1>5, <1>6, <1>7, <1>8 DEF Next

LEMMA Invariance == Spec => []Inv
BY InitInv, NextInv, PTL DEF Spec

-----------------------------------------------------------------------------
(* The theorems.                                                           *)

\* The variables of the manager keep their types, through every interleaving
\* of rounds, reloads, cancellation and changes of the route from outside.
THEOREM TypeCorrect == Spec => []TypeOK
<1>1. Inv => TypeOK
  BY DEF Inv
<1> QED
  BY <1>1, Invariance, PTL

\* The tables always describe the configuration in force, and a round in flight
\* across any number of reloads has the probers of the targets it copied.
THEOREM TablesCorrect == Spec => []TablesAgree
<1>1. Inv => TablesAgree
  <2> SUFFICES ASSUME Inv PROVE TablesAgree
    OBVIOUS
  <2>1. ASSUME NEW c \in Configs, NEW i \in DOMAIN c.targets
        PROVE  LET t == c.targets[i]
               IN  /\ t.name \in Names(c)
                   /\ TargetNamed(c, t.name) = t
                   /\ NewProbers(c)[t.name] = [target |-> t, timeout |-> c.timeout]
    BY <2>1, ConfigIsValid, NamedTarget DEF NewProbers
  <2>2. ASSUME NEW i \in DOMAIN cfg.targets
        PROVE  LET t == cfg.targets[i]
               IN  /\ states[t.name].target = t
                   /\ probers[t.name] = [target |-> t, timeout |-> cfg.timeout]
    BY <2>1, <2>2 DEF Inv, TypeOK, Tables
  <2>3. ASSUME NEW i \in DOMAIN round.targets
        PROVE  LET t == round.targets[i]
               IN  /\ t.name \in DOMAIN round.probers
                   /\ round.probers[t.name].target = t
                   /\ \A j \in DOMAIN round.targets :
                         round.targets[j].name = t.name => i = j
    <3>1. round # NoRound
      BY <2>3 DEF NoRound
    <3>2. PICK c \in Configs : /\ round.targets = c.targets
                               /\ round.probers = NewProbers(c)
      BY <3>1 DEF Inv, RoundOK
    <3>3. Valid(c)
      BY ConfigIsValid
    <3>4. \A j \in DOMAIN c.targets : c.targets[j].name = c.targets[i].name => i = j
      BY <2>3, <3>2, <3>3 DEF Valid
    <3>5. DOMAIN NewProbers(c) = Names(c)
      BY DEF NewProbers
    <3>6. /\ c.targets[i].name \in Names(c)
          /\ NewProbers(c)[c.targets[i].name]
                = [target |-> c.targets[i], timeout |-> c.timeout]
      BY <2>1, <2>3, <3>2
    <3> QED
      BY <3>2, <3>4, <3>5, <3>6
  <2> QED
    BY <2>2, <2>3 DEF TablesAgree
<1> QED
  BY <1>1, Invariance, PTL

\* A pending count is always about leaving the present state.
THEOREM PendingCorrect == Spec => []PendingOpposes
<1>1. Inv => PendingOpposes
  BY DEF Inv, TypeOK, Opposing, PendingOpposes
<1> QED
  BY <1>1, Invariance, PTL

\* The loop leaves probe_interval only while some target is on its way to a
\* flip, and is back at it whatever ends that.
THEOREM AccelerationCorrect == Spec => []AcceleratedOnlyWhilePending
<1>1. Inv => AcceleratedOnlyWhilePending
  BY DEF Inv
<1> QED
  BY <1>1, Invariance, PTL

-----------------------------------------------------------------------------
(* The pace.                                                               *)

\* A pace between probe_interval and the floor, whichever of them is smaller.
Paced(i, c) ==
    /\ c.interval <= i \/ MinInterval <= i
    /\ i <= c.interval \/ i <= MinInterval

LEMMA PacedBounds ==
    ASSUME NEW a \in Int, NEW b \in Int, NEW i \in Int,
           a <= i \/ b <= i, i <= a \/ i <= b
    PROVE  i \in Min({a, b}) .. Max({a, b})
<1>1. PICK m \in {a, b} : \A y \in {a, b} : m <= y
  OBVIOUS
<1>2. PICK n \in {a, b} : \A y \in {a, b} : n >= y
  OBVIOUS
<1>3. Min({a, b}) \in {a, b} /\ Min({a, b}) <= a /\ Min({a, b}) <= b
  BY <1>1 DEF Min
<1>4. Max({a, b}) \in {a, b} /\ Max({a, b}) >= a /\ Max({a, b}) >= b
  BY <1>2 DEF Max
<1> QED
  BY <1>3, <1>4

\* Halving stays between the bounds, and every reset is at one of them.
LEMMA NextPaced ==
    ASSUME Inv, Paced(nextInterval, cfg), [Next]_vars
    PROVE  Paced(nextInterval, cfg)'
<1>1. /\ nextInterval \in Nat \ {0} /\ MinInterval \in Nat \ {0}
      /\ cfg.interval \in Int /\ \A c \in Configs : c.interval \in Int
  BY ConfigIsValid, IntervalAssumption DEF Inv, TypeOK, Config
<1>2. CASE StartRound \/ ArmTimer \/ Cancel \/ LoopExit \/ UNCHANGED vars
           \/ (\E r \in IP \cup {NoRoute} : ExternalRoute(r))
  <2>1. UNCHANGED <<cfg, nextInterval>>
    BY <1>2 DEF StartRound, ArmTimer, Cancel, LoopExit, ExternalRoute, vars, tables
  <2> QED
    BY <2>1 DEF Paced
<1>3. ASSUME NEW ok \in [RoundNames -> BOOLEAN], NEW read \in BOOLEAN,
             NEW write \in Write, ApplyResults(ok, read, write)
      PROVE  Paced(nextInterval, cfg)'
  <2>1. nextInterval' \in {Halved(nextInterval), cfg.interval} /\ cfg' = cfg
    BY <1>3 DEF ApplyResults, AdaptedInterval
  <2>2. Paced(Halved(nextInterval), cfg)
    BY <1>1 DEF Halved, Paced
  <2>3. Paced(cfg.interval, cfg)
    BY <1>1 DEF Paced
  <2> QED
    BY <2>1, <2>2, <2>3 DEF Paced
<1>4. ASSUME NEW c \in Configs, NEW read \in BOOLEAN, NEW write \in Write,
             Reload(c, read, write)
      PROVE  Paced(nextInterval, cfg)'
  <2>1. nextInterval' = c.interval /\ cfg' = c
    BY <1>4 DEF Reload, PaceAfter
  <2> QED
    BY <1>1, <2>1 DEF Paced
<1> QED
  BY <1>2, <1>3, <1>4 DEF Next

\* Every wait of Run, for any configurations and any floor, is armed with a pace
\* between probe_interval and the floor (Manager.Run, Manager.interval): a reload
\* counts from the next wait on, and the floor is the only way to be slower.
THEOREM PaceCorrect == Spec => PaceBounded
<1> DEFINE Armed == loop # "waiting" /\ loop' = "waiting" =>
                       timer' \in Min({cfg.interval, MinInterval})
                                    .. Max({cfg.interval, MinInterval})
<1>1. Init => Paced(nextInterval, cfg)
  <2>1. \A c \in Configs : c.interval \in Int
    BY ConfigIsValid DEF Config
  <2> QED
    BY <2>1 DEF Init, Paced
<1>2. Spec => []Paced(nextInterval, cfg)
  BY <1>1, NextPaced, Invariance, PTL DEF Spec
<1>3. ASSUME Inv, Paced(nextInterval, cfg), Next, loop # "waiting", loop' = "waiting"
      PROVE  timer' \in Min({cfg.interval, MinInterval}) .. Max({cfg.interval, MinInterval})
  <2>1. timer' = nextInterval
    BY <1>3 DEF Next, StartRound, ApplyResults, ArmTimer, Reload, Cancel, LoopExit,
                ExternalRoute
  <2>2. nextInterval \in Int /\ MinInterval \in Int /\ cfg.interval \in Int
    BY <1>3, ConfigIsValid, IntervalAssumption DEF Inv, TypeOK, Config
  <2> QED
    BY <1>3, <2>1, <2>2, PacedBounds DEF Paced
<1>4. Inv /\ Paced(nextInterval, cfg) /\ [Next]_vars => [Armed]_vars
  BY <1>3
<1> QED
  BY <1>2, <1>4, Invariance, PTL DEF Spec, PaceBounded

-----------------------------------------------------------------------------
(* The choice of the next hop.                                             *)

\* A round or reload whose update of the route does not fail ends at the best
\* gateway, for any configurations whose targets have addresses.
THEOREM ConvergenceCorrect == Spec => RoundConverges
<1> DEFINE Step == ConvergingStep /\ Addressed(cfg')
                     => BestReached(cfg', states', route')
<1>1. ASSUME Inv, Inv', Addressed(cfg'),
             NEW ok \in [RoundNames -> BOOLEAN], NEW read \in BOOLEAN,
             ApplyResults(ok, read, "done")
      PROVE  BestReached(cfg', states', route')
  <2> DEFINE seen == DOMAIN ok \cap DOMAIN states
             after == [n \in DOMAIN states |->
                         IF n \in seen THEN Observe(states[n], ok[n], cfg.rounds)
                                       ELSE states[n]]
             changed == \E n \in seen : after[n].up # states[n].up
  <2>1. /\ states' = after /\ cfg' = cfg
        /\ Converge(changed, cfg, after, read, "done")
    BY <1>1 DEF ApplyResults
  <2>2. changed \in BOOLEAN
    OBVIOUS
  <2>3. cfg \in Configs /\ RouteTypes /\ after \in [Names(cfg) -> TargetState]
    BY <1>1, <2>1 DEF Inv, TypeOK, RouteTypes
  <2> HIDE DEF after, changed
  <2>4. "done" \in Write
    BY DEF Write
  <2> QED
    BY <1>1, <2>1, <2>2, <2>3, <2>4, ConvergeStep
<1>2. ASSUME Inv, Inv', Addressed(cfg'),
             NEW c \in Configs, NEW read \in BOOLEAN, Reload(c, read, "done")
      PROVE  BestReached(cfg', states', route')
  <2> DEFINE after == [n \in Names(c) |->
                         IF n \in DOMAIN states
                         THEN Kept(states[n], TargetNamed(c, n))
                         ELSE FreshState(TargetNamed(c, n))]
  <2>1. cfg' = c /\ states' = after /\ Converge(FALSE, c, after, read, "done")
    BY <1>2 DEF Reload
  <2>2. RouteTypes /\ after \in [Names(c) -> TargetState]
    BY <1>2, <2>1 DEF Inv, TypeOK, RouteTypes
  <2> HIDE DEF after
  <2>3. "done" \in Write /\ FALSE \in BOOLEAN
    BY DEF Write
  <2> QED
    BY <1>2, <2>1, <2>2, <2>3, ConvergeStep
<1>3. Inv /\ Inv' => Step
  BY <1>1, <1>2 DEF ConvergingStep
<1>4. Inv /\ Inv' /\ [Next]_vars => [Step]_vars
  BY <1>3
<1> QED
  BY <1>4, Invariance, PTL DEF Spec, RoundConverges

\* What the documentation promises without a condition holds for every set of
\* configurations in which each target has an address: a hostname in an http
\* target is all that blocks the failover (state.go 232).
THEOREM FailoverIfAddressed ==
    ASSUME \A c \in Configs : Addressed(c)
    PROVE  Spec => FailoverNeverBlocked
<1> DEFINE Holds == ConvergingStep => BestReached(cfg', states', route')
           Guarded == ConvergingStep /\ Addressed(cfg') => BestReached(cfg', states', route')
<1>1. Inv' => Addressed(cfg')
  BY DEF Inv, TypeOK
<1>2. Inv' /\ [Guarded]_vars => [Holds]_vars
  BY <1>1
<1> QED
  BY <1>2, Invariance, ConvergenceCorrect, PTL DEF RoundConverges, FailoverNeverBlocked

-----------------------------------------------------------------------------
(* Status.                                                                  *)

StatusStep ==
    <<currentNexthop, finalActive>>' # <<currentNexthop, finalActive>> =>
        /\ ParseIP[currentNexthop'] = route'
        /\ finalActive' = (currentNexthop' = cfg'.finalIP)

\* Whatever the choice is, an update reports the gateway it has set.
LEMMA ConvergeReports ==
    ASSUME NEW changed, NEW c, NEW st, NEW read, NEW write,
           Converge(changed, c, st, read, write), cfg' = c
    PROVE  StatusStep
<1> DEFINE desired == DesiredNexthop(c, st)
<1>1. CASE Reconcile(c, st, write)
  <2> HIDE DEF desired
  <2>1. CASE write = "done" /\ ParseIP[desired] # NoIP
    <3>1. /\ route' = Replaced(ParseIP[desired], write)
          /\ currentNexthop' = desired
          /\ finalActive' = (desired = c.finalIP)
      BY <1>1, <2>1 DEF Reconcile, desired
    <3>2. route' = ParseIP[desired]
      BY <2>1, <3>1 DEF Replaced
    <3> QED
      BY <3>1, <3>2 DEF StatusStep
  <2>2. CASE ~(write = "done" /\ ParseIP[desired] # NoIP)
    BY <1>1, <2>2 DEF Reconcile, StatusStep, routeVars, desired
  <2> QED
    BY <2>1, <2>2
<1>2. CASE UNCHANGED routeVars
  BY <1>2 DEF StatusStep, routeVars
<1> QED
  BY <1>1, <1>2 DEF Converge

\* Status never reports an update that failed, for every set of configurations
\* (Manager.Reload, Manager.applyResults).
THEOREM StatusCorrect == Spec => StatusFollowsUpdates
<1>1. ASSUME [Next]_vars PROVE [StatusStep]_vars
  <2>1. CASE StartRound
    BY <2>1 DEF StartRound, StatusStep, routeVars
  <2>2. ASSUME NEW ok \in [RoundNames -> BOOLEAN], NEW read \in BOOLEAN,
               NEW write \in Write, ApplyResults(ok, read, write)
        PROVE  StatusStep
    <3> DEFINE seen == DOMAIN ok \cap DOMAIN states
               after == [n \in DOMAIN states |->
                           IF n \in seen THEN Observe(states[n], ok[n], cfg.rounds)
                                         ELSE states[n]]
               changed == \E n \in seen : after[n].up # states[n].up
    <3>1. cfg' = cfg /\ Converge(changed, cfg, after, read, write)
      BY <2>2 DEF ApplyResults
    <3> HIDE DEF after, changed
    <3> QED
      BY <3>1, ConvergeReports
  <2>3. ASSUME NEW c \in Configs, NEW read \in BOOLEAN, NEW write \in Write,
               Reload(c, read, write)
        PROVE  StatusStep
    <3> DEFINE after == [n \in Names(c) |->
                           IF n \in DOMAIN states
                           THEN Kept(states[n], TargetNamed(c, n))
                           ELSE FreshState(TargetNamed(c, n))]
    <3>1. cfg' = c /\ Converge(FALSE, c, after, read, write)
      BY <2>3 DEF Reload
    <3> HIDE DEF after
    <3> QED
      BY <3>1, ConvergeReports
  <2>4. CASE ArmTimer \/ Cancel \/ LoopExit \/ \E r \in IP \cup {NoRoute} : ExternalRoute(r)
    BY <2>4 DEF ArmTimer, Cancel, LoopExit, ExternalRoute, StatusStep, routeVars
  <2>5. CASE UNCHANGED vars
    BY <2>5
  <2> QED
    BY <1>1, <2>1, <2>2, <2>3, <2>4, <2>5 DEF Next
<1> QED
  BY <1>1, PTL DEF Spec, StatusFollowsUpdates, StatusStep
=============================================================================
