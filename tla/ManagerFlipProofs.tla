-------------------------- MODULE ManagerFlipProofs --------------------------
(***************************************************************************)
(* When the states of the targets flip, for every set of valid             *)
(* configurations: after exactly stable_rounds results (ManagerHistory),   *)
(* only on evidence of the target's own, and, left undisturbed, all of     *)
(* them within stable_rounds rounds and for good (ManagerLive).            *)
(*                                                                         *)
(* The pending count of the code and the history of the results say the    *)
(* same at all times (Agrees): nothing is pending when the last result     *)
(* agreed with the state, and otherwise the count is the length of the     *)
(* run.  It is less than the largest stable_rounds, so the bound of the    *)
(* history never cuts a run that is still pending.                         *)
(***************************************************************************)
EXTENDS ManagerHistory, ManagerLive, ManagerProofs

Streak == [ok : BOOLEAN, len : 0 .. MaxStreak]

Agrees(s, k) ==
    /\ k \in Streak
    /\ s.pending < MaxStreak
    /\ k.len = 0 \/ k.ok = s.up => s.pending = 0
    /\ k.len # 0 /\ k.ok # s.up => s.pending = k.len /\ s.pendingUp = k.ok

History ==
    /\ DOMAIN streak = Names(cfg)
    /\ \A n \in Names(cfg) : Agrees(states[n], streak[n])

-----------------------------------------------------------------------------
(* One result.                                                             *)

LEMMA MinOfTwo ==
    ASSUME NEW a \in Nat, NEW b \in Nat
    PROVE  Min({a, b}) = IF a <= b THEN a ELSE b
<1> DEFINE m == IF a <= b THEN a ELSE b
<1>1. m \in {a, b} /\ \A x \in {a, b} : m <= x
  OBVIOUS
<1>2. \A y \in {a, b} : (\A x \in {a, b} : y <= x) => y = m
  OBVIOUS
<1> QED
  BY <1>1, <1>2 DEF Min

LEMMA ExtendStep ==
    ASSUME NEW k \in Streak, NEW ok \in BOOLEAN
    PROVE  /\ Extend(k, ok) \in Streak
           /\ Extend(k, ok).ok = ok
           /\ k.len = 0 \/ k.ok # ok => Extend(k, ok).len = 1
           /\ k.len # 0 /\ k.ok = ok => Extend(k, ok).len =
                  IF k.len + 1 <= MaxStreak THEN k.len + 1 ELSE MaxStreak
<1>1. MaxStreak \in Nat \ {0}
  BY StreakAssumption
<1>2. k.ok \in BOOLEAN /\ k.len \in Nat /\ k = [ok |-> k.ok, len |-> k.len]
  BY <1>1 DEF Streak
<1>3. CASE k.len = 0 \/ k.ok # ok
  <2>1. Extend(k, ok) = [ok |-> ok, len |-> 1]
    BY <1>3 DEF Extend
  <2>2. 1 \in 0 .. MaxStreak
    BY <1>1
  <2>3. Extend(k, ok) \in Streak /\ Extend(k, ok).ok = ok /\ Extend(k, ok).len = 1
    BY <2>1, <2>2 DEF Streak
  <2> QED
    BY <1>3, <2>3
<1>4. CASE ~(k.len = 0 \/ k.ok # ok)
  <2> DEFINE l == IF k.len + 1 <= MaxStreak THEN k.len + 1 ELSE MaxStreak
  <2>1. Min({k.len + 1, MaxStreak}) = l
    <3>1. k.len + 1 \in Nat /\ MaxStreak \in Nat
      BY <1>1, <1>2
    <3> QED
      BY <3>1, MinOfTwo
  <2>2. Extend(k, ok) = [ok |-> ok, len |-> l]
    BY <1>2, <1>4, <2>1 DEF Extend
  <2>3. l \in 0 .. MaxStreak
    BY <1>1, <1>2
  <2> HIDE DEF l
  <2>4. Extend(k, ok) \in Streak /\ Extend(k, ok).ok = ok /\ Extend(k, ok).len = l
    BY <2>2, <2>3 DEF Streak
  <2> QED
    BY <1>4, <2>4 DEF l
<1> QED
  BY <1>3, <1>4

\* One more result keeps the count and the history together; it flips the state
\* if and only if it completes a run of r results against it.
LEMMA Together ==
    ASSUME NEW s \in TargetState, NEW k, Agrees(s, k),
           NEW ok \in BOOLEAN, NEW r \in 1 .. MaxStreak
    PROVE  /\ Agrees(Observe(s, ok, r), Extend(k, ok))
           /\ Observe(s, ok, r).up # s.up
                => Extend(k, ok).ok = Observe(s, ok, r).up /\ Extend(k, ok).len >= r
           /\ Extend(k, ok).len >= r => Observe(s, ok, r).up = ok
<1> DEFINE n == RunLength(s, ok)
           k1 == Extend(k, ok)
<1>1. /\ MaxStreak \in Nat /\ r \in Nat \ {0} /\ r <= MaxStreak
      /\ k \in Streak /\ k.len \in Nat /\ k.ok \in BOOLEAN
  BY StreakAssumption DEF Agrees, Streak
<1>2. /\ s.up \in BOOLEAN /\ s.pending \in Nat /\ s.pendingUp \in BOOLEAN
      /\ s = [target |-> s.target, up |-> s.up, pending |-> s.pending,
              pendingUp |-> s.pendingUp]
  BY DEF TargetState
<1>3. k1 \in Streak /\ k1.ok = ok
  BY <1>1, ExtendStep
<1>4. CASE ok = s.up
  <2>1. Observe(s, ok, r) = [target |-> s.target, up |-> s.up, pending |-> 0,
                             pendingUp |-> s.pendingUp]
    BY <1>2, <1>4 DEF Observe
  <2> QED
    BY <1>1, <1>3, <1>4, <2>1 DEF Agrees
<1>5. CASE ok # s.up
  <2>1. n = k1.len /\ n \in Nat \ {0}
    <3>1. CASE k.len = 0 \/ k.ok # ok
      <4>1. s.pending = 0
        BY <1>1, <1>2, <1>5, <3>1 DEF Agrees
      <4> QED
        BY <1>1, <3>1, <4>1, ExtendStep DEF RunLength
    <3>2. CASE k.len # 0 /\ k.ok = ok
      <4>1. s.pending = k.len /\ s.pendingUp = ok /\ s.pending < MaxStreak
        BY <1>5, <3>2 DEF Agrees
      <4> QED
        BY <1>1, <3>2, <4>1, ExtendStep DEF RunLength
    <3> QED
      BY <3>1, <3>2
  <2>2. CASE n >= r
    <3>1. Observe(s, ok, r) = [target |-> s.target, up |-> ok, pending |-> 0,
                               pendingUp |-> ok]
      BY <1>2, <1>5, <2>2 DEF Observe, Pend
    <3> QED
      BY <1>1, <1>3, <2>1, <2>2, <3>1 DEF Agrees
  <2>3. CASE ~(n >= r)
    <3>1. Observe(s, ok, r) = [target |-> s.target, up |-> s.up, pending |-> n,
                               pendingUp |-> ok]
      BY <1>2, <1>5, <2>3 DEF Observe, Pend
    <3> HIDE DEF n, k1
    <3>2. n < r
      BY <1>1, <2>1, <2>3
    <3>3. Agrees(Observe(s, ok, r), k1)
      BY <1>1, <1>3, <1>5, <2>1, <3>1, <3>2 DEF Agrees
    <3> QED
      BY <1>1, <2>1, <3>1, <3>2, <3>3 DEF k1
  <2> QED
    BY <2>2, <2>3
<1> QED
  BY <1>4, <1>5

-----------------------------------------------------------------------------
(* The steps.                                                              *)

LEMMA RoundsInRange ==
    ASSUME NEW c \in Configs
    PROVE  c.rounds \in 1 .. MaxStreak
BY ConfigIsValid, StreakAssumption

LEMMA HInitHistory == HInit => History
<1> SUFFICES ASSUME HInit PROVE History
  OBVIOUS
<1>1. DOMAIN streak = Names(cfg)
  BY DEF HInit
<1>2. ASSUME NEW n \in Names(cfg)
      PROVE  Agrees(states[n], streak[n])
  <2>1. streak[n] = [ok |-> FALSE, len |-> 0] /\ states[n].pending = 0
    BY DEF HInit, NoStreak, Init, FreshState
  <2> QED
    BY <2>1, StreakAssumption DEF Agrees, Streak
<1> QED
  BY <1>1, <1>2 DEF History

\* What a round does to a target it probed, and that it leaves the others.
LEMMA HApplyResultsStep ==
    ASSUME Inv, History, NEW ok \in [RoundNames -> BOOLEAN],
           NEW read \in BOOLEAN, NEW write \in Write,
           HApplyResults(ok, read, write)
    PROVE  /\ History'
           /\ DOMAIN states' = Names(cfg)
           /\ \A n \in Names(cfg) : n \notin RoundNames => states'[n] = states[n]
           /\ \A n \in Names(cfg) : n \in RoundNames =>
                 /\ states'[n].up # states[n].up
                       => streak'[n].ok = states'[n].up /\ streak'[n].len >= cfg.rounds
                 /\ streak'[n].len >= cfg.rounds => states'[n].up = streak'[n].ok
<1>1. /\ DOMAIN states = Names(cfg) /\ DOMAIN streak = Names(cfg)
      /\ cfg \in Configs /\ cfg.rounds \in 1 .. MaxStreak
      /\ \A n \in Names(cfg) : states[n] \in TargetState
      /\ \A n \in Names(cfg) : Agrees(states[n], streak[n])
  BY RoundsInRange DEF Inv, TypeOK, History
<1>2. /\ cfg' = cfg
      /\ states' = [n \in DOMAIN states |->
                       IF n \in DOMAIN ok \cap DOMAIN states
                       THEN Observe(states[n], ok[n], cfg.rounds)
                       ELSE states[n]]
      /\ streak' = [n \in DOMAIN streak |->
                       IF n \in DOMAIN ok THEN Extend(streak[n], ok[n])
                                          ELSE streak[n]]
  BY DEF HApplyResults, ApplyResults
<1>3. ASSUME NEW n \in Names(cfg), n \notin RoundNames
      PROVE  states'[n] = states[n] /\ streak'[n] = streak[n]
  BY <1>1, <1>2, <1>3
<1>4. ASSUME NEW n \in Names(cfg), n \in RoundNames
      PROVE  /\ ok[n] \in BOOLEAN
             /\ states'[n] = Observe(states[n], ok[n], cfg.rounds)
             /\ streak'[n] = Extend(streak[n], ok[n])
  BY <1>1, <1>2, <1>4
<1>5. ASSUME NEW n \in Names(cfg), n \in RoundNames
      PROVE  /\ Agrees(states'[n], streak'[n])
             /\ states'[n].up # states[n].up
                   => streak'[n].ok = states'[n].up /\ streak'[n].len >= cfg.rounds
             /\ streak'[n].len >= cfg.rounds => states'[n].up = streak'[n].ok
  <2>1. states[n] \in TargetState /\ Agrees(states[n], streak[n])
    BY <1>1
  <2>2. streak[n] \in Streak
    BY <2>1 DEF Agrees
  <2>3. Extend(streak[n], ok[n]).ok = ok[n]
    BY <1>4, <1>5, <2>2, ExtendStep
  <2> QED
    BY <1>1, <1>4, <1>5, <2>1, <2>3, Together
<1>6. History'
  BY <1>1, <1>2, <1>3, <1>5 DEF History
<1> QED
  BY <1>1, <1>2, <1>3, <1>5, <1>6

\* A reload keeps the count and the history of a target that stays, and starts
\* both anew for one that comes.
LEMMA HReloadStep ==
    ASSUME Inv, History, NEW c \in Configs, NEW read \in BOOLEAN,
           NEW write \in Write, HReload(c, read, write)
    PROVE  /\ History'
           /\ \A n \in DOMAIN states \cap DOMAIN states' :
                 states'[n].up = states[n].up
<1>1. /\ DOMAIN states = Names(cfg) /\ DOMAIN streak = Names(cfg)
      /\ \A n \in Names(cfg) : states[n] \in TargetState
      /\ \A n \in Names(cfg) : Agrees(states[n], streak[n])
  BY DEF Inv, TypeOK, History
<1>2. /\ cfg' = c
      /\ states' = [n \in Names(c) |->
                       IF n \in DOMAIN states
                       THEN Kept(states[n], TargetNamed(c, n))
                       ELSE FreshState(TargetNamed(c, n))]
      /\ streak' = [n \in Names(c) |->
                       IF n \in DOMAIN streak THEN streak[n] ELSE NoStreak]
  BY DEF HReload, Reload
<1>3. ASSUME NEW n \in Names(c), n \in Names(cfg)
      PROVE  /\ streak'[n] = streak[n]
             /\ states'[n].up = states[n].up
             /\ states'[n].pending = states[n].pending
             /\ states'[n].pendingUp = states[n].pendingUp
  <2>1. states'[n] = [states[n] EXCEPT !.target = TargetNamed(c, n)]
    BY <1>1, <1>2, <1>3 DEF Kept
  <2> QED
    BY <1>1, <1>2, <1>3, <2>1 DEF TargetState
<1>4. ASSUME NEW n \in Names(c), n \notin Names(cfg)
      PROVE  /\ streak'[n] = [ok |-> FALSE, len |-> 0]
             /\ states'[n].pending = 0
  BY <1>1, <1>2, <1>4 DEF NoStreak, FreshState
<1>5. ASSUME NEW n \in Names(c)
      PROVE  Agrees(states'[n], streak'[n])
  <2>1. CASE n \in Names(cfg)
    BY <1>1, <1>3, <2>1 DEF Agrees
  <2>2. CASE n \notin Names(cfg)
    <3>1. [ok |-> FALSE, len |-> 0] \in Streak
      BY StreakAssumption DEF Streak
    <3>2. streak'[n].len = 0 /\ streak'[n] \in Streak /\ states'[n].pending = 0
      BY <1>4, <2>2, <3>1
    <3> QED
      BY <3>2, StreakAssumption DEF Agrees
  <2> QED
    BY <2>1, <2>2
<1>6. History'
  BY <1>2, <1>5 DEF History
<1> QED
  BY <1>1, <1>2, <1>3, <1>6

\* No other step touches states, streak or cfg.
LEMMA HNextCases ==
    ASSUME [HNext]_hvars
    PROVE  \/ \E ok \in [RoundNames -> BOOLEAN], read \in BOOLEAN, write \in Write :
                 HApplyResults(ok, read, write)
           \/ \E c \in Configs, read \in BOOLEAN, write \in Write :
                 HReload(c, read, write)
           \/ /\ UNCHANGED <<cfg, states, streak>>
              /\ loop' # loop => loop # "probing"
BY DEF HNext, hvars, vars, StartRound, ArmTimer, Cancel, LoopExit, ExternalRoute, tables

LEMMA HNextHistory == Inv /\ History /\ [HNext]_hvars => History'
<1> SUFFICES ASSUME Inv, History, [HNext]_hvars PROVE History'
  OBVIOUS
<1>1. CASE UNCHANGED <<cfg, states, streak>>
  BY <1>1 DEF History
<1> QED
  BY <1>1, HNextCases, HApplyResultsStep, HReloadStep

\* With its history the manager is still the manager.
LEMMA HistoryOnly == HSpec => Spec
<1>1. HInit => Init
  BY DEF HInit
<1>2. [HNext]_hvars => [Next]_vars
  BY DEF HNext, hvars, Next, HApplyResults, HReload
<1> QED
  BY <1>1, <1>2, PTL DEF HSpec, Spec

LEMMA HInvariance == HSpec => [](Inv /\ History)
<1>1. HSpec => []Inv
  BY HistoryOnly, Invariance, PTL
<1> QED
  BY <1>1, HInitHistory, HNextHistory, PTL DEF HSpec

-----------------------------------------------------------------------------
(* The theorems.                                                           *)

\* A target flips only when the last stable_rounds results applied to it all
\* said so (state.go 155-174), across any reloads, for any configurations.
THEOREM NeverEarly == HSpec => NoEarlyFlip
<1> DEFINE Step == \A n \in DOMAIN states \cap DOMAIN states' :
                      states'[n].up # states[n].up =>
                          /\ streak'[n].ok = states'[n].up
                          /\ streak'[n].len >= cfg.rounds
<1>1. ASSUME Inv, History, [HNext]_hvars, NEW n \in DOMAIN states \cap DOMAIN states',
             states'[n].up # states[n].up
      PROVE  streak'[n].ok = states'[n].up /\ streak'[n].len >= cfg.rounds
  <2>1. n \in Names(cfg)
    BY <1>1 DEF Inv, TypeOK
  <2>2. ~(UNCHANGED <<cfg, states, streak>>)
    BY <1>1
  <2>3. PICK ok \in [RoundNames -> BOOLEAN], read \in BOOLEAN, write \in Write :
            HApplyResults(ok, read, write)
    BY <1>1, <2>2, HNextCases, HReloadStep
  <2>4. n \in RoundNames
    BY <1>1, <2>1, <2>3, HApplyResultsStep
  <2> QED
    BY <1>1, <2>1, <2>3, <2>4, HApplyResultsStep
<1>2. Inv /\ History /\ [HNext]_hvars => Step
  BY <1>1
<1> HIDE DEF Step
<1>3. Inv /\ History /\ [HNext]_hvars => [Step]_hvars
  BY <1>2
<1>4. HSpec => [][Step]_hvars
  BY <1>3, HInvariance, PTL DEF HSpec
<1> QED
  BY <1>4 DEF Step, NoEarlyFlip

\* And it does not flip later: as soon as stable_rounds results in a row have
\* said the same, it is in that state.
THEOREM NeverLate == HSpec => NoLateFlip
<1> DEFINE Step == \A n \in DOMAIN states :
                      Applying(n) /\ streak'[n].len >= cfg.rounds =>
                          states'[n].up = streak'[n].ok
<1>1. ASSUME Inv, History, [HNext]_hvars, NEW n \in DOMAIN states,
             Applying(n), streak'[n].len >= cfg.rounds
      PROVE  states'[n].up = streak'[n].ok
  <2>1. n \in Names(cfg) /\ n \in RoundNames /\ loop = "probing" /\ loop' # loop
    BY <1>1 DEF Inv, TypeOK, Applying
  <2>2. \A c \in Configs, read \in BOOLEAN, write \in Write : ~HReload(c, read, write)
    BY <2>1 DEF HReload, Reload
  <2>3. PICK ok \in [RoundNames -> BOOLEAN], read \in BOOLEAN, write \in Write :
            HApplyResults(ok, read, write)
    BY <1>1, <2>1, <2>2, HNextCases
  <2> QED
    BY <1>1, <2>1, <2>3, HApplyResultsStep
<1>2. Inv /\ History /\ [HNext]_hvars => Step
  BY <1>1
<1> HIDE DEF Step
<1>3. Inv /\ History /\ [HNext]_hvars => [Step]_hvars
  BY <1>2
<1>4. HSpec => [][Step]_hvars
  BY <1>3, HInvariance, PTL DEF HSpec
<1> QED
  BY <1>4 DEF Step, NoLateFlip

-----------------------------------------------------------------------------
(* Targets that are healthy or not.                                        *)

LEMMA LiveOnly == LSpec => Spec
<1>1. LInit => Init
  BY DEF LInit
<1>2. [LNext]_lvars => [Next]_vars
  BY DEF LNext, lvars, Next, LStartRound, LApplyResults, Disturb, HealthChanges
<1> QED
  BY <1>1, <1>2, PTL DEF LSpec, Spec

HealthOK == health \in [AllTargets -> BOOLEAN]

LEMMA LInvariance == LSpec => [](Inv /\ HealthOK)
<1>1. LSpec => []Inv
  BY LiveOnly, Invariance, PTL
<1>2. LInit => HealthOK
  BY DEF LInit, HealthOK
<1>3. HealthOK /\ [LNext]_lvars => HealthOK'
  BY DEF LNext, lvars, LStartRound, LApplyResults, Disturb, HealthChanges, HealthOK
<1> QED
  BY <1>1, <1>2, <1>3, PTL DEF LSpec

\* The state of a name belongs to a target of the configuration in force.
LEMMA StateOfTarget ==
    ASSUME Inv, NEW n \in Names(cfg)
    PROVE  /\ states[n].target \in {cfg.targets[i] : i \in DOMAIN cfg.targets}
           /\ states[n].target \in AllTargets
           /\ states[n].target.name = n
<1>1. cfg \in Configs /\ states[n].target = TargetNamed(cfg, n)
  BY DEF Inv, TypeOK, Tables
<1>2. cfg \in Config /\ Valid(cfg)
  BY <1>1, ConfigIsValid
<1>3. PICK i \in DOMAIN cfg.targets :
          cfg.targets[i].name = n /\ TargetNamed(cfg, n) = cfg.targets[i]
  BY <1>2, NameHasTarget
<1> QED
  BY <1>1, <1>3 DEF AllTargets

\* A target that the round copied as it is defined now is asked by a prober of
\* its own.
LEMMA AsksItself ==
    ASSUME Inv, NEW n \in Names(cfg), states[n].target \in Copied
    PROVE  round.probers[n].target = states[n].target
<1>1. round # NoRound
  BY DEF Copied, NoRound
<1>2. PICK c \in Configs : round.targets = c.targets /\ round.probers = NewProbers(c)
  BY <1>1 DEF Inv, RoundOK
<1>3. PICK i \in DOMAIN c.targets : c.targets[i] = states[n].target
  BY <1>2 DEF Copied
<1>4. c.targets[i].name = n
  BY <1>3, StateOfTarget
<1>5. n \in Names(c) /\ TargetNamed(c, n) = c.targets[i]
  BY <1>4, ConfigIsValid, NamedTarget
<1> QED
  BY <1>2, <1>3, <1>5 DEF NewProbers

\* A result moves a state in its own direction or not at all.
LEMMA ObserveUp ==
    ASSUME NEW s \in TargetState, NEW ok, NEW r
    PROVE  Observe(s, ok, r).up \in {s.up, ok}
BY DEF Observe, Pend, TargetState

\* Only the end of a round changes the states without a reload.
LEMMA LRoundStep ==
    ASSUME Inv, NEW ok \in [RoundNames -> BOOLEAN], NEW read \in BOOLEAN,
           NEW write \in Write, ApplyResults(ok, read, write)
    PROVE  /\ cfg' = cfg
           /\ states' \in [Names(cfg) -> TargetState]
           /\ \A n \in Names(cfg) :
                 states'[n] = IF n \in RoundNames
                              THEN Observe(states[n], ok[n], cfg.rounds) ELSE states[n]
           /\ \E changed \in BOOLEAN : Converge(changed, cfg, states', read, write)
<1> DEFINE seen == DOMAIN ok \cap DOMAIN states
           after == [n \in DOMAIN states |->
                       IF n \in seen THEN Observe(states[n], ok[n], cfg.rounds)
                                     ELSE states[n]]
           changed == \E n \in seen : after[n].up # states[n].up
<1>1. states' = after /\ cfg' = cfg /\ Converge(changed, cfg, after, read, write)
  BY DEF ApplyResults
<1>2. DOMAIN states = Names(cfg) /\ DOMAIN ok = RoundNames
  BY DEF Inv, TypeOK
<1>3. Inv'
  BY ApplyResultsInv
<1>4. states' \in [Names(cfg) -> TargetState]
  BY <1>1, <1>3 DEF Inv, TypeOK
<1>5. changed \in BOOLEAN
  OBVIOUS
<1>6. \A n \in Names(cfg) :
          states'[n] = IF n \in RoundNames
                       THEN Observe(states[n], ok[n], cfg.rounds) ELSE states[n]
  BY <1>1, <1>2
<1> HIDE DEF after, changed
<1> QED
  BY <1>1, <1>4, <1>5, <1>6

\* A target flips in a round only for what it answered itself, as it is defined
\* now: it goes down only if it did not answer all the time, up only if it
\* answered (state.go 103-124, 140-171).
THEOREM EvidenceCorrect == LSpec => FlipsOnEvidence
<1> DEFINE Step == \A n \in RoundNames \cap DOMAIN states :
           LET t == states[n].target
           IN  loop' # loop /\ ~cancelled /\ t \in Copied
                   /\ states'[n].up # states[n].up =>
               IF states'[n].up THEN t \in sampled \cup Healthy
                                ELSE t \notin sampled \cap Healthy
<1>1. ASSUME Inv, [LNext]_lvars, NEW n \in RoundNames \cap DOMAIN states,
             loop' # loop, ~cancelled, states[n].target \in Copied,
             states'[n].up # states[n].up
      PROVE  IF states'[n].up THEN states[n].target \in sampled \cup Healthy
                              ELSE states[n].target \notin sampled \cap Healthy
  <2>1. PICK ok \in [RoundNames -> BOOLEAN], read \in BOOLEAN, write \in Write :
            LApplyResults(ok, read, write)
    BY <1>1 DEF LNext, lvars, vars, LStartRound, StartRound, ArmTimer,
                LoopExit, Disturb, Reload, Cancel, ExternalRoute, HealthChanges, tables
  <2>2. n \in Names(cfg) /\ n \in DOMAIN ok /\ states[n] \in TargetState
    BY <1>1, <2>1 DEF Inv, TypeOK
  <2>3. states'[n] = Observe(states[n], ok[n], cfg.rounds)
    BY <1>1, <2>1, <2>2, LRoundStep DEF LApplyResults
  <2>4. states'[n].up = ok[n]
    BY <1>1, <2>2, <2>3, ObserveUp
  <2>5. round.probers[n].target = states[n].target
    BY <1>1, <2>2, AsksItself
  <2>6. ok[n] \in BOOLEAN
    BY <2>1, <2>2
  <2>7. CASE ok[n]
    BY <2>1, <2>2, <2>4, <2>5, <2>7 DEF LApplyResults, Observable
  <2>8. CASE ~ok[n]
    BY <1>1, <2>1, <2>2, <2>4, <2>5, <2>8 DEF LApplyResults, Missed
  <2> QED
    BY <2>6, <2>7, <2>8
<1>2. Inv /\ [LNext]_lvars => [Step]_lvars
  BY <1>1
<1> HIDE DEF Step
<1>3. LSpec => [][Step]_lvars
  BY <1>2, LInvariance, PTL DEF LSpec
<1> QED
  BY <1>3 DEF Step, FlipsOnEvidence

-----------------------------------------------------------------------------
(* Recovery.                                                               *)

\* In an undisturbed round every target of the configuration is probed, and its
\* result is its health.
LEMMA ResultsAreHealth ==
    ASSUME Inv, HealthOK, Undisturbed, NEW ok \in [RoundNames -> BOOLEAN],
           NEW read \in BOOLEAN, NEW write \in Write, LApplyResults(ok, read, write),
           NEW n \in Names(cfg)
    PROVE  /\ n \in RoundNames
           /\ ok[n] = health[states[n].target]
           /\ health[states[n].target] \in BOOLEAN
<1> DEFINE t == states[n].target
<1>1. /\ loop = "probing" /\ round.targets = cfg.targets
      /\ sampled = Copied \cap Healthy /\ ~cancelled
  BY DEF LApplyResults, ApplyResults, Undisturbed, RoundIsFresh
<1>2. n \in RoundNames
  BY <1>1 DEF RoundNames, Names
<1>3. t \in Copied /\ t \in AllTargets
  BY <1>1, StateOfTarget DEF Copied
<1>4. round.probers[n].target = t
  BY <1>3, AsksItself
<1>5. health[t] \in BOOLEAN /\ ok[n] \in BOOLEAN
  BY <1>2, <1>3 DEF HealthOK
<1> HIDE DEF t
<1>6. CASE ok[n]
  <2>1. t \in sampled \cup Healthy
    BY <1>2, <1>4, <1>6 DEF LApplyResults, Observable
  <2>2. t \in Healthy
    BY <1>1, <2>1
  <2> QED
    BY <1>2, <1>5, <1>6, <2>2 DEF Healthy, t
<1>7. CASE ~ok[n]
  <2>1. t \notin sampled \cap Healthy
    BY <1>1, <1>2, <1>4, <1>7 DEF LApplyResults, Missed
  <2>2. t \notin Healthy
    BY <1>1, <1>3, <2>1
  <2> QED
    BY <1>2, <1>3, <1>5, <1>7, <2>2 DEF Healthy, t
<1> QED
  BY <1>5, <1>6, <1>7

\* A route that is the best stays so, with or without another update.
LEMMA BestStays ==
    ASSUME NEW STATE c, c \in Configs,
           NEW STATE st, st \in [Names(c) -> TargetState],
           NEW changed \in BOOLEAN, NEW read \in BOOLEAN,
           Converge(changed, c, st, read, "done"), BestReached(c, st, route)
    PROVE  BestReached(c, st, route')
<1>1. CASE route' = route
  BY <1>1 DEF BestReached
<1>2. CASE route' # route
  <2>1. route' = ParseIP[DesiredNexthop(c, st)]
    BY <1>2 DEF Converge, Reconcile, Replaced, routeVars
  <2>2. BestReached(c, st, ParseIP[DesiredNexthop(c, st)])
    BY DesiredIsBest
  <2> QED
    BY <2>1, <2>2
<1> QED
  BY <1>1, <1>2

\* An undisturbed round ends with every table as it was but the counts and the
\* states, with states that have moved towards the health of their targets.
LEMMA UndisturbedRound ==
    ASSUME Inv, HealthOK, Undisturbed, NEW ok \in [RoundNames -> BOOLEAN],
           NEW read \in BOOLEAN, NEW write \in Write, LApplyResults(ok, read, write)
    PROVE  /\ UNCHANGED <<cfg, health>> /\ Undisturbed'
           /\ states' \in [Names(cfg) -> TargetState]
           /\ \E changed \in BOOLEAN : Converge(changed, cfg, states', read, "done")
           /\ \A n \in Names(cfg) :
                 /\ states'[n] = Observe(states[n], health[states[n].target], cfg.rounds)
                 /\ states'[n].target = states[n].target
                 /\ health[states[n].target] \in BOOLEAN
<1>1. /\ calm /\ write = "done" /\ ~cancelled
      /\ ApplyResults(ok, read, write)
      /\ UNCHANGED <<health, calm, cancelled>>
      /\ loop' = "pacing"
  BY DEF Undisturbed, LApplyResults, ApplyResults
<1>2. Undisturbed'
  BY <1>1 DEF Undisturbed, RoundIsFresh
<1>3. /\ cfg' = cfg
      /\ states' \in [Names(cfg) -> TargetState]
      /\ \E changed \in BOOLEAN : Converge(changed, cfg, states', read, write)
  BY <1>1, LRoundStep
<1>4. ASSUME NEW n \in Names(cfg)
      PROVE  /\ states'[n] = Observe(states[n], health[states[n].target], cfg.rounds)
             /\ states'[n].target = states[n].target
             /\ health[states[n].target] \in BOOLEAN
  <2>1. /\ n \in RoundNames /\ ok[n] = health[states[n].target]
        /\ health[states[n].target] \in BOOLEAN
    BY <1>4, ResultsAreHealth
  <2>2. states'[n] = Observe(states[n], ok[n], cfg.rounds)
    BY <1>1, <1>4, <2>1, LRoundStep
  <2>3. states[n] \in TargetState /\ cfg.rounds \in Nat
    BY <1>4, ConfigIsValid DEF Inv, TypeOK
  <2> QED
    BY <2>1, <2>2, <2>3, ObserveStep
<1> QED
  BY <1>1, <1>2, <1>3, <1>4

\* The steps other than the end of a round that an undisturbed daemon can take.
LEMMA UndisturbedSteps ==
    ASSUME [LNext]_lvars, Undisturbed
    PROVE  \/ \E ok \in [RoundNames -> BOOLEAN], read \in BOOLEAN, write \in Write :
                 LApplyResults(ok, read, write)
           \/ LStartRound
           \/ ArmTimer /\ UNCHANGED <<health, sampled, calm>>
           \/ UNCHANGED lvars
BY DEF LNext, LoopExit, Undisturbed

\* The daemon that is right and undisturbed stays right, although reading the
\* route may go on failing: the safety half of recovery (state.go 188-212).
THEOREM SettledForGood == LSpec => StaysSettled
<1>1. ASSUME Inv, HealthOK, [LNext]_lvars, Undisturbed, Settled
      PROVE  Undisturbed' /\ Settled'
  <2>1. ASSUME NEW ok \in [RoundNames -> BOOLEAN], NEW read \in BOOLEAN,
               NEW write \in Write, LApplyResults(ok, read, write)
        PROVE  Undisturbed' /\ Settled'
    <3>1. /\ UNCHANGED <<cfg, health>> /\ Undisturbed'
          /\ states' \in [Names(cfg) -> TargetState]
      BY <1>1, <2>1, UndisturbedRound
    <3>2. PICK changed \in BOOLEAN : Converge(changed, cfg, states', read, "done")
      BY <1>1, <2>1, UndisturbedRound
    <3>3. DOMAIN states = Names(cfg) /\ cfg \in Configs
          /\ \A n \in Names(cfg) : states[n] \in TargetState
      BY <1>1 DEF Inv, TypeOK
    <3>4. ASSUME NEW n \in Names(cfg)
          PROVE  states'[n].up = states[n].up /\ states'[n].target = states[n].target
      <4>1. /\ states'[n] = Observe(states[n], health[states[n].target], cfg.rounds)
            /\ states'[n].target = states[n].target
        BY <1>1, <2>1, <3>4, UndisturbedRound
      <4>2. health[states[n].target] = states[n].up
        BY <1>1, <3>3, <3>4 DEF Settled
      <4>3. states'[n].up \in {states[n].up}
        BY <3>3, <3>4, <4>1, <4>2, ObserveUp
      <4> QED
        BY <4>1, <4>3
    <3>5. BestReached(cfg, states', route)
      <4>1. BestReached(cfg, states, route)
        BY <1>1 DEF Settled
      <4>2. \A i \in DOMAIN cfg.targets :
                states'[cfg.targets[i].name].up = states[cfg.targets[i].name].up
        BY <3>4 DEF Names
      <4> QED
        BY <4>1, <4>2 DEF BestReached
    <3>6. BestReached(cfg, states', route')
      BY <3>1, <3>2, <3>3, <3>5, BestStays
    <3>7. \A n \in DOMAIN states' : states'[n].up = health'[states'[n].target]
      BY <1>1, <3>1, <3>3, <3>4 DEF Settled
    <3> QED
      BY <3>1, <3>6, <3>7 DEF Settled
  <2>2. CASE LStartRound
    <3>1. /\ round'.live = ~cancelled /\ round'.targets = cfg.targets
          /\ sampled' = {cfg.targets[i] : i \in DOMAIN cfg.targets} \cap Healthy
          /\ UNCHANGED <<cfg, states, route, cancelled, health, calm>>
      BY <2>2 DEF LStartRound, StartRound, tables, routeVars
    <3>2. sampled' = (Copied \cap Healthy)'
      BY <3>1 DEF Copied, Healthy
    <3> QED
      BY <1>1, <3>1, <3>2 DEF Undisturbed, RoundIsFresh, Settled, BestReached
  <2>3. CASE ArmTimer /\ UNCHANGED <<health, sampled, calm>>
    BY <1>1, <2>3 DEF ArmTimer, tables, routeVars, Undisturbed, RoundIsFresh, Settled,
                      BestReached, Copied, Healthy
  <2>4. CASE UNCHANGED lvars
    BY <1>1, <2>4 DEF lvars, vars, Undisturbed, RoundIsFresh, Settled, BestReached,
                      Copied, Healthy
  <2> QED
    BY <1>1, <2>1, <2>2, <2>3, <2>4, UndisturbedSteps
<1>2. Inv /\ HealthOK /\ [LNext]_lvars
        => [Undisturbed /\ Settled => Undisturbed' /\ Settled']_lvars
  BY <1>1
<1> QED
  BY <1>2, LInvariance, PTL DEF LSpec, StaysSettled

\* One more result in the direction of the health is one round less to go.
LEMMA ObserveApproaches ==
    ASSUME NEW s \in TargetState, Opposing(s), NEW h \in BOOLEAN, NEW r \in Nat \ {0}
    PROVE  LET Left(x) == IF x.up = h THEN 0
                          ELSE IF x.pending + 1 >= r THEN 1 ELSE r - x.pending
           IN  /\ Left(Observe(s, h, r)) = IF Left(s) = 0 THEN 0 ELSE Left(s) - 1
               /\ Left(s) <= 1 => Observe(s, h, r).up = h
<1> DEFINE Left(x) == IF x.up = h THEN 0
                      ELSE IF x.pending + 1 >= r THEN 1 ELSE r - x.pending
           n == s.pending + 1
<1>1. /\ s.up \in BOOLEAN /\ s.pending \in Nat /\ s.pendingUp \in BOOLEAN
      /\ s = [target |-> s.target, up |-> s.up, pending |-> s.pending,
              pendingUp |-> s.pendingUp]
  BY DEF TargetState
<1>2. CASE h = s.up
  <2>1. Observe(s, h, r).up = h
    BY <1>1, <1>2 DEF Observe
  <2> QED
    BY <1>2, <2>1
<1>3. CASE h # s.up
  <2>1. RunLength(s, h) = n
    BY <1>1, <1>3 DEF RunLength, Opposing
  <2>2. CASE n >= r
    <3>1. Observe(s, h, r).up = h
      BY <1>1, <1>3, <2>1, <2>2 DEF Observe, Pend
    <3> QED
      BY <1>3, <2>2, <3>1
  <2>3. CASE ~(n >= r)
    <3>1. Observe(s, h, r).up = s.up /\ Observe(s, h, r).pending = n
      BY <1>1, <1>3, <2>1, <2>3 DEF Observe, Pend
    <3>2. Left(s) = r - s.pending /\ r - s.pending >= 2
      BY <1>1, <1>3, <2>3
    <3>3. Left(Observe(s, h, r)) = r - s.pending - 1
      BY <1>1, <1>3, <2>3, <3>1
    <3> HIDE DEF Left, n
    <3>4. Left(Observe(s, h, r)) = Left(s) - 1 /\ Left(s) # 0 /\ ~(Left(s) <= 1)
      BY <1>1, <3>2, <3>3
    <3> QED
      BY <3>4 DEF Left
  <2> QED
    BY <2>2, <2>3
<1> QED
  BY <1>2, <1>3

\* Every undisturbed round brings each target one round nearer to its health, so
\* that stable_rounds of them suffice, and the route comes along: what recovery
\* needs besides a loop that goes on (state.go 134-190).
THEOREM RecoveryBounded == LSpec => RoundsApproach
<1> DEFINE Step ==
      Undisturbed /\ RoundEnds =>
         /\ \A n \in DOMAIN states :
                RoundsLeft(n)' = IF RoundsLeft(n) = 0 THEN 0 ELSE RoundsLeft(n) - 1
         /\ Addressed(cfg) /\ (\A n \in DOMAIN states : RoundsLeft(n) <= 1)
                => Settled'
<1>1. ASSUME Inv, HealthOK, [LNext]_lvars, Undisturbed, RoundEnds
      PROVE  /\ \A n \in DOMAIN states :
                   RoundsLeft(n)' = IF RoundsLeft(n) = 0 THEN 0 ELSE RoundsLeft(n) - 1
             /\ Addressed(cfg) /\ (\A n \in DOMAIN states : RoundsLeft(n) <= 1)
                   => Settled'
  <2>1. PICK ok \in [RoundNames -> BOOLEAN], read \in BOOLEAN, write \in Write :
            LApplyResults(ok, read, write)
    BY <1>1, UndisturbedSteps DEF RoundEnds, LStartRound, StartRound, ArmTimer, lvars,
                                  vars
  <2>2. /\ UNCHANGED <<cfg, health>>
        /\ states' \in [Names(cfg) -> TargetState]
    BY <1>1, <2>1, UndisturbedRound
  <2>3. PICK changed \in BOOLEAN : Converge(changed, cfg, states', read, "done")
    BY <1>1, <2>1, UndisturbedRound
  <2>4. /\ DOMAIN states = Names(cfg) /\ cfg \in Configs /\ cfg.rounds \in Nat \ {0}
        /\ \A n \in Names(cfg) : states[n] \in TargetState /\ Opposing(states[n])
        /\ RouteTypes
    BY <1>1, ConfigIsValid DEF Inv, TypeOK, RouteTypes
  <2>5. ASSUME NEW n \in Names(cfg)
        PROVE  /\ RoundsLeft(n)' = IF RoundsLeft(n) = 0 THEN 0 ELSE RoundsLeft(n) - 1
               /\ RoundsLeft(n) <= 1 => states'[n].up = health'[states'[n].target]
    <3>1. /\ states'[n] = Observe(states[n], health[states[n].target], cfg.rounds)
          /\ states'[n].target = states[n].target
          /\ health[states[n].target] \in BOOLEAN
      BY <1>1, <2>1, <2>5, UndisturbedRound
    <3>2. states[n] \in TargetState /\ Opposing(states[n])
      BY <2>4, <2>5
    <3> QED
      BY <2>2, <2>4, <3>1, <3>2, ObserveApproaches DEF RoundsLeft
  <2>6. ASSUME Addressed(cfg), \A n \in DOMAIN states : RoundsLeft(n) <= 1
        PROVE  Settled'
    <3>1. "done" \in Write
      BY DEF Write
    <3>2. BestReached(cfg, states', route')
      BY <2>2, <2>3, <2>4, <2>6, <3>1, ConvergeStep
    <3> QED
      BY <2>2, <2>4, <2>5, <2>6, <3>2 DEF Settled, BestReached
  <2> QED
    BY <2>4, <2>5, <2>6
<1>2. Inv /\ HealthOK /\ [LNext]_lvars => [Step]_lvars
  BY <1>1
<1> HIDE DEF Step
<1>3. LSpec => [][Step]_lvars
  BY <1>2, LInvariance, PTL DEF LSpec
<1> QED
  BY <1>3 DEF Step, RoundsApproach
===============================================================================
