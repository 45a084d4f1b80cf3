# Verification of nexthop

nexthop (`src/README.md`) is a daemon on a gateway machine. It probes a list of
upstream gateways and keeps the machine's IPv4 default route at the heaviest one
that is alive, or at `final_ip` when none is. This directory models it in TLA+,
checks the models with TLC on small instances, and proves their safety properties
with TLAPS for every instance.

Contents: [the system](#1-the-system), [the modules](#2-the-modules),
[runs and bounds](#3-the-runs), [fairness](#4-fairness), [proofs](#5-the-proofs),
[disagreements found](#6-disagreements-between-code-and-documentation),
[what is left out](#7-what-is-not-modelled), [plan](#8-plan).

## 1. The system

| Part | State | Operations | What makes it correct |
|---|---|---|---|
| Configuration, `internal/config/config.go` | a configuration: interval, timeout, egress device, `stable_rounds`, `final_ip`, targets | Parse/Validate, SortedTargets, Load, Save | only valid configurations get in; the order of equal weights is that of the file; Save never leaves half a file |
| State manager, `internal/state/state.go` | `cfg`, `probers`, `states` (with the debounce counters), `nextInterval`, `currentNexthop`, `finalActive`, all under one RWMutex | Run, ProbeOnce, applyResults, Reload, Status | tables agree across reloads; a target flips exactly after `stable_rounds` equal results; the route ends at the best gateway; the accelerated interval does not stay; Status announces no switch that failed |
| Router, `internal/router/router.go` | none of its own; the kernel's routing table | ReplaceDefault, RemoveDefault, CurrentDefault | success means the wanted route is in force and alone; failure is reported and a later call repairs it |
| Ping prober, `internal/probe/ping.go` | a request counter | Probe | a probe returns; only the answer to this request counts |
| TCP, UDP, HTTP probers, `internal/probe/*.go` | HTTP keeps connections | Probe | (not modelled) |
| Daemon process, `cmd/nexthop/run.go` | config file, signal channel of capacity 1, phase of `main` | start, ApplyConfig, ReloadFromFile, SIGHUP, SIGTERM | the file loads; the daemon runs what its file says; a signal that found room takes effect |
| Control server, `internal/control/server.go` | unix socket; one goroutine per request | GET status, GET/POST config, POST reload, Shutdown | a refused change changes nothing; a daemon that serves can be reached |
| Terminal editor and main menu, `cmd/nexthop/config_tui.go`, `tui.go` | a draft of the configuration, cursor, mode, form, pending deletion | edit, add, delete, cancel, save | the draft differs from what was read only in what the user touched; its targets are valid; a save is not believed wrongly |
| Commands, `cmd/nexthop/ctl.go`, `internal/control/client.go` | what was read and prompted for | status, list, add, reload | what the prompts let through is accepted; the changes of others are not undone |
| Installer, `cmd/nexthop/install.go` | program, script, configuration on disk; registration with OpenRC | install, uninstall, the script's start and stop | an installation stays usable; the user's configuration is kept; uninstall leaves nothing |
| Add wizard, display width, mock upstream | | | (not modelled) |

How they interact.

* `main` starts `Manager.Run` in a goroutine, then the control server in
  another, then waits for signals. The manager calls the probers in one
  goroutine per target without its lock, and the router with it.
* The control server calls `ApplyConfig` (parse, save, reload) or
  `ReloadFromFile` (load, reload) in a goroutine per request; SIGHUP makes `main`
  call the latter. Nothing orders these calls but the manager's lock around
  `Reload` itself.
* The editor and `add` read the whole configuration, change a copy, and post the
  whole of it. There is no version to compare: the last post wins. The client
  gives up after five seconds, while the daemon goes on.
* All daemons of a machine use one socket path, which each removes and creates
  at its start and removes at its end, as do the script's `stop_post` and
  uninstall. The main menu starts and stops the service through the script.

What is hard, and where it is modelled:

* a reload between a round's snapshot and its results (Manager, ManagerHistory);
* a route update that fails halfway, and routes that others change (Manager,
  Router, ManagerLive);
* crashes between two steps of saving (Daemon), of replacing the route (Router),
  of installing and uninstalling (Service);
* overlapping changes of the configuration (Daemon), and read-modify-write
  cycles that overlap (Editing);
* signals that come faster than they are served (Daemon);
* answers that come after the client gave up (Editing), echo replies that are
  lost, late or repeated (PingProbe);
* two daemons and one path, in any order of start, stop and crash (Service);
* a modal editor whose form and pending deletion point into a list that changes
  (ConfigEditor);
* recovery: the daemon must end up right after any such disturbance (ManagerLive,
  Router).

`PROJECT.json` lists these hazards one by one with their lines.

## 2. The modules

    NexthopConfig          valid configurations, order of targets
      NexthopConfigProofs    facts about them
      Manager                the state manager
        ManagerProofs          its theorems
        ManagerHistory         + the history of results     <- MCManagerHistory
        ManagerLive            + health of the targets      <- MCManagerLive
          ManagerFlipProofs      the theorems of these two
        MCManager              instance for TLC
      ConfigEditor           the terminal editor
      CtlAdd                 the command add
      Editing                both on one daemon             <- MCEditing
        EditingProofs          its theorems
    RouteUpdater           what the manager relies on
      Router                 netlink requests; implements RouteUpdater <- MCRouter
        RouterProofs           its theorems
    Daemon                 process, signals, configuration file
      DaemonProofs           its theorems
    PingProbe              the ping prober and the network
      PingProbeProofs        its theorems
    Service                install, uninstall, OpenRC, the control socket
      ServiceProofs          its theorems

**NexthopConfig.** `Valid` and `ValidTarget` are `Config.Validate` and
`Target.validate`. Texts are an abstract set with `ParseIP` (`net.ParseIP` and
`To4`) and `Format` (`IP.String`), so that an address in a non-canonical spelling
(`::ffff:10.0.0.1`) and an http target without an address are represented.
`SortedTargets` is the stable sort, defined by rank rather than by a recursive
algorithm.

**Manager.** One action per critical section of `Manager.mu` that changes state, and
one for the moment at which `Run` reads the pace:

| Action | Code |
|---|---|
| `StartRound` | ProbeOnce up to RUnlock: copies targets and probers |
| `ApplyResults(ok, read, write)` | ProbeOnce from Lock on: applyResults, with any results `ok`, CurrentDefault failing or not, ReplaceDefault done, refused, or lost after the removal |
| `ArmTimer` | Run, once a round is over: reads `interval()` and waits for as long as it read |
| `Reload(c, read, write)` | Reload with a valid configuration, between any two other actions |
| `Cancel`, `LoopExit` | the context is cancelled (the control server failed); Run sees it |
| `ExternalRoute(r)` | somebody else changes the default route |

`nextInterval` is the pace and `timer` the wait under way: a reload sets the first
and does not reach the second, so that a wait runs to its end at the pace there was
when it began. `Status` and `Config` only read and are left out. A probe started
under a cancelled context fails, hence `round.live`. The
debounce of one result is `Observe`; what follows it in `applyResults` (interval,
then convergence of the route) is part of the same action.

**ManagerHistory** adds `streak`, the run of equal results last applied to each
target, to state what `stable_rounds` promises without the code's own counters.

**ManagerLive** adds `health`, which targets would answer now. A probe may report
either value when the health changed during the round, and may fail if the context
has been cancelled by then: dialling stops at once, the ping prober when it next
looks at the context (`ping.go` 60). `sampled` holds the targets of the round that
were healthy at its start. `calm` is the moment from which there are no reloads, no
foreign route changes, no failing updates and no changes of health.
`Undisturbed` adds that the loop was not cancelled and that the round in flight, if
any, began after the last disturbance; `RoundsLeft(n)` is the number of rounds the
debounce still needs for a target.

**Router.** One netlink request per step: the link, `RouteList`, each
`RouteDel`, `RouteAdd`. Other programs add and delete routes, the device goes
(taking its routes along) and comes back, requests fail, and the process dies
between requests (`CallAborts`). `index` is what the link index that a call read at
its beginning denotes: a device that came back has another one, so that neither the
addition nor a deletion of a listed route reaches it (`NoDevice`). The table has at most one default route per
metric, the least metric in force. These are the kernel's rules as far as the
code depends on them: adding is exclusive, deleting with metric 0 matches any
metric. Others also add routes over a device alone, which `CurrentDefault` does not
see. **RouteUpdater** is the abstract interface: while a call is under way it may
withdraw the route; it ends with the wanted gateway in force or with an error; and
between calls only the environment moves the route. `Router!ImplementsInterface` is
the refinement, with `route <- InForce(table)`, `busy <- pc # "idle"` and
`failed <- err`. What the manager further hopes for is stated in Router itself:
`CalmCallSucceeds` for one call, `Converges` for all of them.

**Daemon.** A start that fails, because the file does not load or because its
`egress_device` does not exist (`run.go` 80-84), has changed nothing and is a
stutter; "the file loads" means that Load accepts it. `main` is the phase of `cmdRun`; `at[a]` the next step of a request's
goroutine or of `main` while it serves SIGHUP; Save is `WriteTemp` then `Rename`,
either of which may fail. `Crash` may come anywhere. `edited`, `overlapped`,
`hupOwed` and `termOwed` are history variables for the properties.

**PingProbe.** One target, its current prober and the probe in flight. `Wire` is
the conversion to the 16 bits of an echo message, `left` the time to the read
deadline. A reply stays in `net` after it was received, so that it can come again.

**ConfigEditor.** `cfg` is the draft, `sel` the selected row (five global fields,
then the targets), `formTarget` and `formTargetIdx` the copy of a target that the
form edits and its place. `base`, `touched` and `stale` are history: what was
last read or saved, what was changed since, and whether somebody else has changed
the daemon's configuration. `late` holds the posts whose client gave up, each with
the copy it was made from and what its user changed.

| Action | Code |
|---|---|
| `Open`, `OpenAdd` | newCfgEditor from the command or the menu; the menu's entry for a new target opens its form at once (`tui.go` 39-59) |
| `Move`, `Quit` | handle: up, down, quit |
| `EditGlobal` | editSel, startInput, handleInput on a global field; the accepted value goes into the draft |
| `EditTarget`, `AddTarget` | editSel on a target, addTarget: the form with a copy |
| `EditField` | handleForm, startFormInput: the accepted value goes into the copy; another way to probe drops port or url |
| `CancelForm`, `CommitForm` | Escape; s, which checks the whole draft with the target in its place |
| `AskDelete`, `DeclineDelete`, `ConfirmDelete` | deleteTarget, whose closure runs at the answer |
| `Save(answer)` | save: validates, posts, and is answered yes, no, or too late |
| `ApplyLate(p)` | the daemon applies a post whose client gave up |

An input line takes every key until Enter or Escape, so it is one action with the
value the text denotes.

**CtlAdd.** `ReadAndPrompt(t)` reads the configuration and accepts what the
prompts accept, `Decline` is a no or the end of the input, `Post(answer)` posts
what was read with the target at its end. **Editing** puts the editor and `add` on
one daemon; every step of one sets the other's `stale`.

**Service.** A tree is what `-prefix` names, the system or a directory. One
`install` or `uninstall` runs at a time, one action per step; between its steps
the service is started and stopped, daemons crash or are run by hand, and the
user writes configurations.

| Action | Code |
|---|---|
| `RunByHand`, `Terminate`, `Exit`, `Crash` | a daemon's Listen and Shutdown (`server.go` 60-87): `sock` is where the path leads |
| `StartService`, `StopService` | the script's start, which does not see whether the daemon stays, and stop with `stop_post` (`install.go` 182-226) |
| `Install`, `CopyBinary`, `WriteScript`, `LookForConfig`, `WriteExample`, `Register`, `InstallStarts`, `Installed` | cmdInstall; `WriteCutShort` is an os.WriteFile that ends in the middle, `Abandon` an early return or a kill |
| `Uninstall`, `UninstallStops`, `Deregister`, `RemoveFile`, `FileStays`, `RemoveSocket` | cmdUninstall, which ignores failures; `FileStays` is a removal that fails |

`done`, `cut`, `wrote`, `kept`, `served`, `cleaned`, `off` and `crowded` are history
variables; their comments say what each records. `kept` and `served` are about one
uninstall and start afresh with the next, so that an uninstall that follows a failed
one has to finish its work. They name what `UninstallIsComplete` leaves out: a file
that could not be removed or that the user wrote after its removal (`kept`); a stop
or deregistration that failed, a start between the stop and the end, and an uninstall
that finds no script although the service is started or registered (`served`, item 11
of section 6).

Beside some definitions stand variants that a plausible mistake would produce
(`ObserveKeepCount`, `WriteInPlace`, ...). No specification uses them; they show
that each property notices the mistake (`mutants` in `PROJECT.json`).

## 3. The runs

| Run | Checks | Shows | Distinct states |
|---|---|---|---|
| manager | `TypeOK` `TablesAgree` `PendingOpposes` `AcceleratedOnlyWhilePending` `RoundConverges` `StatusFollowsUpdates` `PaceBounded` | consistency of the manager's tables and counters; each wait is armed between `probe_interval` and the floor; an update that works ends at the best gateway, one that fails is not reported | 100,224 |
| debounce | `NoEarlyFlip` `NoLateFlip` | a flip needs, and takes, exactly `stable_rounds` results in a row, whatever is reloaded meanwhile | 21,800 |
| recovery | `Recovers` `ReturnsToBaseInterval` `FlipsOnEvidence` `StaysSettled` `RoundsApproach` | after disturbances states and route are right for good and the interval is normal, each undisturbed round a step towards it; a target flips only for what it answered itself | 171,168 |
| router | `SuccessInForce` `SuccessAlone` `CalmCallSucceeds` `ImplementsInterface` `Converges` | ReplaceDefault among other writers; it implements RouteUpdater, and the route converges once they are quiet | 15,390 |
| daemon | `TypeOK` `FileLoads` `RunsItsFile` `SignalsKept` `HupHonoured` `TermHonoured` | persistence, and signals | 158,860 |
| ping | `TypeOK` `LateReplyNotCredited` `ProbeReturns` | late and repeated replies; every probe returns | 13,858 |
| editing | `TypeOK` `DraftTargetsValid` `DraftKeepsRest` `SavedMeansRunning` `PromptsSuffice` `NothingLostUnlessStale` | sessions of the editor beside `add`, with refused and late posts | 1,122,166 |
| service | `TypeOK` `StaysInstalled` `UninstallIsComplete` `ServesAtSocket` `UserConfigKept` | installs and uninstalls that fail anywhere, beside a living service | 729,439 |
| failover_blocked, overlapping_changes, sequence_wrap, prefix_uninstall | one property each | the first four disagreements of section 6, in this order | - |

Bounds, and why they are enough:

* *manager*: two targets and four configurations. Between them they change the
  order and the weights of the targets, `stable_rounds` (3, 2, 1), the interval
  (8, 4, 2; the floor is 3, so it is reached from above, by rounding and from below),
  remove
  a target and bring it back as another one under the same name, with an address
  in another spelling. Two targets are enough for a tie and for "another target's
  flip". The fourth configuration has the http target without an address.
* *debounce*: one address, three configurations; `MaxStreak` = 3 caps the ghost
  counter at the largest `stable_rounds`, beyond which the properties do not look.
* *recovery*: two targets, one of which shares its gateway with `final_ip`; a reload
  takes one away and moves the other under its name; `stable_rounds` 2 and 1. Counters are bounded by `stable_rounds`, so no other
  bound is needed.
* *router*: two gateways, two devices, metrics 0 (ours) and 100 (a DHCP client's).
  Two metrics give the list, the delete loop, and an addition between them. Others
  route to both gateways, over both devices, and over a device alone.
* *daemon*: two requests beside `main`, two valid file contents and a broken one.
  Overlaps need two actors; a third configuration adds no case.
* *ping*: `SeqMod` = 3 stands for 2^16; `MaxSeq` = 5 goes past the wrap;
  `MaxProber` = 2 is one reload; `MaxNet` = 3 replies under way; `Timeout` = 2
  ticks. The counter itself is bounded, so a run ends when it is used up.
* *editing*: the daemon starts with one target, the users know two names. The
  values typed are one good and one bad for the fields that interact (name, way to
  probe, port); for the others one that is accepted, or one that is not and only
  has to leave no trace. An interval of 1 is accepted by the field and refused by
  save. `MaxTouched` = 2 fields or names per session (a rename counts two),
  `MaxChanges` = 2 posts that change something, now or later: one client's change
  between the other's read and post, or between a post and its late effect. What a
  late post does when it is applied is not counted again.
* *service*: the system and one prefix, `MaxJobs` = 3, that is install, a second
  install or a failed uninstall, and an uninstall after it. That is enough for an
  uninstall that fails to stop the service and one that completes it. The service and one
  daemon run by hand are the two that share the socket.

Deadlock is not checked where the system may stop: in recovery after the loop was
cancelled and calm began, in router when nothing is left to do in a calm
environment, in ping when the bound of the counter is reached.

## 4. Fairness

* ManagerLive: a round starts (the timer of `Run`, `state.go` 84-91, always
  fires), a round ends (each probe has a timeout; PingProbe shows it for
  ping), and Run goes on to the next wait. Nothing is assumed of the results, of a reload or of the environment.
  The properties require that the loop was not cancelled.
* Router: the manager calls again as long as the route is not the wanted one
  (`state.go` 192), and a call that began goes on. No fairness on the
  environment; convergence is promised only from `calm` on.
* Daemon: `main` takes a signal from the channel and serves it to the end
  (`run.go` 118-134), and Shutdown ends after two seconds at most, hence fairness
  on `Exit` whatever requests are under way. Nothing is assumed of requests.
  `termOwed` is set only by a SIGTERM that found room in the channel.
* PingProbe: time passes, and a read returns at its deadline.
* Editing and Service have safety properties only: what happens depends on users.

## 5. The proofs

Eight modules of proofs are checked by tlapm to the last leaf. They hold for every
value of the constants that satisfies the assumptions of the modules:

* `AddressAssumption`: the canonical text of an address parses to it, the empty
  text is no address; `ConfigsAssumption`, `StoredAssumption`: a configuration that
  is run has passed Validate; `IntervalAssumption`, `NoRouteAssumption`;
* `StreakAssumption`: the bound of the ghost history is no less than any
  `stable_rounds`;
* `RouterAssumption`: a finite set of metrics with 0 in it, and values for "none"
  that are no hop and no gateway; `DaemonAssumption`, `TreeAssumption`: distinct names;
* `PingAssumption`: width, timeout and bounds are numbers;
* `EditorAssumption`, `AddAssumption`: what is typed in a field, good or bad, is of
  the field's type.

| Theorem | States |
|---|---|
| `ManagerProofs!TypeCorrect`, `TablesCorrect`, `PendingCorrect`, `AccelerationCorrect` | `Spec => []TypeOK`, `[]TablesAgree`, `[]PendingOpposes`, `[]AcceleratedOnlyWhilePending` |
| `ManagerProofs!ConvergenceCorrect`, `StatusCorrect` | `Spec => RoundConverges`, `StatusFollowsUpdates` |
| `ManagerProofs!PaceCorrect` | `Spec => PaceBounded`, for intervals on either side of `MinInterval` |
| `ManagerProofs!FailoverIfAddressed` | `Spec => FailoverNeverBlocked`, if every target of every configuration has an address |
| `ManagerFlipProofs!NeverEarly`, `NeverLate` | `HSpec => NoEarlyFlip`, `NoLateFlip` |
| `ManagerFlipProofs!EvidenceCorrect`, `SettledForGood`, `RecoveryBounded` | `LSpec => FlipsOnEvidence`, `StaysSettled`, `RoundsApproach` |
| `RouterProofs!SuccessCorrect`, `AloneCorrect`, `CalmCallCorrect` | `Spec => SuccessInForce`, `SuccessAlone`, `CalmCallSucceeds` |
| `RouterProofs!ImplementsUpdater` | `Spec => ImplementsInterface`, the refinement of RouteUpdater |
| `DaemonProofs!TypeCorrect`, `FileCorrect`, `RunsItsFileCorrect`, `SignalsCorrect` | `Spec => []TypeOK`, `[]FileLoads`, `[]RunsItsFile`, `[]SignalsKept` |
| `DaemonProofs!SerialRunsItsFile` | `Spec /\ []OneAtATime => []AlwaysRunsItsFile`: the property that overlapping_changes refutes, for behaviours without overlaps |
| `PingProbeProofs!TypeCorrect`, `LateReplies` | `Spec => []TypeOK`, `LateReplyNotCredited` |
| `PingProbeProofs!OwnReplies` | `Spec => OwnReplyRecognised`, if `MaxSeq < SeqMod` |
| `EditingProofs!TypeCorrect`, `DraftCorrect`, `SavedCorrect`, `PromptsCorrect` | `Spec => []TypeOK`, `[]DraftTargetsValid`, `[]SavedMeansRunning`, `[]PromptsSuffice` |
| `EditingProofs!RestCorrect`, `NothingLostCorrect` | `Spec => []DraftKeepsRest`, `NothingLostUnlessStale` |
| `ServiceProofs!TypeCorrect`, `SocketCorrect`, `StaysInstalledCorrect`, `UninstallCorrect` | `Spec => []TypeOK`, `[]ServesAtSocket`, `[]StaysInstalled`, `[]UninstallIsComplete` |
| `ServiceProofs!UserConfigCorrect` | `Spec => UserConfigKept` |

**Manager.** The properties are not inductive one by one: that `applyResults`
keeps its types needs every result to belong to a target that the round copied,
which needs that names are unique in the round's copy. The invariant is

    Inv == TypeOK /\ Tables /\ RoundOK /\ Opposing /\ AcceleratedOnlyWhilePending

where `Tables` gives `probers` and `states` by name from `cfg`, and `RoundOK` says
that the round in flight is the copy of some valid configuration, not necessarily
the present one. `InitInv`, `ApplyResultsInv`, `ReloadInv` and `NextInv` establish
it; the lemma `ObserveStep` carries the debounce, `ConvergeStep` the route. For
`ConvergenceCorrect` the main lemma is `DesiredIsBest`: what the loop over
`SortedTargets` finds first is a maximum of weight, the first in the file among
equals. It rests on `SortedIsPermutation`: ranks are a permutation of the
positions (an injection of a finite set into itself is onto). `FailoverIfAddressed`
is `ConvergenceCorrect` with its condition moved from the step to the
configurations: what the run failover_blocked refutes fails for no other reason.
`PaceCorrect` needs that the pace itself lies between `probe_interval` and the floor
(`Paced`): halving never takes it below both, and a reload sets it to the new
`probe_interval`.

**ManagerHistory.** `HistoryOnly` shows that HSpec implies Spec, so `Inv` holds
there too; `History` adds that count and history agree (`Agrees`): nothing is
pending if the last result was the state, otherwise the count is the length of the
run. The lemma `Together` is the step of one result, from which both theorems
follow. A reload may lower `stable_rounds` to or below a pending count; the next
opposing result then flips the target, with a history long enough for both.

**ManagerLive.** `LiveOnly` shows that LSpec implies Spec. For `EvidenceCorrect` the
lemma is `AsksItself`: a target that the round copied as it is defined now is asked
by a prober of its own, by `RoundOK`. The other two theorems are the safety half of
recovery. `ResultsAreHealth` gives an undisturbed round's results, `UndisturbedSteps`
that nothing but a round changes anything then, `BestStays` that the best gateway
depends on the states' `up` alone, `ObserveApproaches` how one result lowers
`RoundsLeft`. Together they say that recovery takes at most `stable_rounds` rounds
and cannot be lost again; that the rounds take place is fairness, which the run
recovery checks.

**Router.** Only `Add` ends a call without an error (`OnlyAddSucceeds`), and it
adds at metric 0, the least, so that nothing others add can be in front of it. For
`AloneCorrect` the invariant is that, while nobody interferes, the list of a call
is what is left of the table: each deletion takes one route out of both.
`CalmCallCorrect` uses the same invariant, and `LinkStays`, that the device a call
found is still there: then each deletion finds its route, even where metric 0 would
match another, and the addition finds metric 0 free. `ImplementsUpdater` maps
each request to a step of RouteUpdater or to none: a deletion is `Withdraw`, which
needs that there was a route (`InForceTyped`), the addition `Done` (`ZeroInForce`).

**Daemon.** `FileLoads` is inductive with the fact that what is about to be renamed
was parsed. `RunsItsFile` needs

    Inv == Typed /\ FileLoads /\ InStep /\ NothingWhenDown

where `InStep` says: while changes do not overlap at most one is under way, and
memory and file differ only when what that one is about to run is in the file.
`NothingWhenDown` is why the history of overlaps starts afresh with a process.
`SerialRunsItsFile` shows from `OneAtATime` that `overlapped` never becomes true
(`BeginsAlone`), so that the exception of `RunsItsFile` is not used. `SignalsKept` is
inductive with the types; it is the safety half of `HupHonoured` and `TermHonoured`.

**PingProbe.** `Ordered` says that no reply is under way to a request later than
the probe's; `WireBound`, that cutting a number to 16 bits does not enlarge it.
A late reply therefore never matches, whatever the width; the probe's own reply
matches as long as the counter fits, which is what run sequence_wrap shows to be
needed.

**Editing.** Types need `FormShut`: the form holds no place of the draft unless it
is open, or a deletion could leave it pointing past the end. `DraftCorrect` splits
into `RunsValid` (what runs or is posted is valid) and `TargetsValid` of the draft;
its lemmas are `RemoveTargetKeeps`, that a deletion leaves the others place by
place, and `FieldReplaced`, that a global field never touches the targets.
`PromptsCorrect` follows from `Confirmed`, that what is asked about passed the
prompts on a valid configuration, and `PromptsGiveValid`. `SavedMeansRunning` is
inductive, with the types. `AgreeOutside` compares two configurations by which
targets come in which order (`InOrder`); it is reflexive and composes
(`AgreesWithItself`, `AgreeComposes`), and one lemma per kind of edit says what that
edit leaves alone (`FieldAgrees`, `AppendAgrees`, `ReplaceAgrees`,
`DeletionAgrees`). `RestCorrect` is then one application per action.
`NothingLostCorrect` follows from it for the editor's posts and from `ExtendedAgrees`
for those of `add`; for the posts their clients gave up it needs `LatePostsAgree`, that
what waits in `late` differs from its own base only in what its user changed.

**Service.** `ServesAtSocket` is inductive as it stands. The others rest on

    Inv == InstallPhase /\ UninstallPhase /\ PartsAreCut /\ ServiceIsStarted
             /\ DoneIsThere /\ UninstallIsComplete

`InstallPhase` and `UninstallPhase` say what the present step of a command can rely
on, which is where its order matters: uninstall stops the service before it removes
the script, and an install of the system ends what an uninstall had achieved before
it registers and starts anything. `ServiceIsStarted` is why a service that is not
started does not run either.

Model-checked only are the liveness properties, which need fairness and `ENABLED`,
out of the prover's reach: `Recovers`, `ReturnsToBaseInterval`, `Converges`,
`HupHonoured`, `TermHonoured`, `ProbeReturns`. Of the first, third, fourth and fifth
the safety half is proved, that nothing undoes or blocks the progress they promise:
`SettledForGood` and `RecoveryBounded`, `CalmCallCorrect`, `SignalsCorrect`.
Every safety property of a passing run is a theorem.

## 6. Disagreements between code and documentation

The first four are runs that end in a counterexample; `PROJECT.json` quotes the
texts of all.

1. `FailoverNeverBlocked` (`state.go` 227): an http target may have no `ip`. When
   it is the heaviest one alive, the desired gateway is empty, the update is
   skipped, and the route stays where it was, even at a dead gateway.
   `RoundConverges` therefore has the condition `Addressed`, and
   `FailoverIfAddressed` proves that nothing else stands in the way.
2. `AlwaysRunsItsFile` (`run.go` 45-57): overlapping changes can leave file and
   memory different for good. `RunsItsFile` therefore excludes overlaps, and
   `SerialRunsItsFile` proves that they are the only cause.
3. `OwnReplyRecognised` (`ping.go` 79): a 32-bit counter is compared with 16 bits
   of the wire; after 65535 requests a healthy target is down until a reload.
4. `PrefixLeavesSystem` (`install.go` 131): uninstall with a prefix stops the service
   of the system. The run ends with that step, for a service that is installed,
   registered and running; the next ones deregister it (133) and remove its socket
   (136).
5. `run.go` 80: the router is made once. After a reload with another `egress_device`
   the daemon runs, reports and saves the new device, and routes over the old one
   until it is restarted.
6. `state.go` 181: the floor of 100ms is applied to a `probe_interval` below it too,
   so that a failing target slows the rounds down, to the floor and no further:
   `PaceCorrect` proves that bound of every wait when it is armed. A wait that is
   under way at a reload runs to its end at the old pace, which nothing promises
   otherwise (the comment at `state.go` 81 says that the interval is read after
   each round).
7. `run.go` 109: when the control server fails, the probing loop is cancelled and the
   probes of its last round fail for that. With `stable_rounds` 1, or a count already
   pending, targets that answer go down and the route moves to `final_ip`, for good.
   `Recovers` and `FlipsOnEvidence` therefore have `~cancelled`.
8. `state.go` 192, 236: Status reports the gateway of the last replacement, not
   the one in force; after a restart with the right route in place it is empty.
   `StatusFollowsUpdates` states what it does promise.
9. `state.go` 231: `final_active` is true, and status prints that every upstream
   is down (`ctl.go` 65), when a live target has the address of `final_ip`.
10. `run.go` 117: a SIGTERM that comes while a SIGHUP is in the channel is dropped.
    `TermHonoured` is about those that found room.
11. `install.go` 131: an uninstall whose stop failed, or that was killed after it
    removed the script, cannot be completed by another one, which skips both stop
    and deregistration, and reports success. `UninstallIsComplete` leaves this case
    out by name (`served`). The log is never removed, nor is the temporary file
    `.nexthop-install-*.tmp` of a copy that was killed (163-167).
12. `ctl.go` 340, 365: `add` keeps the spelling `TCP`, which skips the prompt for
    the port and which the daemon refuses; what it validates before the
    confirmation is the configuration without the new target. `PromptsSuffice`
    excludes such spellings.
13. `addwizard.go` 15: the comment calls it the wizard of the main menu; nothing
    calls it.

Smaller ones are among the hazards: a flip of any target replaces a route that is
right, and a reload does not tell old echo replies from new ones.

## 7. What is not modelled

* The inside of the TCP, UDP and HTTP probers: one library call each. The manager
  takes arbitrary results, so its safety properties do not depend on them.
* LastOK, LastRTT, LastErr, LastSeen: reported, never read by the program.
* The error of `probe.New` in `Reload`: a validated configuration never causes it.
* Two default routes with one metric (appended by others): the kernel allows
  them, nexthop never makes them.
* The commands `status` and `list`, the live view (which reads status and
  configuration in two requests and may show a mix of both for one refresh),
  drawing, key decoding and display width: they print and decide nothing.
* The add wizard: dead code.
* The pid file, conf.d file, log and wrapper of the service, and the temporary file
  that a killed copy of the program leaves beside it: nothing in the code depends on
  them, and the last is not even removed (section 6, item 11).
* Why a start fails after the file has loaded (an `egress_device` that does not
  exist): the process ends before it has changed anything.
* Two installs at once, and files of the installation that others remove.
* YAML, HTTP framing, logging, the mock upstream.

## 8. Plan

Done, in this order: NexthopConfig, Manager and ManagerHistory with their proofs,
ManagerLive, Router with RouteUpdater, Daemon, PingProbe with its proofs; then
ConfigEditor, CtlAdd and their composition Editing, Service, and the proofs about
Router, Daemon, Editing and Service; then routes over a device alone in Router, the
refinement of RouteUpdater as a theorem, the proofs about ManagerLive and about what
edits and posts leave alone, and the conditional theorems. What remains worth doing:

1. *System*: Manager over Router instead of RouteUpdater, for the moment without a
   route at a needless replacement.
2. ManagerHistory with the definition of the target each result is about, for the
   results of a round that began before a reload.
3. The HTTP prober with its connection pool.
