----------------------------- MODULE DaemonProofs -----------------------------
(***************************************************************************)
(* Proofs about Daemon, for any number of requests and any configurations: *)
(* the file stays loadable through every failure and crash, the daemon     *)
(* runs what the file says once a change that had it to itself is over,    *)
(* and no signal that found room in the channel is lost.                   *)
(***************************************************************************)
EXTENDS Daemon, TLAPS

-----------------------------------------------------------------------------
(* Types.                                                                   *)

\* What is about to be written or run has been parsed.
NewParsed == \A a \in Actor : at[a] \in {"temp", "rename", "reload"} => new[a] \in Config

Typed == TypeOK /\ NewParsed

\* The end of the process leaves every variable well typed.
LEMMA GoneTyped == Typed /\ Gone => Typed'
BY DEF Typed, TypeOK, NewParsed, Gone

\* The channel of capacity 1 holds one signal at most.
LEMMA OneSignal ==
    ASSUME TypeOK, NEW sig \in {"HUP", "TERM"}, SendSignal(sig)
    PROVE  sigCh' \in {<<>>, <<"HUP">>, <<"TERM">>}
<1>1. CASE sigCh = <<>>
  <2>1. sigCh' = Append(<<>>, sig)
    BY <1>1 DEF SendSignal, Room
  <2>2. sigCh' = <<sig>>
    BY <2>1
  <2> QED
    BY <2>2
<1>2. CASE sigCh # <<>>
  BY <1>2 DEF SendSignal, Room, TypeOK
<1> QED
  BY <1>1, <1>2

LEMMA TypedInductive == Typed /\ [Next]_vars => Typed'
<1> SUFFICES ASSUME Typed, [Next]_vars
             PROVE  Typed'
  OBVIOUS
<1> USE DEF Typed, TypeOK, NewParsed
<1>1. CASE Start \/ Ready \/ ServeFails
  BY <1>1 DEF Start, Ready, ServeFails, Content, history
<1>2. CASE Crash \/ KilledWhileStarting \/ Exit
  BY <1>2, GoneTyped DEF Crash, KilledWhileStarting, Exit
<1>3. ASSUME NEW sig \in {"HUP", "TERM"}, SendSignal(sig)
      PROVE  Typed'
  <2>1. hupOwed' \in BOOLEAN /\ termOwed' \in BOOLEAN
    BY <1>3 DEF SendSignal
  <2> QED
    BY <1>3, <2>1, OneSignal DEF SendSignal
<1>4. CASE TakeHup \/ TakeTerm
  BY <1>4 DEF TakeHup, TakeTerm, Goto, history
<1>5. ASSUME NEW r \in Request, NEW c \in Config, PostConfig(r, c)
      PROVE  Typed'
  BY <1>5 DEF PostConfig, Goto, process
<1>6. ASSUME NEW r \in Request, PostReload(r)
      PROVE  Typed'
  BY <1>6 DEF PostReload, Goto, process
<1>7. ASSUME NEW a \in Actor,
             Load(a) \/ WriteTemp(a) \/ Rename(a) \/ SaveFails(a) \/ Reload(a)
      PROVE  Typed'
  <2>1. CASE Load(a)
    BY <2>1 DEF Load, Goto, process
  <2>2. CASE WriteTemp(a) \/ SaveFails(a)
    BY <2>2 DEF WriteTemp, SaveFails, Goto, process, history
  <2>3. CASE Reload(a)
    BY <2>3 DEF Reload, Goto, process, history
  <2>4. CASE Rename(a)
    <3>1. file' \in Content
      BY <2>4 DEF Rename, Content
    <3> QED
      BY <2>4, <3>1 DEF Rename, Goto, process
  <2> QED
    BY <1>7, <2>1, <2>2, <2>3, <2>4
<1>8. ASSUME NEW c \in Content, Edit(c)
      PROVE  Typed'
  BY <1>8 DEF Edit, process
<1>9. CASE UNCHANGED vars
  BY <1>9 DEF vars, process, history
<1> QED
  BY <1>1, <1>2, <1>3, <1>4, <1>5, <1>6, <1>7, <1>8, <1>9 DEF Next

LEMMA TypedInvariant == Spec => []Typed
<1>1. Init => Typed
  BY DEF Init, Typed, TypeOK, NewParsed
<1> QED
  BY <1>1, TypedInductive, PTL DEF Spec

\* Every reachable state is well typed: in particular the daemon never runs, and
\* never writes, what did not pass Parse.
THEOREM TypeCorrect == Spec => []TypeOK
BY TypedInvariant, PTL DEF Typed

-----------------------------------------------------------------------------
(* The file.                                                                *)

\* Only an edit makes the file one that does not load, for any number of
\* requests and a crash or a failure at any step (config.Save).
THEOREM FileCorrect == Spec => []FileLoads
<1>1. Init => FileLoads
  BY DEF Init, FileLoads
<1>2. Typed /\ FileLoads /\ [Next]_vars => FileLoads'
  <2> SUFFICES ASSUME Typed, FileLoads, [Next]_vars
               PROVE  FileLoads'
    OBVIOUS
  <2> USE DEF FileLoads
  <2>1. ASSUME NEW a \in Actor, Rename(a)
        PROVE  FileLoads'
    BY <2>1 DEF Rename, Typed, NewParsed
  <2>2. ASSUME NEW a \in Actor,
               Load(a) \/ WriteTemp(a) \/ SaveFails(a) \/ Reload(a)
        PROVE  FileLoads'
    BY <2>2 DEF Load, WriteTemp, SaveFails, Reload, history
  <2>3. ASSUME NEW c \in Content, Edit(c)
        PROVE  FileLoads'
    BY <2>3 DEF Edit
  <2>4. CASE Start \/ Ready \/ ServeFails \/ TakeHup \/ TakeTerm
    BY <2>4 DEF Start, Ready, ServeFails, TakeHup, TakeTerm, history
  <2>5. CASE Crash \/ KilledWhileStarting \/ Exit
    BY <2>5 DEF Crash, KilledWhileStarting, Exit, Gone
  <2>6. CASE \E sig \in {"HUP", "TERM"} : SendSignal(sig)
    BY <2>6 DEF SendSignal
  <2>7. CASE \/ \E r \in Request, c \in Config : PostConfig(r, c)
             \/ \E r \in Request : PostReload(r)
    BY <2>7 DEF PostConfig, PostReload
  <2>8. CASE UNCHANGED vars
    BY <2>8 DEF vars, history
  <2> QED
    BY <2>1, <2>2, <2>3, <2>4, <2>5, <2>6, <2>7, <2>8 DEF Next
<1> QED
  BY <1>1, <1>2, TypedInvariant, PTL DEF Spec

-----------------------------------------------------------------------------
(* Memory and file.                                                         *)

\* While changes do not overlap at most one is under way, and memory and file
\* differ only between its two steps: what it is about to run is in the file.
InStep ==
    main # "down" /\ ~overlapped =>
        /\ \A a, b \in Busy : a = b
        /\ ~edited =>
               \/ running = file /\ \A a \in Busy : at[a] # "reload" \/ new[a] = file
               \/ \E a \in Busy : at[a] = "reload" /\ new[a] = file

NothingWhenDown == main = "down" => Busy = {} /\ ~serving

Inv == Typed /\ FileLoads /\ InStep /\ NothingWhenDown

\* What is under way after one actor has changed its step.
LEMMA BusyAfter ==
    ASSUME TypeOK, NEW a \in Actor,
           NEW step \in {"idle", "load", "temp", "rename", "reload"}, Goto(a, step)
    PROVE  /\ at'[a] = step
           /\ \A b \in Actor : b # a => at'[b] = at[b]
           /\ Busy' = IF step = "idle" THEN Busy \ {a} ELSE Busy \cup {a}
<1>1. at' = [at EXCEPT ![a] = step] /\ at \in [Actor -> {"idle", "load", "temp", "rename", "reload"}]
  BY DEF Goto, TypeOK
<1>2. at'[a] = step /\ \A b \in Actor : b # a => at'[b] = at[b]
  BY <1>1
<1> QED
  BY <1>2 DEF Busy

LEMMA InStepInductive == Inv /\ [Next]_vars => (InStep /\ NothingWhenDown)'
<1> SUFFICES ASSUME Inv, [Next]_vars
             PROVE  InStep' /\ NothingWhenDown'
  OBVIOUS
<1> USE DEF Inv
<1>1. CASE Start
  BY <1>1 DEF Start, InStep, NothingWhenDown, Busy
<1>2. CASE Ready \/ ServeFails \/ TakeTerm
  BY <1>2 DEF Ready, ServeFails, TakeTerm, InStep, NothingWhenDown, Busy, history
<1>3. CASE Crash \/ KilledWhileStarting \/ Exit
  BY <1>3 DEF Crash, KilledWhileStarting, Exit, Gone, InStep, NothingWhenDown, Busy
<1>4. CASE \E sig \in {"HUP", "TERM"} : SendSignal(sig)
  BY <1>4 DEF SendSignal, InStep, NothingWhenDown, Busy
<1>5. ASSUME NEW a \in Actor, NEW step \in {"load", "temp"}, main # "down",
             at[a] = "idle", Goto(a, step),
             \A b \in Actor : b # a => new'[b] = new[b],
             overlapped' = (overlapped \/ Busy # {}),
             UNCHANGED <<file, running, main, serving, edited>>
      PROVE  InStep' /\ NothingWhenDown'
  <2>1. /\ at'[a] = step
        /\ \A b \in Actor : b # a => at'[b] = at[b]
        /\ Busy' = Busy \cup {a}
    BY <1>5, BusyAfter DEF Typed
  <2> QED
    BY <1>5, <2>1 DEF InStep, NothingWhenDown
<1>6. CASE TakeHup
  BY <1>6, <1>5 DEF TakeHup, Actor
<1>7. ASSUME NEW r \in Request, NEW c \in Config, PostConfig(r, c)
      PROVE  InStep' /\ NothingWhenDown'
  BY <1>7, <1>5 DEF PostConfig, Accepts, NothingWhenDown, process, Actor, Typed, TypeOK
<1>8. ASSUME NEW r \in Request, PostReload(r)
      PROVE  InStep' /\ NothingWhenDown'
  BY <1>8, <1>5 DEF PostReload, Accepts, NothingWhenDown, process, Actor
<1>9. ASSUME NEW a \in Actor,
             Load(a) \/ WriteTemp(a) \/ Rename(a) \/ SaveFails(a) \/ Reload(a)
      PROVE  InStep' /\ NothingWhenDown'
  <2>1. a \in Busy /\ main # "down" /\ UNCHANGED main
    BY <1>9 DEF Load, WriteTemp, Rename, SaveFails, Reload, Busy, NothingWhenDown,
                process
  <2>2. CASE Load(a)
    <3>1. CASE file \in Config
      <4>1. /\ Goto(a, "reload") /\ new' = [new EXCEPT ![a] = file]
            /\ overlapped' = (overlapped /\ Busy # {a})
            /\ UNCHANGED <<file, running>>
        BY <2>2, <3>1 DEF Load
      <4>2. at'[a] = "reload" /\ Busy' = Busy \cup {a} /\ new'[a] = file
        BY <4>1, BusyAfter DEF Typed, TypeOK
      <4> QED
        BY <2>1, <4>1, <4>2 DEF InStep, NothingWhenDown
    <3>2. CASE file \notin Config
      <4>1. Goto(a, "idle") /\ edited /\ UNCHANGED <<edited, overlapped>>
        BY <2>2, <3>2 DEF Load, FileLoads
      <4>2. Busy' = Busy \ {a}
        BY <4>1, BusyAfter DEF Typed
      <4> QED
        BY <2>1, <4>1, <4>2 DEF InStep, NothingWhenDown
    <3> QED
      BY <3>1, <3>2
  <2>3. CASE WriteTemp(a)
    <3>1. at'[a] = "rename" /\ Busy' = Busy \cup {a}
          /\ \A b \in Actor : b # a => at'[b] = at[b]
      BY <2>3, BusyAfter DEF WriteTemp, Typed
    <3> QED
      BY <2>1, <2>3, <3>1 DEF WriteTemp, InStep, NothingWhenDown, history
  <2>4. CASE Rename(a)
    <3>1. at'[a] = "reload" /\ Busy' = Busy \cup {a}
      BY <2>4, BusyAfter DEF Rename, Typed
    <3> QED
      BY <2>1, <2>4, <3>1 DEF Rename, InStep, NothingWhenDown
  <2>5. CASE SaveFails(a)
    <3>1. at'[a] = "idle" /\ Busy' = Busy \ {a}
          /\ \A b \in Actor : b # a => at'[b] = at[b]
      BY <2>5, BusyAfter DEF SaveFails, Typed
    <3> QED
      BY <2>1, <2>5, <3>1 DEF SaveFails, InStep, NothingWhenDown, history
  <2>6. CASE Reload(a)
    <3>1. at'[a] = "idle" /\ Busy' = Busy \ {a}
          /\ \A b \in Actor : b # a => at'[b] = at[b]
      BY <2>6, BusyAfter DEF Reload, Typed
    <3> QED
      BY <2>1, <2>6, <3>1 DEF Reload, InStep, NothingWhenDown, history
  <2> QED
    BY <1>9, <2>2, <2>3, <2>4, <2>5, <2>6
<1>10. CASE \E c \in Content : Edit(c)
  BY <1>10 DEF Edit, InStep, NothingWhenDown, Busy, process
<1>11. CASE UNCHANGED vars
  BY <1>11 DEF vars, InStep, NothingWhenDown, Busy, process, history
<1> QED
  BY <1>1, <1>2, <1>3, <1>4, <1>6, <1>7, <1>8, <1>9, <1>10, <1>11 DEF Next

\* When no change is under way the daemon runs what its file says, unless the
\* file was edited or changes overlapped; failing saves and crashes included
\* (ApplyConfig, ReloadFromFile).
THEOREM RunsItsFileCorrect == Spec => []RunsItsFile
<1>1. Init => InStep /\ NothingWhenDown
  BY DEF Init, InStep, NothingWhenDown, Busy
<1>2. Inv => RunsItsFile
  BY DEF Inv, InStep, RunsItsFile, Quiet
<1> QED
  BY <1>1, <1>2, TypedInvariant, FileCorrect, InStepInductive, PTL DEF Spec, Inv

\* Changes come one at a time: nothing in the code sees to it.
OneAtATime == \A a, b \in Busy : a = b

\* A change that begins while another is under way makes two.
LEMMA BeginsAlone ==
    ASSUME TypeOK, OneAtATime', ~overlapped, NEW a \in Actor, at[a] = "idle",
           NEW step \in {"load", "temp"}, Goto(a, step),
           overlapped' = (overlapped \/ Busy # {})
    PROVE  ~overlapped'
<1>1. Busy' = Busy \cup {a} /\ a \notin Busy
  BY BusyAfter DEF Busy
<1> QED
  BY <1>1 DEF OneAtATime

\* Were changes served one at a time, the daemon would always run what its file
\* says: overlapping changes are all that stands in the way
\* (Server.handleConfig, Server.handleReload, the SIGHUP branch of cmdRun).
THEOREM SerialRunsItsFile == Spec /\ []OneAtATime => []AlwaysRunsItsFile
<1>1. Init => ~overlapped
  BY DEF Init
<1>2. TypeOK /\ OneAtATime' /\ ~overlapped /\ [Next]_vars => ~overlapped'
  <2> SUFFICES ASSUME TypeOK, OneAtATime', ~overlapped, [Next]_vars
               PROVE  ~overlapped'
    OBVIOUS
  <2>1. CASE TakeHup
    BY <2>1, BeginsAlone DEF TakeHup, Actor
  <2>2. ASSUME NEW r \in Request, NEW c \in Config, PostConfig(r, c)
        PROVE  ~overlapped'
    BY <2>2, BeginsAlone DEF PostConfig, Accepts, Actor
  <2>3. ASSUME NEW r \in Request, PostReload(r)
        PROVE  ~overlapped'
    BY <2>3, BeginsAlone DEF PostReload, Accepts, Actor
  <2>4. ASSUME NEW a \in Actor,
               Load(a) \/ WriteTemp(a) \/ Rename(a) \/ SaveFails(a) \/ Reload(a)
        PROVE  ~overlapped'
    BY <2>4 DEF Load, WriteTemp, Rename, SaveFails, Reload, history
  <2>5. CASE Start \/ Ready \/ ServeFails \/ TakeTerm
    BY <2>5 DEF Start, Ready, ServeFails, TakeTerm, history
  <2>6. CASE Crash \/ KilledWhileStarting \/ Exit
    BY <2>6 DEF Crash, KilledWhileStarting, Exit, Gone
  <2>7. CASE \/ \E sig \in {"HUP", "TERM"} : SendSignal(sig)
             \/ \E c \in Content : Edit(c)
    BY <2>7 DEF SendSignal, Edit
  <2>8. CASE UNCHANGED vars
    BY <2>8 DEF vars, history
  <2> QED
    BY <2>1, <2>2, <2>3, <2>4, <2>5, <2>6, <2>7, <2>8 DEF Next
<1>3. RunsItsFile /\ ~overlapped => AlwaysRunsItsFile
  BY DEF RunsItsFile, AlwaysRunsItsFile
<1> QED
  BY <1>1, <1>2, <1>3, TypeCorrect, RunsItsFileCorrect, PTL DEF Spec

-----------------------------------------------------------------------------
(* Signals.                                                                 *)

\* No signal that found room in the channel is lost before main has served it,
\* in any order of signals, requests, failures and crashes (the signal loop of
\* cmdRun).
THEOREM SignalsCorrect == Spec => []SignalsKept
<1>1. Init => SignalsKept
  BY DEF Init, SignalsKept
<1>2. TypeOK /\ SignalsKept /\ [Next]_vars => SignalsKept'
  <2> SUFFICES ASSUME TypeOK, SignalsKept, [Next]_vars
               PROVE  SignalsKept'
    OBVIOUS
  <2> USE DEF SignalsKept
  <2>1. ASSUME NEW sig \in {"HUP", "TERM"}, SendSignal(sig)
        PROVE  SignalsKept'
    <3>1. CASE sigCh = <<>>
      <4>1. sigCh' = <<sig>>
        BY <2>1, <3>1 DEF SendSignal, Room
      <4>2. sigCh' # <<>> /\ (sigCh' = <<"TERM">> <=> sig = "TERM")
        BY <2>1, <4>1
      <4> QED
        BY <2>1, <3>1, <4>2 DEF SendSignal
    <3>2. CASE sigCh # <<>>
      BY <2>1, <3>2 DEF SendSignal, Room
    <3> QED
      BY <3>1, <3>2
  <2>2. CASE TakeHup
    <3>1. at'[Main] = "load" /\ ~termOwed'
      BY <2>2 DEF TakeHup, Goto, TypeOK, Actor
    <3> QED
      BY <3>1
  <2>3. CASE TakeTerm
    BY <2>3 DEF TakeTerm
  <2>4. ASSUME NEW r \in Request,
               PostReload(r) \/ \E c \in Config : PostConfig(r, c)
        PROVE  SignalsKept'
    <3>1. at'[Main] = at[Main]
      BY <2>4, DaemonAssumption DEF PostReload, PostConfig, Goto, TypeOK, Actor
    <3> QED
      BY <2>4, <3>1 DEF PostReload, PostConfig, process
  <2>5. ASSUME NEW a \in Actor, Load(a)
        PROVE  SignalsKept'
    <3>1. a # Main => at'[Main] = at[Main]
      BY <2>5 DEF Load, Goto, TypeOK, Actor
    <3> QED
      BY <2>5, <3>1 DEF Load, process
  <2>6. ASSUME NEW a \in Actor,
               WriteTemp(a) \/ Rename(a) \/ SaveFails(a) \/ Reload(a)
        PROVE  SignalsKept'
    <3>1. at[Main] = "load" => at'[Main] = "load"
      BY <2>6 DEF WriteTemp, Rename, SaveFails, Reload, Goto, TypeOK, Actor
    <3> QED
      BY <2>6, <3>1 DEF WriteTemp, Rename, SaveFails, Reload, process, history
  <2>7. CASE Crash \/ KilledWhileStarting \/ Exit
    BY <2>7 DEF Crash, KilledWhileStarting, Exit, Gone
  <2>8. CASE Start \/ Ready \/ ServeFails \/ \E c \in Content : Edit(c)
    BY <2>8 DEF Start, Ready, ServeFails, Edit, process, history
  <2>9. CASE UNCHANGED vars
    BY <2>9 DEF vars, history
  <2> QED
    BY <2>1, <2>2, <2>3, <2>4, <2>5, <2>6, <2>7, <2>8, <2>9 DEF Next
<1> QED
  BY <1>1, <1>2, TypeCorrect, PTL DEF Spec
=============================================================================
