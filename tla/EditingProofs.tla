----------------------------- MODULE EditingProofs -----------------------------
(***************************************************************************)
(* Proofs about the two clients of Editing, for any values a user may type *)
(* and any number of posts: the draft stays valid and differs only in what *)
(* the user touched, a save is never believed wrongly, what the prompts of *)
(* add let through the daemon accepts, and only a post made from a copy    *)
(* that is old when it is applied undoes another's change.                 *)
(***************************************************************************)
EXTENDS Editing, SequenceTheorems, TLAPS

-----------------------------------------------------------------------------
(* The draft.                                                               *)

\* The targets of c are valid, each with a name of its own.
TargetsValid(c) ==
    /\ \A i \in DOMAIN c.targets : ValidTarget(c.targets[i])
    /\ \A i, j \in DOMAIN c.targets :
           c.targets[i].name = c.targets[j].name => i = j

\* What a deletion leaves is, place by place, what was there, in the same order.
LEMMA RemoveTargetKeeps ==
    ASSUME NEW ts \in Seq(Target), NEW k \in DOMAIN ts
    PROVE  /\ RemoveTarget(ts, k) \in Seq(Target)
           /\ Len(RemoveTarget(ts, k)) = Len(ts) - 1
           /\ \A i \in 1 .. Len(ts) - 1 :
                  RemoveTarget(ts, k)[i] = ts[IF i < k THEN i ELSE i + 1]
<1> DEFINE a == SubSeq(ts, 1, k - 1)
           b == SubSeq(ts, k + 1, Len(ts))
<1>1. /\ Len(ts) \in Nat
      /\ k \in 1 .. Len(ts)
      /\ \A i \in 1 .. Len(ts) : ts[i] \in Target
  OBVIOUS
<1>2. /\ a \in Seq(Target)
      /\ Len(a) = k - 1
      /\ \A i \in 1 .. k - 1 : a[i] = ts[i]
  <2>1. 1 \in Int /\ k - 1 \in Int /\ \A i \in 1 .. k - 1 : ts[i] \in Target
    BY <1>1
  <2>2. /\ a \in Seq(Target)
        /\ Len(a) = IF 1 <= k - 1 THEN k - 1 - 1 + 1 ELSE 0
        /\ \A i \in 1 .. k - 1 - 1 + 1 : a[i] = ts[1 + i - 1]
    BY <2>1, SubSeqProperties
  <2> QED
    BY <1>1, <2>2
<1>3. /\ b \in Seq(Target)
      /\ Len(b) = Len(ts) - k
      /\ \A i \in 1 .. Len(ts) - k : b[i] = ts[k + i]
  <2>1. k + 1 \in Int /\ Len(ts) \in Int /\ \A i \in k + 1 .. Len(ts) : ts[i] \in Target
    BY <1>1
  <2>2. /\ b \in Seq(Target)
        /\ Len(b) = IF k + 1 <= Len(ts) THEN Len(ts) - (k + 1) + 1 ELSE 0
        /\ \A i \in 1 .. Len(ts) - (k + 1) + 1 : b[i] = ts[k + 1 + i - 1]
    BY <2>1, SubSeqProperties
  <2> QED
    BY <1>1, <2>2
<1>4. /\ a \o b \in Seq(Target)
      /\ Len(a \o b) = Len(a) + Len(b)
      /\ \A i \in 1 .. Len(a) + Len(b) :
             (a \o b)[i] = IF i <= Len(a) THEN a[i] ELSE b[i - Len(a)]
  BY <1>2, <1>3, ConcatProperties
<1> HIDE DEF a, b
<1>5. \A i \in 1 .. Len(ts) - 1 : (a \o b)[i] = ts[IF i < k THEN i ELSE i + 1]
  <2> TAKE i \in 1 .. Len(ts) - 1
  <2> DEFINE n == Len(a) + Len(b)
  <2>3. Len(a) = k - 1 /\ n = Len(ts) - 1 /\ i \in 1 .. n
    BY <1>1, <1>2, <1>3
  <2>4. (a \o b)[i] = IF i <= Len(a) THEN a[i] ELSE b[i - Len(a)]
    BY <1>4, <2>3
  <2> HIDE DEF n
  <2>1. CASE i < k
    <3>1. i \in 1 .. k - 1 /\ i <= Len(a)
      BY <1>1, <2>1, <2>3
    <3>2. (a \o b)[i] = a[i] /\ a[i] = ts[i]
      BY <1>2, <2>4, <3>1
    <3> QED
      BY <2>1, <3>2
  <2>2. CASE ~(i < k)
    <3>1. (a \o b)[i] = b[i - (k - 1)]
      <4>1. ~(i <= Len(a))
        BY <1>1, <2>2, <2>3
      <4>2. (a \o b)[i] = b[i - Len(a)]
        BY <2>4, <4>1, Zenon
      <4> QED
        BY <2>3, <4>2, Zenon
    <3>2. i - (k - 1) \in 1 .. Len(ts) - k /\ k + (i - (k - 1)) = i + 1
      BY <1>1, <2>2
    <3>3. b[i - (k - 1)] = ts[k + (i - (k - 1))]
      BY <1>3, <3>2
    <3>4. (a \o b)[i] = ts[i + 1]
      BY <3>1, <3>2, <3>3
    <3> QED
      BY <2>2, <3>4
  <2> QED
    BY <2>1, <2>2
<1>6. RemoveTarget(ts, k) = a \o b
  BY DEF RemoveTarget, a, b
<1>7. Len(a \o b) = Len(ts) - 1
  BY <1>1, <1>2, <1>3, <1>4
<1> QED
  BY <1>4, <1>5, <1>6, <1>7

\* A global field replaced by a value of its type: still a configuration, with
\* the same targets.
LEMMA FieldReplaced ==
    ASSUME NEW c \in Config, NEW k \in 1 .. NGlobal,
           NEW v \in Typed[GlobalField[k]] \cup {c[GlobalField[k]]}
    PROVE  /\ [c EXCEPT ![GlobalField[k]] = v] \in Config
           /\ [c EXCEPT ![GlobalField[k]] = v].targets = c.targets
<1> DEFINE d == [c EXCEPT ![GlobalField[k]] = v]
<1>1. k \in {1, 2, 3, 4, 5}
  BY DEF NGlobal, GlobalField
<1>2. c = [interval |-> c.interval, timeout |-> c.timeout, egress |-> c.egress,
           rounds |-> c.rounds, finalIP |-> c.finalIP, targets |-> c.targets]
      /\ c.interval \in Int /\ c.timeout \in Int /\ c.rounds \in Int
      /\ c.egress \in Device \cup {Empty} /\ c.finalIP \in Text
      /\ c.targets \in Seq(Target)
  BY DEF Config
<1>3. CASE k = 1
  <2>1. GlobalField[k] = "interval"
    BY <1>3 DEF GlobalField
  <2>2. d = [c EXCEPT !.interval = v] /\ v \in Typed.interval \cup {c.interval}
    BY <2>1
  <2>3. v \in Int
    BY <1>2, <2>2, EditorAssumption
  <2> QED
    BY <1>2, <2>2, <2>3 DEF Config
<1>4. CASE k = 2
  <2>1. GlobalField[k] = "timeout"
    BY <1>4 DEF GlobalField
  <2>2. d = [c EXCEPT !.timeout = v] /\ v \in Typed.timeout \cup {c.timeout}
    BY <2>1
  <2>3. v \in Int
    BY <1>2, <2>2, EditorAssumption
  <2> QED
    BY <1>2, <2>2, <2>3 DEF Config
<1>5. CASE k = 3
  <2>1. GlobalField[k] = "egress"
    BY <1>5 DEF GlobalField
  <2>2. d = [c EXCEPT !.egress = v] /\ v \in Typed.egress \cup {c.egress}
    BY <2>1
  <2>3. v \in Device \cup {Empty}
    BY <1>2, <2>2, EditorAssumption
  <2> QED
    BY <1>2, <2>2, <2>3 DEF Config
<1>6. CASE k = 4
  <2>1. GlobalField[k] = "rounds"
    BY <1>6 DEF GlobalField
  <2>2. d = [c EXCEPT !.rounds = v] /\ v \in Typed.rounds \cup {c.rounds}
    BY <2>1
  <2>3. v \in Int
    BY <1>2, <2>2, EditorAssumption
  <2> QED
    BY <1>2, <2>2, <2>3 DEF Config
<1>7. CASE k = 5
  <2>1. GlobalField[k] = "finalIP"
    BY <1>7 DEF GlobalField
  <2>2. d = [c EXCEPT !.finalIP = v] /\ v \in Typed.finalIP \cup {c.finalIP}
    BY <2>1
  <2>3. v \in Text
    BY <1>2, <2>2, EditorAssumption
  <2> QED
    BY <1>2, <2>2, <2>3 DEF Config
<1> QED
  BY <1>1, <1>3, <1>4, <1>5, <1>6, <1>7

\* A field of the form replaced by a value that was typed: still a target.
LEMMA FormReplaced ==
    ASSUME NEW t \in Target, NEW f \in FormFields(t),
           NEW v \in Typed[f] \cup {t[f]}
    PROVE  WithField(t, f, v) \in Target
<1>1. f \in {"name", "ip", "weight", "probe", "port", "url"}
  BY DEF FormFields
<1>2. t = [name |-> t.name, ip |-> t.ip, weight |-> t.weight, probe |-> t.probe,
           port |-> t.port, url |-> t.url]
      /\ t.name \in Name \cup {Empty} /\ t.ip \in Text /\ t.weight \in Int
      /\ t.probe \in ProbeMethod \cup {"other"} /\ t.port \in Int /\ t.url \in BOOLEAN
  BY DEF Target
<1>3. CASE f = "name"
  <2>1. WithField(t, f, v) = [t EXCEPT !.name = v] /\ v \in Name \cup {Empty}
    BY <1>2, <1>3, EditorAssumption DEF WithField
  <2> QED
    BY <1>2, <2>1 DEF Target
<1>4. CASE f = "ip"
  <2>1. WithField(t, f, v) = [t EXCEPT !.ip = v] /\ v \in Text
    BY <1>2, <1>4, EditorAssumption DEF WithField
  <2> QED
    BY <1>2, <2>1 DEF Target
<1>5. CASE f = "weight"
  <2>1. WithField(t, f, v) = [t EXCEPT !.weight = v] /\ v \in Int
    BY <1>2, <1>5, EditorAssumption DEF WithField
  <2> QED
    BY <1>2, <2>1 DEF Target
<1>6. CASE f = "probe"
  <2> DEFINE p == IF v \in {"tcp", "udp"} THEN t.port ELSE 0
             u == v = "http" /\ t.url
  <2>1. v \in ProbeMethod \cup {"other"}
    BY <1>2, <1>6, EditorAssumption
  <2>2. WithField(t, f, v) = [t EXCEPT !.probe = v, !.port = p, !.url = u]
    BY <1>6 DEF WithField
  <2>3. p \in Int /\ u \in BOOLEAN
    BY <1>2
  <2> HIDE DEF p, u
  <2> QED
    BY <1>2, <2>1, <2>2, <2>3 DEF Target
<1>7. CASE f = "port"
  <2>1. WithField(t, f, v) = [t EXCEPT !.port = v] /\ v \in Int
    BY <1>2, <1>7, EditorAssumption DEF WithField
  <2> QED
    BY <1>2, <2>1 DEF Target
<1>8. CASE f = "url"
  <2>1. WithField(t, f, v) = [t EXCEPT !.url = v] /\ v \in BOOLEAN
    BY <1>2, <1>8, EditorAssumption DEF WithField
  <2> QED
    BY <1>2, <2>1 DEF Target
<1> QED
  BY <1>1, <1>3, <1>4, <1>5, <1>6, <1>7, <1>8

\* A form target put at the end of the draft, or in its place: still a
\* configuration, with no fewer rows.
LEMMA TrialTyped ==
    ASSUME cfg \in Config, formTarget \in Target,
           formTargetIdx \in 0 .. Len(cfg.targets)
    PROVE  /\ Trial \in Config
           /\ IF formTargetIdx = 0 THEN Len(Trial.targets) = Len(cfg.targets) + 1
                                   ELSE Len(Trial.targets) = Len(cfg.targets)
<1>1. cfg.targets \in Seq(Target) /\ Len(cfg.targets) \in Nat
  BY DEF Config
<1>2. CASE formTargetIdx = 0
  <2> DEFINE ts == Append(cfg.targets, formTarget)
  <2>1. Trial = [cfg EXCEPT !.targets = ts]
    BY <1>2 DEF Trial
  <2>2. ts \in Seq(Target) /\ Len(ts) = Len(cfg.targets) + 1
    BY <1>1
  <2> HIDE DEF ts
  <2> QED
    BY <1>2, <2>1, <2>2 DEF Config
<1>3. CASE formTargetIdx # 0
  <2> DEFINE ts == [cfg.targets EXCEPT ![formTargetIdx] = formTarget]
  <2>1. Trial = [cfg EXCEPT !.targets = ts]
    BY <1>3 DEF Trial
  <2>2. ts \in Seq(Target) /\ Len(ts) = Len(cfg.targets)
    BY <1>1, <1>3, ExceptSeq
  <2> HIDE DEF ts
  <2> QED
    BY <1>3, <2>1, <2>2 DEF Config
<1> QED
  BY <1>2, <1>3

\* A deletion leaves a configuration with one target less, and valid targets.
LEMMA DeletionTyped ==
    ASSUME NEW c \in Config, NEW k \in DOMAIN c.targets
    PROVE  LET d == [c EXCEPT !.targets = RemoveTarget(@, k)]
           IN  /\ d \in Config
               /\ Len(d.targets) = Len(c.targets) - 1
               /\ TargetsValid(c) => TargetsValid(d)
<1> DEFINE ts == RemoveTarget(c.targets, k)
           d == [c EXCEPT !.targets = ts]
<1>1. c.targets \in Seq(Target) /\ Len(c.targets) \in Nat
      /\ DOMAIN c.targets = 1 .. Len(c.targets) /\ k \in 1 .. Len(c.targets)
  BY DEF Config
<1>2. /\ ts \in Seq(Target)
      /\ Len(ts) = Len(c.targets) - 1
      /\ \A i \in 1 .. Len(c.targets) - 1 : ts[i] = c.targets[IF i < k THEN i ELSE i + 1]
  BY <1>1, RemoveTargetKeeps
<1> HIDE DEF ts
<1>3. d \in Config /\ d.targets = ts
  BY <1>2 DEF Config
<1>4. DOMAIN ts = 1 .. Len(c.targets) - 1
  BY <1>2
<1>5. ASSUME TargetsValid(c)
      PROVE  TargetsValid(d)
  <2>1. \A i \in DOMAIN ts : ValidTarget(ts[i])
    BY <1>1, <1>2, <1>4, <1>5 DEF TargetsValid
  <2>2. ASSUME NEW i \in DOMAIN ts, NEW j \in DOMAIN ts, ts[i].name = ts[j].name
        PROVE  i = j
    <3> DEFINE at(n) == IF n < k THEN n ELSE n + 1
    <3>1. at(i) \in DOMAIN c.targets /\ at(j) \in DOMAIN c.targets
      BY <1>1, <1>4
    <3>2. ts[i] = c.targets[at(i)] /\ ts[j] = c.targets[at(j)]
      BY <1>2, <1>4
    <3>3. at(i) = at(j)
      BY <1>5, <2>2, <3>1, <3>2 DEF TargetsValid
    <3> QED
      BY <1>1, <1>4, <3>3
  <2> QED
    BY <1>3, <2>1, <2>2 DEF TargetsValid
<1> QED
  BY <1>2, <1>3, <1>5 DEF ts

-----------------------------------------------------------------------------
(* The command add.                                                         *)

\* The command has the same idea of a configuration as the editor.
LEMMA SameConfig ==
    /\ Add!Target = Target
    /\ Add!Config = Config
    /\ \A c : Add!Valid(c) = Valid(c)
    /\ \A c : Add!Names(c) = Names(c)
<1>1. Add!Port = Port /\ Add!ProbeMethod = ProbeMethod
  BY DEF Add!Port, Port, Add!ProbeMethod, ProbeMethod
<1>2. \A t : Add!ValidTarget(t) = ValidTarget(t)
  BY <1>1 DEF Add!ValidTarget, ValidTarget
<1>3. \A c : Add!Valid(c) = Valid(c)
  BY <1>2 DEF Add!Valid, Valid
<1>4. Add!Target = Target
  BY <1>1 DEF Add!Target, Target
<1>5. Add!Config = Config
  BY <1>4 DEF Add!Config, Config
<1>6. \A c : Add!Names(c) = Names(c)
  BY DEF Add!Names, Names
<1> QED
  BY <1>3, <1>4, <1>5, <1>6

\* What is asked about has passed the prompts, on a valid configuration.
Confirmed == phase = "confirm" => Valid(read) /\ Add!Prompted(target, read)

\* A target that passed the prompts makes a valid configuration with those read.
LEMMA PromptsGiveValid ==
    ASSUME Add!AddTypeOK, Valid(read), Add!Prompted(target, read),
           target.probe # "other"
    PROVE  Valid(Add!Extended)
<1> DEFINE ts == Append(read.targets, target)
<1>1. read \in Config /\ target \in Target
  BY SameConfig DEF Add!AddTypeOK
<1>2. read.targets \in Seq(Target) /\ Len(read.targets) \in Nat
      /\ DOMAIN read.targets = 1 .. Len(read.targets)
  BY <1>1 DEF Config
<1>3. /\ DOMAIN ts = 1 .. Len(read.targets) + 1
      /\ \A i \in 1 .. Len(read.targets) : ts[i] = read.targets[i]
      /\ ts[Len(read.targets) + 1] = target
      /\ ts # <<>>
  BY <1>1, <1>2
<1>4. ValidTarget(target)
  <2>1. /\ target.name # Empty
        /\ ParseIP[target.ip] # NoIP
        /\ target.weight >= 0
        /\ target.probe \in Add!ProbeMethod \cup {"other"}
        /\ Add!PortPrompt(target)
        /\ target.url = (target.probe = "http")
    BY Zenon DEF Add!Prompted
  <2>2. target.probe = "http" => target.url
    BY <2>1, Zenon
  <2>3. Add!ProbeMethod = ProbeMethod
    BY DEF Add!ProbeMethod, ProbeMethod
  <2>4. target.probe \in ProbeMethod
    <3>1. target.probe \in Add!ProbeMethod \cup {"other"}
      BY <2>1, Zenon
    <3> QED
      BY <2>3, <3>1
  <2>5. target.probe \in {"tcp", "udp"} => target.port \in Port
    <3>1. Add!Port = Port
      BY DEF Add!Port, Port
    <3>2. Add!PortPrompt(target)
      BY <2>1, Zenon
    <3> QED
      BY <3>1, <3>2 DEF Add!PortPrompt
  <2>6. target.name # Empty /\ target.weight >= 0 /\ ParseIP[target.ip] # NoIP
    BY <2>1, Zenon
  <2> QED
    BY <2>2, <2>4, <2>5, <2>6, Zenon DEF ValidTarget
<1>5. \A i \in DOMAIN read.targets : read.targets[i].name # target.name
  BY DEF Add!Prompted, Add!Names
<1> HIDE DEF ts
<1>6. \A i \in DOMAIN ts : ValidTarget(ts[i])
  BY <1>2, <1>3, <1>4 DEF Valid
<1>7. ASSUME NEW i \in DOMAIN ts, NEW j \in DOMAIN ts, ts[i].name = ts[j].name
      PROVE  i = j
  <2>1. \A m, n \in DOMAIN read.targets :
            read.targets[m].name = read.targets[n].name => m = n
    BY DEF Valid
  <2>2. CASE i \in DOMAIN read.targets /\ j \in DOMAIN read.targets
    BY <1>2, <1>3, <1>7, <2>1, <2>2
  <2>3. CASE i \notin DOMAIN read.targets /\ j \notin DOMAIN read.targets
    BY <1>2, <1>3, <2>3
  <2>4. CASE i \in DOMAIN read.targets /\ j \notin DOMAIN read.targets
    <3>1. ts[i] = read.targets[i] /\ ts[j] = target
      BY <1>2, <1>3, <2>4
    <3> QED
      BY <1>5, <1>7, <2>4, <3>1
  <2>5. CASE i \notin DOMAIN read.targets /\ j \in DOMAIN read.targets
    <3>1. ts[j] = read.targets[j] /\ ts[i] = target
      BY <1>2, <1>3, <2>5
    <3> QED
      BY <1>5, <1>7, <2>5, <3>1
  <2> QED
    BY <2>2, <2>3, <2>4, <2>5
<1>8. Add!Extended = [read EXCEPT !.targets = ts]
  BY DEF Add!Extended, ts
<1>9. /\ Add!Extended.targets = ts
      /\ Add!Extended.interval = read.interval
      /\ Add!Extended.timeout = read.timeout
      /\ Add!Extended.rounds = read.rounds
      /\ Add!Extended.egress = read.egress
      /\ Add!Extended.finalIP = read.finalIP
  BY <1>1, <1>8 DEF Config
<1> HIDE DEF Add!Extended
<1> QED
  BY <1>3, <1>6, <1>7, <1>9 DEF Valid

-----------------------------------------------------------------------------
(* Types.                                                                   *)

\* The form holds no place of the draft unless it is open.
FormShut == mode # "form" => formTargetIdx = 0

LEMMA StartsTyped ==
    /\ NGlobal = 5
    /\ NoDraft \in Config /\ Len(NoDraft.targets) = 0
    /\ NewTarget \in Target
    /\ Add!NoConfig \in Config
    /\ Add!NoTarget \in Target
<1>1. NGlobal = 5
  BY DEF NGlobal, GlobalField
<1>2. Empty \in Text
  BY AddressAssumption
<1>3. <<>> \in Seq(Target)
  OBVIOUS
<1> QED
  BY <1>1, <1>2, <1>3 DEF NoDraft, NewTarget, Add!NoConfig, Add!NoTarget, Config,
                          Target, ProbeMethod

LEMMA EditorKeepsTypes ==
    ASSUME EditorTypeOK, FormShut, EditorNext
    PROVE  EditorTypeOK' /\ FormShut'
<1> USE StartsTyped DEF Rows
<1>1. /\ running \in Config /\ cfg \in Config /\ base \in Config
      /\ \A p \in late : p.cfg \in Config
      /\ mode \in {"closed", "nav", "form", "confirm"}
      /\ sel \in 1 .. 5 + Len(cfg.targets)
      /\ mode = "confirm" => sel > 5
      /\ formTarget \in Target
      /\ formTargetIdx \in 0 .. Len(cfg.targets)
      /\ stale \in BOOLEAN
  BY DEF EditorTypeOK
<1>2. \A c \in Config : /\ Len(c.targets) \in Nat
                        /\ DOMAIN c.targets = 1 .. Len(c.targets)
                        /\ \A i \in DOMAIN c.targets : c.targets[i] \in Target
  BY DEF Config
<1>3. CASE Open \/ OpenAdd
  <2>1. /\ cfg' = running /\ base' = running
        /\ UNCHANGED <<running, late>>
        /\ sel' = 1 /\ stale' = FALSE
    BY <1>3 DEF Open, OpenAdd, Read
  <2>2. mode' \in {"nav", "form"} /\ formTarget' \in Target /\ formTargetIdx' = 0
    BY <1>1, <1>3 DEF Open, OpenAdd, Read, OpenForm, form, FormShut
  <2>3. sel' \in 1 .. 5 + Len(cfg'.targets) /\ formTargetIdx' \in 0 .. Len(cfg'.targets)
    BY <1>1, <1>2, <2>1, <2>2
  <2> QED
    BY <1>1, <2>1, <2>2, <2>3 DEF EditorTypeOK, FormShut
<1>4. CASE Move
  BY <1>1, <1>2, <1>4 DEF Move, form, EditorTypeOK, FormShut
<1>5. CASE Quit
  <2>1. /\ UNCHANGED <<running, late, formTarget>>
        /\ cfg' = NoDraft /\ base' = NoDraft
        /\ mode' = "closed" /\ sel' = 1 /\ stale' = FALSE
        /\ formTargetIdx' = 0
    BY <1>5 DEF Quit, form, FormShut
  <2>2. sel' \in 1 .. 5 + Len(cfg'.targets) /\ formTargetIdx' \in 0 .. Len(cfg'.targets)
    BY <2>1
  <2> QED
    BY <1>1, <2>1, <2>2 DEF EditorTypeOK, FormShut
<1>6. CASE EditGlobal
  <2>1. sel \in 1 .. NGlobal
    BY <1>1, <1>6 DEF EditGlobal
  <2>2. PICK v \in Typed[GlobalField[sel]] \cup {cfg[GlobalField[sel]]} :
            cfg' = [cfg EXCEPT ![GlobalField[sel]] = v]
    BY <1>6 DEF EditGlobal
  <2>7. cfg \in Config
    BY <1>1
  <2>3. cfg' \in Config /\ cfg'.targets = cfg.targets
    BY <2>1, <2>2, <2>7, FieldReplaced, Zenon
  <2>4. mode = "nav" /\ UNCHANGED <<running, late, mode, sel, form, base, stale>>
    BY <1>6 DEF EditGlobal
  <2>5. /\ UNCHANGED <<formTarget, formTargetIdx>>
        /\ Len(cfg'.targets) = Len(cfg.targets)
        /\ formTargetIdx = 0
    BY <2>3, <2>4 DEF form, FormShut
  <2>6. sel' \in 1 .. Rows(cfg') /\ formTargetIdx' \in 0 .. Len(cfg'.targets)
    BY <1>1, <2>4, <2>5
  <2> QED
    BY <1>1, <2>3, <2>4, <2>5, <2>6 DEF EditorTypeOK, FormShut
<1>7. CASE EditTarget \/ AddTarget
  <2>1. /\ UNCHANGED <<running, late, cfg, sel, base, stale>>
        /\ mode' = "form"
        /\ formTarget' \in Target
        /\ formTargetIdx' \in 0 .. Len(cfg.targets)
    BY <1>1, <1>2, <1>7 DEF EditTarget, AddTarget, OpenForm
  <2> QED
    BY <1>1, <2>1 DEF EditorTypeOK, FormShut
<1>8. CASE EditField
  <2>1. PICK f \in FormFields(formTarget) : \E v \in Typed[f] \cup {formTarget[f]} :
            formTarget' = WithField(formTarget, f, v)
    BY <1>8 DEF EditField
  <2>2. formTarget' \in Target
    BY <1>1, <2>1, FormReplaced
  <2> QED
    BY <1>1, <1>8, <2>2 DEF EditField, EditorTypeOK, FormShut
<1>9. CASE CancelForm
  BY <1>1, <1>2, <1>9 DEF CancelForm, CloseForm, EditorTypeOK, FormShut
<1>10. CASE CommitForm
  <2>1. Trial \in Config /\ Len(Trial.targets) \in Nat
        /\ IF formTargetIdx = 0 THEN Len(Trial.targets) = Len(cfg.targets) + 1
                                ELSE Len(Trial.targets) = Len(cfg.targets)
    BY <1>1, <1>2, TrialTyped
  <2>2. /\ UNCHANGED <<running, late, base, stale>>
        /\ cfg' = Trial
        /\ sel' = 5 + (IF formTargetIdx = 0 THEN Len(Trial.targets) ELSE formTargetIdx)
        /\ mode' = "nav" /\ formTarget' = NewTarget /\ formTargetIdx' = 0
    BY <1>10 DEF CommitForm, CloseForm
  <2>3. sel' \in 1 .. 5 + Len(Trial.targets)
    BY <1>1, <1>2, <2>1, <2>2
  <2> HIDE DEF Trial
  <2> QED
    BY <1>1, <2>1, <2>2, <2>3 DEF EditorTypeOK, FormShut
<1>11. CASE AskDelete \/ DeclineDelete
  BY <1>1, <1>2, <1>11 DEF AskDelete, DeclineDelete, SelectedTarget, form,
                           EditorTypeOK, FormShut
<1>12. CASE ConfirmDelete
  <2>1. sel - 5 \in DOMAIN cfg.targets
    BY <1>1, <1>2, <1>12 DEF ConfirmDelete
  <2>2. cfg' = [cfg EXCEPT !.targets = RemoveTarget(@, sel - 5)]
    BY <1>12 DEF ConfirmDelete, Doomed, SelectedTarget
  <2>3. cfg' \in Config /\ Len(cfg'.targets) = Len(cfg.targets) - 1
    BY <1>1, <2>1, <2>2, DeletionTyped
  <2>4. /\ UNCHANGED <<running, late, formTarget, formTargetIdx, base, stale>>
        /\ sel' = IF sel > 5 + Len(cfg'.targets) THEN 5 + Len(cfg'.targets) ELSE sel
        /\ mode' = "nav"
    BY <1>12 DEF ConfirmDelete, Clamped, form
  <2>5. mode = "confirm" /\ formTargetIdx = 0
    BY <1>12 DEF ConfirmDelete, FormShut
  <2>6. sel' \in 1 .. 5 + Len(cfg'.targets) /\ formTargetIdx' \in 0 .. Len(cfg'.targets)
    BY <1>1, <1>2, <2>1, <2>3, <2>4, <2>5
  <2> QED
    BY <1>1, <2>3, <2>4, <2>5, <2>6 DEF EditorTypeOK, FormShut
<1>13. ASSUME NEW answer \in {"ok", "refused", "timeout"}, Save(answer)
       PROVE  EditorTypeOK' /\ FormShut'
  <2>1. /\ UNCHANGED <<mode, cfg, sel, formTarget, formTargetIdx>>
        /\ running' \in {running, cfg}
        /\ base' \in {base, cfg}
        /\ stale' \in {stale, FALSE}
    BY <1>13 DEF Save, form
  <2>2. \A p \in late' : p \in late \/ p.cfg = cfg
    BY <1>13 DEF Save
  <2> QED
    BY <1>1, <2>1, <2>2 DEF EditorTypeOK, FormShut
<1>14. ASSUME NEW p \in late, ApplyLate(p)
       PROVE  EditorTypeOK' /\ FormShut'
  <2>1. /\ UNCHANGED <<mode, cfg, sel, formTarget, formTargetIdx, base>>
        /\ running' = p.cfg
        /\ late' \subseteq late
        /\ stale' \in BOOLEAN
    BY <1>14 DEF ApplyLate, editor, form
  <2> QED
    BY <1>1, <2>1 DEF EditorTypeOK, FormShut
<1> QED
  BY <1>3, <1>4, <1>5, <1>6, <1>7, <1>8, <1>9, <1>10, <1>11, <1>12, <1>13, <1>14
     DEF EditorNext

LEMMA ExtendedTyped ==
    ASSUME Add!AddTypeOK
    PROVE  Add!Extended \in Config
<1>1. read \in Config /\ target \in Target
  BY SameConfig DEF Add!AddTypeOK
<1>2. read.targets \in Seq(Target)
  BY <1>1 DEF Config
<1> DEFINE ts == Append(read.targets, target)
<1>3. ts \in Seq(Target)
  BY <1>1, <1>2
<1>4. Add!Extended = [read EXCEPT !.targets = ts]
  BY DEF Add!Extended
<1> HIDE DEF ts
<1> QED
  BY <1>1, <1>3, <1>4 DEF Config

\* What the command add has to do with.
AddTyping ==
    running \in Config /\ (\A p \in late : p.cfg \in Config) /\ Add!AddTypeOK

LEMMA AddKeepsTypes ==
    ASSUME running \in Config, \A p \in late : p.cfg \in Config,
           Add!AddTypeOK, Add!AddNext
    PROVE  AddTyping'
<1>1. phase \in {"idle", "confirm"} /\ read \in Config /\ target \in Target
  BY SameConfig DEF Add!AddTypeOK
<1>2. ASSUME NEW t \in [name : AddTyped.name, ip : AddTyped.ip,
                        weight : AddTyped.weight, probe : AddTyped.probe,
                        port : AddTyped.port \cup {0}, url : BOOLEAN],
             Add!ReadAndPrompt(t)
      PROVE  AddTyping'
  <2>1. t \in Target
    BY AddAssumption DEF Target
  <2>2. phase' = "confirm" /\ read' = running /\ target' = t /\ UNCHANGED <<running, late>>
    BY <1>2 DEF Add!ReadAndPrompt
  <2> QED
    BY <2>1, <2>2, SameConfig DEF Add!AddTypeOK, AddTyping
<1>3. CASE Add!Decline
  BY <1>3, SameConfig, StartsTyped DEF Add!Decline, Add!End, Add!AddTypeOK, AddTyping
<1>4. ASSUME NEW answer \in {"ok", "refused", "timeout"}, Add!Post(answer)
      PROVE  AddTyping'
  <2>1. /\ running' \in {running, Add!Extended}
        /\ \A p \in late' : p \in late \/ p.cfg = Add!Extended
        /\ Add!End
    BY <1>4 DEF Add!Post
  <2> QED
    BY <2>1, ExtendedTyped, SameConfig, StartsTyped
       DEF Add!End, Add!AddTypeOK, AddTyping
<1> QED
  BY <1>2, <1>3, <1>4 DEF Add!AddNext

Typing == TypeOK /\ FormShut

LEMMA TypingInductive == Typing /\ [Next]_vars => Typing'
<1> SUFFICES ASSUME Typing, [Next]_vars
             PROVE  Typing'
  OBVIOUS
<1>1. CASE EditorStep
  <2>1. EditorTypeOK' /\ FormShut'
    BY <1>1, EditorKeepsTypes DEF Typing, TypeOK, EditorStep
  <2>2. UNCHANGED <<phase, read, target>>
    BY <1>1 DEF EditorStep
  <2> QED
    BY <2>1, <2>2 DEF Typing, TypeOK, Add!AddTypeOK
<1>2. CASE AddStep
  <2>1. running \in Config /\ \A p \in late : p.cfg \in Config
    BY DEF Typing, TypeOK, EditorTypeOK
  <2>2. AddTyping'
    BY <1>2, <2>1, AddKeepsTypes DEF Typing, TypeOK, AddStep
  <2>3. /\ UNCHANGED <<mode, cfg, sel, formTarget, formTargetIdx, base>>
        /\ stale' \in BOOLEAN
    BY <1>2 DEF AddStep, editor, form
  <2> QED
    BY <2>2, <2>3 DEF AddTyping, Typing, TypeOK, EditorTypeOK, FormShut, Rows
<1>3. CASE UNCHANGED vars
  BY <1>3 DEF vars, editorVars, editor, form, Typing, TypeOK, EditorTypeOK, FormShut,
              Rows, Add!AddTypeOK
<1> QED
  BY <1>1, <1>2, <1>3 DEF Next

LEMMA TypingInvariant == Spec => []Typing
<1>1. Init => Typing
  <2> SUFFICES ASSUME Init
               PROVE  Typing
    OBVIOUS
  <2>1. running \in Config
    BY StoredAssumption DEF Init
  <2>2. Add!AddTypeOK
    BY SameConfig, StartsTyped DEF Init, Add!AddInit, Add!AddTypeOK
  <2>3. /\ late = {} /\ mode = "closed" /\ cfg = NoDraft /\ base = NoDraft /\ sel = 1
        /\ formTarget = NewTarget /\ formTargetIdx = 0 /\ stale = FALSE
    BY DEF Init, EditorInit
  <2>5. NoDraft.targets = << >> /\ NGlobal = 5
    BY DEF NoDraft, NGlobal, GlobalField
  <2>6. sel \in 1 .. Rows(cfg) /\ formTargetIdx \in 0 .. Len(cfg.targets)
    BY <2>3, <2>5 DEF Rows
  <2>4. EditorTypeOK
    BY <2>1, <2>3, <2>6, StartsTyped DEF EditorTypeOK
  <2> QED
    BY <2>2, <2>3, <2>4 DEF Typing, TypeOK, FormShut, Init
<1> QED
  BY <1>1, TypingInductive, PTL DEF Spec

\* Every reachable state is well typed: in particular the cursor of the editor is
\* on a row that exists, whatever is added and deleted (cfgEditor.handle).
THEOREM TypeCorrect == Spec => []TypeOK
BY TypingInvariant, PTL DEF Typing

-----------------------------------------------------------------------------
(* Validity of the draft and of what is posted.                             *)

\* Both halves of DraftTargetsValid.
RunsValid == Valid(running) /\ \A p \in late : Valid(p.cfg)

LEMMA DraftHalves == DraftTargetsValid <=> RunsValid /\ TargetsValid(cfg)
BY DEF DraftTargetsValid, RunsValid, TargetsValid

LEMMA ValidTargetsValid == \A c : Valid(c) => TargetsValid(c)
BY DEF Valid, TargetsValid

LEMMA EditorKeepsValid ==
    ASSUME EditorTypeOK, RunsValid, TargetsValid(cfg), EditorNext
    PROVE  RunsValid' /\ TargetsValid(cfg')
<1>1. running \in Config /\ cfg \in Config /\ sel \in 1 .. NGlobal + Len(cfg.targets)
  BY DEF EditorTypeOK, Rows
<1>2. CASE Open \/ OpenAdd
  <2>1. cfg' = running /\ UNCHANGED <<running, late>>
    BY <1>2 DEF Open, OpenAdd, Read
  <2> QED
    BY <2>1, ValidTargetsValid DEF RunsValid
<1>3. CASE \/ Move \/ EditTarget \/ AddTarget \/ EditField \/ CancelForm
           \/ AskDelete \/ DeclineDelete
  <2>1. UNCHANGED <<running, late, cfg>>
    BY <1>3 DEF Move, EditTarget, AddTarget, EditField, CancelForm, AskDelete,
                DeclineDelete
  <2> QED
    BY <2>1 DEF RunsValid
<1>4. CASE Quit
  <2>1. cfg' = NoDraft /\ UNCHANGED <<running, late>>
    BY <1>4 DEF Quit
  <2>2. DOMAIN NoDraft.targets = {}
    BY DEF NoDraft
  <2> QED
    BY <2>1, <2>2 DEF RunsValid, TargetsValid
<1>5. CASE EditGlobal
  <2>1. sel \in 1 .. NGlobal
    BY <1>1, <1>5, StartsTyped DEF EditGlobal
  <2>2. PICK v \in Typed[GlobalField[sel]] \cup {cfg[GlobalField[sel]]} :
            cfg' = [cfg EXCEPT ![GlobalField[sel]] = v]
    BY <1>5 DEF EditGlobal
  <2>5. cfg \in Config
    BY <1>1
  <2>3. cfg'.targets = cfg.targets
    BY <2>1, <2>2, <2>5, FieldReplaced, Zenon
  <2>4. UNCHANGED <<running, late>>
    BY <1>5 DEF EditGlobal
  <2> QED
    BY <2>3, <2>4 DEF RunsValid, TargetsValid
<1>6. CASE CommitForm
  <2>1. Valid(Trial) /\ cfg' = Trial /\ UNCHANGED <<running, late>>
    BY <1>6 DEF CommitForm, CommitChecks
  <2> QED
    BY <2>1, ValidTargetsValid DEF RunsValid
<1>7. CASE ConfirmDelete
  <2>1. sel - NGlobal \in DOMAIN cfg.targets
    <3>1. mode = "confirm"
      BY <1>7 DEF ConfirmDelete
    <3>2. sel > NGlobal
      BY <3>1 DEF EditorTypeOK
    <3>3. DOMAIN cfg.targets = 1 .. Len(cfg.targets) /\ Len(cfg.targets) \in Nat
      BY <1>1 DEF Config
    <3> QED
      BY <1>1, <3>2, <3>3, StartsTyped
  <2>2. cfg' = [cfg EXCEPT !.targets = RemoveTarget(@, sel - NGlobal)]
        /\ UNCHANGED <<running, late>>
    BY <1>7 DEF ConfirmDelete, Doomed, SelectedTarget
  <2> QED
    BY <1>1, <2>1, <2>2, DeletionTyped DEF RunsValid
<1>8. ASSUME NEW answer \in {"ok", "refused", "timeout"}, Save(answer)
      PROVE  RunsValid' /\ TargetsValid(cfg')
  <2>1. /\ Valid(cfg) /\ cfg' = cfg
        /\ running' \in {running, cfg}
        /\ \A p \in late' : p \in late \/ p.cfg = cfg
    BY <1>8 DEF Save
  <2> QED
    BY <2>1 DEF RunsValid
<1>9. ASSUME NEW p \in late, ApplyLate(p)
      PROVE  RunsValid' /\ TargetsValid(cfg')
  <2>1. cfg' = cfg /\ running' = p.cfg /\ late' \subseteq late
    BY <1>9 DEF ApplyLate, editor
  <2> QED
    BY <2>1 DEF RunsValid
<1> QED
  BY <1>2, <1>3, <1>4, <1>5, <1>6, <1>7, <1>8, <1>9 DEF EditorNext

LEMMA AddKeepsValid ==
    ASSUME RunsValid, Add!AddNext
    PROVE  RunsValid'
<1>1. ASSUME NEW t, Add!ReadAndPrompt(t)
      PROVE  RunsValid'
  BY <1>1 DEF Add!ReadAndPrompt, RunsValid
<1>2. CASE Add!Decline
  BY <1>2 DEF Add!Decline, RunsValid
<1>3. ASSUME NEW answer \in {"ok", "refused", "timeout"}, Add!Post(answer)
      PROVE  RunsValid'
  <2> DEFINE posted == Add!Extended
  <2>1. /\ answer # "refused" => Add!Valid(posted)
        /\ running' = IF answer = "ok" THEN posted ELSE running
        /\ late' = IF answer = "timeout"
                   THEN late \cup {[cfg |-> posted, base |-> read,
                                    touched |-> {target.name}]}
                   ELSE late
    BY <1>3 DEF Add!Post
  <2> HIDE DEF posted
  <2>2. answer # "refused" => Valid(posted)
    BY <2>1, SameConfig
  <2>3. \A p \in late' : p \in late \/ (answer = "timeout" /\ p.cfg = posted)
    <3>1. CASE answer = "timeout"
      <4>1. late' = late \cup {[cfg |-> posted, base |-> read,
                               touched |-> {target.name}]}
        BY <2>1, <3>1
      <4> QED
        BY <3>1, <4>1
    <3>2. CASE answer # "timeout"
      BY <2>1, <3>2
    <3> QED
      BY <3>1, <3>2
  <2> QED
    BY <2>1, <2>2, <2>3 DEF RunsValid
<1> QED
  BY <1>1, <1>2, <1>3 DEF Add!AddNext

LEMMA ValidInvariant == Spec => [](RunsValid /\ TargetsValid(cfg))
<1>1. Init => RunsValid /\ TargetsValid(cfg)
  <2>1. DOMAIN NoDraft.targets = {}
    BY DEF NoDraft
  <2> QED
    BY <2>1, StoredAssumption DEF Init, EditorInit, RunsValid, TargetsValid
<1>2. ASSUME Typing, RunsValid, TargetsValid(cfg), [Next]_vars
      PROVE  RunsValid' /\ TargetsValid(cfg')
  <2>1. CASE EditorStep
    BY <1>2, <2>1, EditorKeepsValid DEF EditorStep, Typing, TypeOK
  <2>2. CASE AddStep
    <3>1. RunsValid'
      BY <1>2, <2>2, AddKeepsValid DEF AddStep
    <3>2. cfg' = cfg
      BY <2>2 DEF AddStep, editor
    <3> QED
      BY <1>2, <3>1, <3>2
  <2>3. CASE UNCHANGED vars
    BY <1>2, <2>3 DEF vars, editorVars, editor, RunsValid
  <2> QED
    BY <1>2, <2>1, <2>2, <2>3 DEF Next
<1>3. ASSUME Typing, RunsValid, TargetsValid(cfg), [Next]_vars
      PROVE  (RunsValid /\ TargetsValid(cfg))'
  BY <1>2, <1>3 DEF TargetsValid
<1> QED
  BY <1>1, <1>3, TypingInvariant, PTL DEF Spec

\* What the daemon runs and what is posted is valid, and so are all targets of
\* the draft, each with a name of its own, at any moment of a session, whatever
\* the user types (config_tui.go 677-713).
THEOREM DraftCorrect == Spec => []DraftTargetsValid
BY ValidInvariant, DraftHalves, PTL

-----------------------------------------------------------------------------
(* Saving, and the prompts of add.                                          *)

\* Until another client changes the configuration, the daemon runs what the
\* editor read or was told to be saved: an answer that is lost or negative is
\* never taken for success (config_tui.go 756-760, client.go 54-65).
THEOREM SavedCorrect == Spec => []SavedMeansRunning
<1>1. Init => SavedMeansRunning
  BY DEF Init, EditorInit, SavedMeansRunning
<1>2. ASSUME Typing, SavedMeansRunning, [Next]_vars
      PROVE  SavedMeansRunning'
  <2>1. stale \in BOOLEAN
    BY <1>2 DEF Typing, TypeOK, EditorTypeOK
  <2>2. CASE EditorStep
    <3>1. CASE Open \/ OpenAdd
      BY <3>1 DEF Open, OpenAdd, Read, SavedMeansRunning
    <3>2. CASE Quit
      BY <3>2 DEF Quit, SavedMeansRunning
    <3>3. CASE \/ Move \/ EditTarget \/ AddTarget \/ EditField \/ CancelForm
               \/ AskDelete \/ DeclineDelete \/ EditGlobal \/ CommitForm
               \/ ConfirmDelete
      <4>1. UNCHANGED <<running, base, stale>> /\ mode # "closed"
        BY <3>3 DEF Move, EditTarget, AddTarget, EditField, CancelForm, AskDelete,
                    DeclineDelete, EditGlobal, CommitForm, ConfirmDelete
      <4> QED
        BY <1>2, <4>1 DEF SavedMeansRunning
    <3>4. ASSUME NEW answer \in {"ok", "refused", "timeout"}, Save(answer)
          PROVE  SavedMeansRunning'
      <4>1. mode = "nav" /\ running' = IF answer = "ok" THEN cfg ELSE running
        BY <3>4 DEF Save
      <4>2. IF answer = "ok" THEN base' = cfg ELSE UNCHANGED <<base, stale>>
        BY <3>4 DEF Save, Acknowledged
      <4> QED
        BY <1>2, <4>1, <4>2 DEF SavedMeansRunning
    <3>5. ASSUME NEW p \in late, ApplyLate(p)
          PROVE  SavedMeansRunning'
      BY <3>5 DEF ApplyLate, editor, SavedMeansRunning
    <3> QED
      BY <2>2, <3>1, <3>2, <3>3, <3>4, <3>5 DEF EditorStep, EditorNext
  <2>3. CASE AddStep
    <3>1. mode' = mode /\ base' = base
      BY <2>3 DEF AddStep, editor
    <3>2. stale' = (mode # "closed" /\ (stale \/ running' # running))
      BY <2>3 DEF AddStep
    <3> QED
      BY <1>2, <2>1, <3>1, <3>2 DEF SavedMeansRunning
  <2>4. CASE UNCHANGED vars
    BY <1>2, <2>4 DEF vars, editorVars, editor, SavedMeansRunning
  <2> QED
    BY <1>2, <2>2, <2>3, <2>4 DEF Next
<1> QED
  BY <1>1, <1>2, TypingInvariant, PTL DEF Spec

LEMMA ConfirmedInvariant == Spec => []Confirmed
<1>1. Init => Confirmed
  BY DEF Init, Add!AddInit, Confirmed
<1>2. ASSUME RunsValid, Confirmed, [Next]_vars
      PROVE  Confirmed'
  <2>1. CASE EditorStep
    <3>1. UNCHANGED <<phase, read, target>>
      BY <2>1 DEF EditorStep
    <3>2. Add!Prompted(target, read)' <=> Add!Prompted(target, read)
      BY <3>1 DEF Add!Prompted, Add!Names, Add!PortPrompt
    <3> QED
      BY <1>2, <3>1, <3>2 DEF Confirmed
  <2>2. CASE AddStep
    <3>1. ASSUME NEW t, Add!ReadAndPrompt(t)
          PROVE  Confirmed'
      <4>1. /\ Add!Prompted(t, running)
            /\ read' = running /\ target' = t
        BY <3>1 DEF Add!ReadAndPrompt
      <4>2. Valid(running)
        BY <1>2 DEF RunsValid
      <4>3. Add!Prompted(target', read')
        BY <4>1
      <4> QED
        BY <4>1, <4>2, <4>3 DEF Confirmed
    <3>2. CASE Add!Decline
      BY <3>2 DEF Add!Decline, Add!End, Confirmed
    <3>3. ASSUME NEW answer, Add!Post(answer)
          PROVE  Confirmed'
      BY <3>3 DEF Add!Post, Add!End, Confirmed
    <3> QED
      BY <2>2, <3>1, <3>2, <3>3 DEF AddStep, Add!AddNext
  <2>3. CASE UNCHANGED vars
    BY <1>2, <2>3 DEF vars, Confirmed, Add!Prompted, Add!Names, Add!PortPrompt
  <2> QED
    BY <1>2, <2>1, <2>2, <2>3 DEF Next
<1> QED
  BY <1>1, <1>2, ValidInvariant, PTL DEF Spec

\* What the prompts of add let through and the user confirmed, the daemon
\* accepts, unless the way to probe was not typed in lower case (ctl.go 306-375
\* against config.go 130-165).
THEOREM PromptsCorrect == Spec => []PromptsSuffice
<1>1. ASSUME Typing, Confirmed
      PROVE  PromptsSuffice
  <2>1. Add!AddTypeOK
    BY <1>1 DEF Typing, TypeOK
  <2>2. phase = "confirm" /\ target.probe # "other" => Valid(Add!Extended)
    BY <1>1, <2>1, PromptsGiveValid DEF Confirmed
  <2> QED
    BY <2>2, SameConfig DEF PromptsSuffice, Add!PromptsSuffice
<1> QED
  BY <1>1, TypingInvariant, ConfirmedInvariant, PTL

-----------------------------------------------------------------------------
(* What an edit leaves alone.                                               *)

\* Of no target outside a configuration anything is said.
LEMMA AgreeOutsideAll ==
    ASSUME NEW what, NEW c, NEW d
    PROVE  AgreeOutside(what, c, d) <=>
             /\ \A i \in DOMAIN GlobalField :
                    GlobalField[i] \notin what => c[GlobalField[i]] = d[GlobalField[i]]
             /\ \A t, u : t.name \notin what /\ u.name \notin what
                    => (InOrder(c, t, u) <=> InOrder(d, t, u))
<1>1. \A x, t, u : InOrder(x, t, u) => t \in TargetsOf(x) /\ u \in TargetsOf(x)
  BY DEF InOrder, TargetsOf
<1> QED
  BY <1>1 DEF AgreeOutside

LEMMA AgreesWithItself == \A what, c : AgreeOutside(what, c, c)
BY AgreeOutsideAll

\* Two edits after each other.
LEMMA AgreeComposes ==
    ASSUME NEW what, NEW more, NEW a, NEW b, NEW c,
           AgreeOutside(what, a, b), AgreeOutside(more, b, c)
    PROVE  AgreeOutside(what \cup more, a, c)
<1>1. \A t, u : /\ t.name \notin what \cup more
                /\ u.name \notin what \cup more
                => (InOrder(a, t, u) <=> InOrder(c, t, u))
  <2> TAKE t, u
  <2> HAVE t.name \notin what \cup more /\ u.name \notin what \cup more
  <2>1. InOrder(a, t, u) <=> InOrder(b, t, u)
    BY AgreeOutsideAll
  <2>2. InOrder(b, t, u) <=> InOrder(c, t, u)
    BY AgreeOutsideAll
  <2> QED
    BY <2>1, <2>2
<1>2. \A i \in DOMAIN GlobalField :
          GlobalField[i] \notin what \cup more => a[GlobalField[i]] = c[GlobalField[i]]
  BY AgreeOutsideAll
<1> QED
  BY <1>1, <1>2, AgreeOutsideAll

\* Only one global field is set.
LEMMA FieldAgrees ==
    ASSUME NEW c \in Config, NEW k \in 1 .. NGlobal,
           NEW v \in Typed[GlobalField[k]] \cup {c[GlobalField[k]]}
    PROVE  AgreeOutside({GlobalField[k]}, c, [c EXCEPT ![GlobalField[k]] = v])
<1> DEFINE d == [c EXCEPT ![GlobalField[k]] = v]
<1>1. d.targets = c.targets
  BY FieldReplaced
<1>2. \A t, u : InOrder(c, t, u) <=> InOrder(d, t, u)
  BY <1>1 DEF InOrder
<1>3. \A i \in DOMAIN GlobalField :
          GlobalField[i] # GlobalField[k] => c[GlobalField[i]] = d[GlobalField[i]]
  BY DEF Config
<1> QED
  BY <1>2, <1>3, AgreeOutsideAll

\* Only the targets are set.
LEMMA TargetsAgree ==
    ASSUME NEW c \in Config, NEW ts, NEW what,
           \A t, u : t.name \notin what /\ u.name \notin what =>
               (InOrder(c, t, u) <=> \E i, j \in DOMAIN ts : i <= j /\ ts[i] = t /\ ts[j] = u)
    PROVE  AgreeOutside(what, c, [c EXCEPT !.targets = ts])
<1> DEFINE d == [c EXCEPT !.targets = ts]
<1>1. d.targets = ts
  BY DEF Config
<1>2. \A i \in DOMAIN GlobalField : d[GlobalField[i]] = c[GlobalField[i]]
  <2>1. \A f \in {"interval", "timeout", "egress", "rounds", "finalIP"} : d[f] = c[f]
    BY DEF Config
  <2>2. \A i \in DOMAIN GlobalField :
            GlobalField[i] \in {"interval", "timeout", "egress", "rounds", "finalIP"}
    BY DEF GlobalField
  <2> QED
    BY <2>1, <2>2
<1>3. \A t, u : InOrder(d, t, u) <=> \E i, j \in DOMAIN ts : i <= j /\ ts[i] = t /\ ts[j] = u
  BY <1>1 DEF InOrder
<1> HIDE DEF d
<1>4. AgreeOutside(what, c, d)
  BY <1>2, <1>3, AgreeOutsideAll
<1> QED
  BY <1>4 DEF d

LEMMA AppendAgrees ==
    ASSUME NEW c \in Config, NEW new \in Target
    PROVE  AgreeOutside({new.name}, c, [c EXCEPT !.targets = Append(@, new)])
<1> DEFINE ts == Append(c.targets, new)
<1>1. c.targets \in Seq(Target) /\ Len(c.targets) \in Nat
      /\ DOMAIN c.targets = 1 .. Len(c.targets)
  BY DEF Config
<1>2. /\ DOMAIN ts = 1 .. Len(c.targets) + 1
      /\ \A i \in DOMAIN c.targets : ts[i] = c.targets[i]
      /\ ts[Len(c.targets) + 1] = new
  BY <1>1
<1> HIDE DEF ts
<1>3. ASSUME NEW t, NEW u, t.name # new.name, u.name # new.name
      PROVE  InOrder(c, t, u) <=> \E i, j \in DOMAIN ts : i <= j /\ ts[i] = t /\ ts[j] = u
  <2>1. \A i \in DOMAIN ts : ts[i] \in {t, u} => i \in DOMAIN c.targets
    BY <1>1, <1>2, <1>3
  <2>2. DOMAIN c.targets \subseteq DOMAIN ts
    BY <1>1, <1>2
  <2> QED
    BY <1>2, <2>1, <2>2 DEF InOrder
<1>4. AgreeOutside({new.name}, c, [c EXCEPT !.targets = ts])
  BY <1>3, TargetsAgree
<1> QED
  BY <1>4 DEF ts

LEMMA ReplaceAgrees ==
    ASSUME NEW c \in Config, NEW k \in DOMAIN c.targets, NEW new \in Target
    PROVE  AgreeOutside({new.name, c.targets[k].name}, c,
                        [c EXCEPT !.targets[k] = new])
<1> DEFINE ts == [c.targets EXCEPT ![k] = new]
<1>1. /\ DOMAIN ts = DOMAIN c.targets
      /\ ts[k] = new
      /\ \A i \in DOMAIN c.targets : i # k => ts[i] = c.targets[i]
  OBVIOUS
<1>2. [c EXCEPT !.targets[k] = new] = [c EXCEPT !.targets = ts]
  OBVIOUS
<1> HIDE DEF ts
<1>3. ASSUME NEW t, NEW u, t.name \notin {new.name, c.targets[k].name},
             u.name \notin {new.name, c.targets[k].name}
      PROVE  InOrder(c, t, u) <=> \E i, j \in DOMAIN ts : i <= j /\ ts[i] = t /\ ts[j] = u
  BY <1>1, <1>3 DEF InOrder
<1>4. AgreeOutside({new.name, c.targets[k].name}, c, [c EXCEPT !.targets = ts])
  BY <1>3, TargetsAgree
<1> QED
  BY <1>2, <1>4

LEMMA DeletionAgrees ==
    ASSUME NEW c \in Config, NEW k \in DOMAIN c.targets
    PROVE  AgreeOutside({c.targets[k].name}, c,
                        [c EXCEPT !.targets = RemoveTarget(@, k)])
<1> DEFINE ts == RemoveTarget(c.targets, k)
           n == Len(c.targets)
           at(i) == IF i < k THEN i ELSE i + 1
<1>1. c.targets \in Seq(Target) /\ n \in Nat /\ DOMAIN c.targets = 1 .. n /\ k \in 1 .. n
  BY DEF Config
<1>2. /\ DOMAIN ts = 1 .. n - 1
      /\ \A i \in 1 .. n - 1 : ts[i] = c.targets[at(i)]
  BY <1>1, RemoveTargetKeeps
<1> HIDE DEF ts
<1>3. ASSUME NEW t, NEW u, t.name # c.targets[k].name, u.name # c.targets[k].name
      PROVE  InOrder(c, t, u) <=> \E i, j \in DOMAIN ts : i <= j /\ ts[i] = t /\ ts[j] = u
  <2>1. ASSUME InOrder(c, t, u)
        PROVE  \E i, j \in DOMAIN ts : i <= j /\ ts[i] = t /\ ts[j] = u
    <3>1. PICK i \in 1 .. n, j \in 1 .. n :
              i <= j /\ c.targets[i] = t /\ c.targets[j] = u
      BY <1>1, <2>1 DEF InOrder
    <3>2. i # k /\ j # k
      BY <1>3, <3>1
    <3> DEFINE from(m) == IF m < k THEN m ELSE m - 1
    <3>3. /\ from(i) \in 1 .. n - 1 /\ from(j) \in 1 .. n - 1 /\ from(i) <= from(j)
          /\ at(from(i)) = i /\ at(from(j)) = j
      BY <1>1, <3>1, <3>2
    <3>4. ts[from(i)] = t /\ ts[from(j)] = u
      BY <1>2, <3>1, <3>3
    <3> HIDE DEF from
    <3> QED
      BY <1>2, <3>3, <3>4
  <2>2. ASSUME NEW i \in DOMAIN ts, NEW j \in DOMAIN ts, i <= j, ts[i] = t, ts[j] = u
        PROVE  InOrder(c, t, u)
    <3>1. at(i) \in 1 .. n /\ at(j) \in 1 .. n /\ at(i) <= at(j)
      BY <1>1, <1>2, <2>2
    <3>2. c.targets[at(i)] = t /\ c.targets[at(j)] = u
      BY <1>2, <2>2
    <3> HIDE DEF at
    <3> QED
      BY <1>1, <3>1, <3>2 DEF InOrder
  <2> QED
    BY <2>1, <2>2
<1>4. AgreeOutside({c.targets[k].name}, c, [c EXCEPT !.targets = ts])
  BY <1>3, TargetsAgree
<1> QED
  BY <1>4 DEF ts

\* The form's target in its place in the draft.
LEMMA TrialAgrees ==
    ASSUME cfg \in Config, formTarget \in Target,
           formTargetIdx \in 0 .. Len(cfg.targets)
    PROVE  AgreeOutside(FormNames, cfg, Trial)
<1>1. CASE formTargetIdx = 0
  <2>1. FormNames = {formTarget.name}
    BY <1>1 DEF FormNames
  <2> QED
    BY <1>1, <2>1, AppendAgrees DEF Trial
<1>2. CASE formTargetIdx # 0
  <2>1. FormNames = {formTarget.name, cfg.targets[formTargetIdx].name}
    BY <1>2 DEF FormNames
  <2>2. formTargetIdx \in DOMAIN cfg.targets
    BY <1>2 DEF Config
  <2>3. Trial = [cfg EXCEPT !.targets[formTargetIdx] = formTarget]
    BY <1>2 DEF Trial
  <2> QED
    BY <2>1, <2>2, <2>3, ReplaceAgrees
<1> QED
  BY <1>1, <1>2

\* An edit of what is touched from now on keeps the rest.
LEMMA EditKeepsRest ==
    ASSUME NEW what, DraftKeepsRest, mode # "closed", AgreeOutside(what, cfg, cfg'),
           Touch(what), base' = base
    PROVE  DraftKeepsRest'
<1>1. CASE cfg' = cfg
  BY <1>1 DEF DraftKeepsRest, Touch
<1>2. CASE cfg' # cfg
  BY <1>2, AgreeComposes DEF DraftKeepsRest, Touch
<1> QED
  BY <1>1, <1>2

\* At any moment of a session the draft differs from what was last read or saved
\* in nothing but what the user selected and confirmed: a form that is abandoned
\* leaves no trace, a deletion takes the target it named, and the other targets
\* keep their order, however many edits there are (config_tui.go 654-742).
THEOREM RestCorrect == Spec => []DraftKeepsRest
<1>1. Init => DraftKeepsRest
  BY DEF Init, EditorInit, DraftKeepsRest
<1>2. ASSUME Typing, DraftKeepsRest, [Next]_vars
      PROVE  DraftKeepsRest'
  <2>1. /\ cfg \in Config /\ formTarget \in Target
        /\ formTargetIdx \in 0 .. Len(cfg.targets)
        /\ sel \in 1 .. NGlobal + Len(cfg.targets)
        /\ mode = "confirm" => sel > NGlobal
    BY <1>2 DEF Typing, TypeOK, EditorTypeOK, Rows
  <2>2. CASE EditorStep
    <3>1. CASE Open \/ OpenAdd
      BY <3>1, AgreesWithItself DEF Open, OpenAdd, Read, DraftKeepsRest
    <3>2. CASE Quit
      BY <3>2 DEF Quit, DraftKeepsRest
    <3>3. CASE \/ Move \/ EditTarget \/ AddTarget \/ EditField \/ CancelForm
               \/ AskDelete \/ DeclineDelete
      <4>1. UNCHANGED <<cfg, base, touched>> /\ mode # "closed"
        BY <3>3 DEF Move, EditTarget, AddTarget, EditField, CancelForm, AskDelete,
                    DeclineDelete
      <4> QED
        BY <1>2, <4>1 DEF DraftKeepsRest
    <3>4. CASE EditGlobal
      <4>1. sel \in 1 .. NGlobal
        BY <2>1, <3>4, StartsTyped DEF EditGlobal
      <4>2. PICK v \in Typed[GlobalField[sel]] \cup {cfg[GlobalField[sel]]} :
                cfg' = [cfg EXCEPT ![GlobalField[sel]] = v]
        BY <3>4 DEF EditGlobal
      <4>3. AgreeOutside({GlobalField[sel]}, cfg, cfg')
        BY <2>1, <4>1, <4>2, FieldAgrees, Zenon
      <4>4. mode = "nav" /\ Touch({GlobalField[sel]}) /\ base' = base
        BY <3>4 DEF EditGlobal
      <4> QED
        BY <1>2, <4>3, <4>4, EditKeepsRest
    <3>5. CASE CommitForm
      <4>1. mode = "form" /\ cfg' = Trial /\ Touch(FormNames) /\ base' = base
        BY <3>5 DEF CommitForm
      <4>2. AgreeOutside(FormNames, cfg, cfg')
        BY <2>1, <4>1, TrialAgrees
      <4> QED
        BY <1>2, <4>1, <4>2, EditKeepsRest
    <3>6. CASE ConfirmDelete
      <4>1. /\ mode = "confirm" /\ base' = base
            /\ Touch({cfg.targets[SelectedTarget].name})
            /\ cfg' = [cfg EXCEPT !.targets = RemoveTarget(@, SelectedTarget)]
        BY <3>6 DEF ConfirmDelete, Doomed
      <4>2. SelectedTarget \in DOMAIN cfg.targets
        <5>1. DOMAIN cfg.targets = 1 .. Len(cfg.targets) /\ Len(cfg.targets) \in Nat
          BY <2>1 DEF Config
        <5> QED
          BY <2>1, <4>1, <5>1, StartsTyped DEF SelectedTarget
      <4>3. AgreeOutside({cfg.targets[SelectedTarget].name}, cfg, cfg')
        BY <2>1, <4>1, <4>2, DeletionAgrees
      <4> QED
        BY <1>2, <4>1, <4>3, EditKeepsRest
    <3>7. ASSUME NEW answer \in {"ok", "refused", "timeout"}, Save(answer)
          PROVE  DraftKeepsRest'
      <4>1. CASE Acknowledged(answer)
        BY <3>7, <4>1, AgreesWithItself DEF Save, DraftKeepsRest
      <4>2. CASE ~Acknowledged(answer)
        <5>1. UNCHANGED <<cfg, base, touched>> /\ mode = "nav"
          BY <3>7, <4>2 DEF Save
        <5> QED
          BY <1>2, <5>1 DEF DraftKeepsRest
      <4> QED
        BY <4>1, <4>2
    <3>8. ASSUME NEW p \in late, ApplyLate(p)
          PROVE  DraftKeepsRest'
      BY <1>2, <3>8 DEF ApplyLate, editor, DraftKeepsRest
    <3> QED
      BY <2>2, <3>1, <3>2, <3>3, <3>4, <3>5, <3>6, <3>7, <3>8 DEF EditorStep, EditorNext
  <2>3. CASE AddStep
    BY <1>2, <2>3 DEF AddStep, editor, DraftKeepsRest
  <2>4. CASE UNCHANGED vars
    BY <1>2, <2>4 DEF vars, editorVars, editor, DraftKeepsRest
  <2> QED
    BY <1>2, <2>2, <2>3, <2>4 DEF Next
<1> QED
  BY <1>1, <1>2, TypingInvariant, PTL DEF Spec

-----------------------------------------------------------------------------
(* Two clients.                                                             *)

\* A post that was given up differs from the copy it was made from in nothing but
\* what its user changed.
LatePostsAgree == \A p \in late : AgreeOutside(p.touched, p.base, p.cfg)

\* What add posts differs from what it read in its target only.
LEMMA ExtendedAgrees ==
    ASSUME Typing
    PROVE  AgreeOutside({target.name}, read, Add!Extended)
<1>1. read \in Config /\ target \in Target
  BY SameConfig DEF Typing, TypeOK, Add!AddTypeOK
<1> QED
  BY <1>1, AppendAgrees DEF Add!Extended

LEMMA LatePostsInvariant == Spec => []LatePostsAgree
<1>1. Init => LatePostsAgree
  BY DEF Init, EditorInit, LatePostsAgree
<1>2. ASSUME Typing, DraftKeepsRest, LatePostsAgree, [Next]_vars
      PROVE  LatePostsAgree'
  <2>1. CASE EditorStep
    <3>1. ASSUME NEW answer \in {"ok", "refused", "timeout"}, Save(answer)
          PROVE  LatePostsAgree'
      <4>1. /\ mode = "nav"
            /\ \A p \in late' :
                   p \in late \/ p = [cfg |-> cfg, base |-> base, touched |-> touched]
        BY <3>1 DEF Save
      <4>2. AgreeOutside(touched, base, cfg)
        BY <1>2, <4>1 DEF DraftKeepsRest
      <4> QED
        BY <1>2, <4>1, <4>2 DEF LatePostsAgree
    <3>2. ASSUME NEW p \in late, ApplyLate(p)
          PROVE  LatePostsAgree'
      BY <1>2, <3>2 DEF ApplyLate, LatePostsAgree
    <3>3. CASE \/ Open \/ OpenAdd \/ Move \/ Quit \/ EditGlobal \/ EditTarget
               \/ AddTarget \/ EditField \/ CancelForm \/ CommitForm \/ AskDelete
               \/ DeclineDelete \/ ConfirmDelete
      <4>1. late' = late
        BY <3>3 DEF Open, OpenAdd, Read, Move, Quit, EditGlobal, EditTarget, AddTarget,
               EditField, CancelForm, CommitForm, AskDelete, DeclineDelete, ConfirmDelete
      <4> QED
        BY <1>2, <4>1 DEF LatePostsAgree
    <3> QED
      BY <2>1, <3>1, <3>2, <3>3 DEF EditorStep, EditorNext
  <2>2. CASE AddStep
    <3> DEFINE new == [cfg |-> Add!Extended, base |-> read, touched |-> {target.name}]
    <3>1. \A p \in late' : p \in late \/ p = new
      BY <2>2 DEF AddStep, Add!AddNext, Add!ReadAndPrompt, Add!Decline, Add!Post
    <3>2. AgreeOutside(new.touched, new.base, new.cfg)
      BY <1>2, ExtendedAgrees
    <3> HIDE DEF new
    <3> QED
      BY <1>2, <3>1, <3>2 DEF LatePostsAgree
  <2>3. CASE UNCHANGED vars
    BY <1>2, <2>3 DEF vars, editorVars, LatePostsAgree
  <2> QED
    BY <1>2, <2>1, <2>2, <2>3 DEF Next
<1> QED
  BY <1>1, <1>2, TypingInvariant, RestCorrect, PTL DEF Spec

\* Whatever is posted and whenever it is applied, at once or after its client gave
\* it up: if the daemon still runs the copy it was made from, it changes what its
\* own user changed and nothing else (config_tui.go 746-761, ctl.go 377-384,
\* client.go 28).
THEOREM NothingLostCorrect == Spec => NothingLostUnlessStale
<1> DEFINE Posted ==
      running' # running =>
         IF late' # late
         THEN \A p \in late \ late' :
                  p.base = running => AgreeOutside(p.touched, running, running')
         ELSE IF phase' = phase
         THEN base = running => AgreeOutside(touched, running, running')
         ELSE read = running => AgreeOutside({target.name}, running, running')
<1>1. ASSUME Typing, DraftKeepsRest, LatePostsAgree, [Next]_vars, running' # running
      PROVE  /\ late' # late => \A p \in late \ late' :
                    p.base = running => AgreeOutside(p.touched, running, running')
             /\ late' = late /\ phase' = phase =>
                    (base = running => AgreeOutside(touched, running, running'))
             /\ late' = late /\ phase' # phase =>
                    (read = running => AgreeOutside({target.name}, running, running'))
  <2>1. CASE EditorStep
    <3>1. phase' = phase
      BY <2>1 DEF EditorStep
    <3>2. ASSUME NEW answer \in {"ok", "refused", "timeout"}, Save(answer)
          PROVE  /\ late' = late
                 /\ base = running => AgreeOutside(touched, running, running')
      <4>1. mode = "nav" /\ running' = cfg /\ late' = late
        BY <1>1, <3>2 DEF Save
      <4> QED
        BY <1>1, <4>1 DEF DraftKeepsRest
    <3>3. ASSUME NEW p \in late, ApplyLate(p)
          PROVE  /\ late' # late
                 /\ late \ late' = {p}
                 /\ p.base = running => AgreeOutside(p.touched, running, running')
      <4>1. running' = p.cfg /\ late' = late \ {p}
        BY <3>3 DEF ApplyLate
      <4> QED
        BY <1>1, <4>1 DEF LatePostsAgree
    <3>4. ~(\/ Open \/ OpenAdd \/ Move \/ Quit \/ EditGlobal \/ EditTarget
            \/ AddTarget \/ EditField \/ CancelForm \/ CommitForm \/ AskDelete
            \/ DeclineDelete \/ ConfirmDelete)
      BY <1>1 DEF Open, OpenAdd, Read, Move, Quit, EditGlobal, EditTarget, AddTarget,
             EditField, CancelForm, CommitForm, AskDelete, DeclineDelete, ConfirmDelete
    <3> QED
      BY <2>1, <3>1, <3>2, <3>3, <3>4 DEF EditorStep, EditorNext
  <2>2. CASE AddStep
    <3>1. PICK answer \in {"ok", "refused", "timeout"} : Add!Post(answer)
      BY <1>1, <2>2 DEF AddStep, Add!AddNext, Add!ReadAndPrompt, Add!Decline
    <3>2. /\ phase = "confirm" /\ phase' = "idle"
          /\ running' = Add!Extended /\ late' = late
      BY <1>1, <3>1 DEF Add!Post, Add!End
    <3> QED
      BY <1>1, <3>2, ExtendedAgrees
  <2>3. CASE UNCHANGED vars
    BY <1>1, <2>3 DEF vars, editorVars
  <2> QED
    BY <1>1, <2>1, <2>2, <2>3 DEF Next
<1>2. Typing /\ DraftKeepsRest /\ LatePostsAgree /\ [Next]_vars => [Posted]_vars
  BY <1>1
<1> QED
  BY <1>2, TypingInvariant, RestCorrect, LatePostsInvariant, PTL
     DEF Spec, NothingLostUnlessStale
===============================================================================
