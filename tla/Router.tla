-------------------------------- MODULE Router --------------------------------
(***************************************************************************)
(* The route updater of the daemon (internal/router/router.go), one        *)
(* netlink request per step, on a routing table that others change too.   *)
(*                                                                         *)
(* The caller is the manager of internal/state: while it finds the default *)
(* route different from the wanted gateway it calls ReplaceDefault again,  *)
(* once per round.                                                         *)
(*                                                                         *)
(* The kernel's table is seen through its IPv4 default routes: at most one *)
(* per metric, the least metric in force.  Adding a route is exclusive     *)
(* (NLM_F_EXCL): it fails when its metric is taken.  Deleting one matches  *)
(* gateway and device, and the metric unless that is 0.                    *)
(***************************************************************************)
EXTENDS Integers, FiniteSetsExt

CONSTANTS
    IP,            \* gateways
    Device,        \* network devices
    Egress,        \* the egress_device of this Router
    Metric,        \* metrics default routes have
    ExternalHops,  \* what others route to
    NoHop,         \* no default route at a metric
    NoRoute,       \* CurrentDefault's nil
    NoGw,          \* a route with a device only
    NoDevice       \* what an index denotes whose device is gone

Hop == [gw : IP \cup {NoGw}, dev : Device]

\* A route as a call read it: its device may have gone since.
ListedHop == [gw : IP \cup {NoGw}, dev : Device \cup {NoDevice}]

ASSUME RouterAssumption ==
    /\ Egress \in Device
    /\ 0 \in Metric /\ Metric \subseteq Nat /\ IsFiniteSet(Metric)
    /\ ExternalHops \subseteq Hop
    /\ NoDevice \notin Device
    /\ NoHop \notin ListedHop /\ NoRoute \notin IP \cup {NoGw} /\ NoGw \notin IP

VARIABLES
    table,  \* metric -> hop of the kernel's default route, or NoHop
    link,   \* the egress device exists
    want,   \* the gateway the manager wants
    pc,     \* "idle", "list" (the link was found), or "change"
    index,  \* what the link index of the call denotes
    todo,   \* what RouteList returned and is still to be deleted
    err,    \* whether the last call ended in an error
    raced,  \* somebody else changed the table since the call began
    calm    \* nobody else touches table or link, no request fails, no target flips

vars == <<table, link, want, pc, index, todo, err, raced, calm>>

Used(t) == {m \in Metric : t[m] # NoHop}

Empty == [m \in Metric |-> NoHop]

\* The gateway traffic takes.
InForce(t) == IF Used(t) = {} THEN NoRoute ELSE t[Min(Used(t))].gw

\* The last of them instead of the first.
CurrentDefaultLast(t) ==
    LET gateways == {m \in Used(t) : t[m].gw # NoGw}
    IN  IF gateways = {} THEN NoRoute ELSE t[Max(gateways)].gw

\* CurrentDefault: the first route with a gateway in the kernel's order.
CurrentDefault(t) ==
    LET gateways == {m \in Used(t) : t[m].gw # NoGw}
    IN  IF gateways = {} THEN NoRoute ELSE t[Min(gateways)].gw

Init ==
    /\ table \in [Metric -> ExternalHops \cup {NoHop}]
    /\ link = TRUE
    /\ want \in IP
    /\ pc = "idle"
    /\ index = NoDevice
    /\ todo = Empty
    /\ err = FALSE
    /\ raced = FALSE
    /\ calm = FALSE

Return(failed) ==
    /\ pc' = "idle"
    /\ index' = NoDevice
    /\ todo' = Empty
    /\ err' = failed

\* The manager calls ReplaceDefault: the route is not the wanted one, or could
\* not be read, or a target flipped.  linkIndex comes first.
Begin(forced) ==
    /\ pc = "idle"
    /\ CurrentDefault(table) # want \/ (forced /\ ~calm)
    /\ raced' = FALSE
    /\ IF link
       THEN pc' = "list" /\ index' = Egress /\ UNCHANGED <<todo, err>>
       ELSE Return(TRUE)
    /\ UNCHANGED <<table, link, want, calm>>

\* RemoveDefault that looks for routes with a gateway only, as CurrentDefault does.
ListGateways ==
    /\ pc = "list"
    /\ pc' = "change"
    /\ todo' = [m \in Metric |->
                  IF table[m] # NoHop /\ table[m].gw # NoGw THEN table[m] ELSE NoHop]
    /\ UNCHANGED <<table, link, want, index, err, raced, calm>>

\* RemoveDefault reads the table.
List ==
    /\ pc = "list"
    /\ pc' = "change"
    /\ todo' = table
    /\ UNCHANGED <<table, link, want, index, err, raced, calm>>

\* The metrics of the routes that deleting hop at metric m would match.
Deletable(m, hop) == {k \in Metric : table[k] = hop /\ (m = 0 \/ k = m)}

\* RemoveDefault that stops after the first default route.
AfterDeleteFirst(m) == Empty

AfterDelete(m) == [todo EXCEPT ![m] = NoHop]

\* RemoveDefault deletes the next route of its list.
Delete ==
    /\ pc = "change"
    /\ Used(todo) # {}
    /\ LET m == Min(Used(todo))
           found == Deletable(m, todo[m])
       IN  IF found = {}
           THEN Return(TRUE) /\ UNCHANGED table
           ELSE /\ table' = [table EXCEPT ![Min(found)] = NoHop]
                /\ todo' = AfterDelete(m)
                /\ UNCHANGED <<pc, index, err>>
    /\ UNCHANGED <<link, want, raced, calm>>

\* A RouteAdd whose error is dropped.
AddUnreported ==
    /\ pc = "change"
    /\ Used(todo) = {}
    /\ Return(FALSE)
    /\ table' = IF index = Egress /\ table[0] = NoHop
                THEN [table EXCEPT ![0] = [gw |-> want, dev |-> Egress]]
                ELSE table
    /\ UNCHANGED <<link, want, raced, calm>>

\* An existing route at the metric is taken for success.
AddTolerant ==
    /\ pc = "change"
    /\ Used(todo) = {}
    /\ Return(FALSE)
    /\ table' = IF table[0] = NoHop
                THEN [table EXCEPT ![0] = [gw |-> want, dev |-> Egress]]
                ELSE table
    /\ UNCHANGED <<link, want, raced, calm>>

\* RouteAdd, at metric 0, over the device the call found at its beginning: one
\* that came back since has another index.
Add ==
    /\ pc = "change"
    /\ Used(todo) = {}
    /\ IF index = Egress /\ table[0] = NoHop
       THEN /\ table' = [table EXCEPT ![0] = [gw |-> want, dev |-> Egress]]
            /\ Return(FALSE)
       ELSE Return(TRUE) /\ UNCHANGED table
    /\ UNCHANGED <<link, want, raced, calm>>

\* A netlink request is refused for a reason of its own; or the process dies
\* between two requests and is started again: nothing but the table remains.
CallAborts ==
    /\ ~calm
    /\ pc # "idle"
    /\ Return(TRUE)
    /\ UNCHANGED <<table, link, want, raced, calm>>

-----------------------------------------------------------------------------
(***************************************************************************)
(* The environment.                                                        *)
(***************************************************************************)

ExternalAdd(m, hop) ==
    /\ ~calm
    /\ table[m] = NoHop
    /\ hop.dev = Egress => link
    /\ table' = [table EXCEPT ![m] = hop]
    /\ raced' = TRUE
    /\ UNCHANGED <<link, want, pc, index, todo, err, calm>>

ExternalDelete(m) ==
    /\ ~calm
    /\ table[m] # NoHop
    /\ table' = [table EXCEPT ![m] = NoHop]
    /\ raced' = TRUE
    /\ UNCHANGED <<link, want, pc, index, todo, err, calm>>

OverEgress(hop) == hop # NoHop /\ hop.dev = Egress

\* The device goes and takes its routes along.  Every index of it that a call
\* has read denotes nothing from then on.
LinkGoes ==
    /\ ~calm
    /\ link
    /\ link' = FALSE
    /\ table' = [m \in Metric |-> IF OverEgress(table[m]) THEN NoHop ELSE table[m]]
    /\ index' = NoDevice
    /\ todo' = [m \in Metric |->
                  IF OverEgress(todo[m])
                  THEN [gw |-> todo[m].gw, dev |-> NoDevice] ELSE todo[m]]
    /\ raced' = TRUE
    /\ UNCHANGED <<want, pc, err, calm>>

LinkComes ==
    /\ ~calm
    /\ ~link
    /\ link' = TRUE
    /\ UNCHANGED <<table, want, pc, index, todo, err, raced, calm>>

Decide(gw) ==
    /\ ~calm
    /\ pc = "idle"
    /\ want' = gw
    /\ UNCHANGED <<table, link, pc, index, todo, err, raced, calm>>

CalmDown ==
    /\ ~calm
    /\ link
    /\ calm' = TRUE
    /\ UNCHANGED <<table, link, want, pc, index, todo, err, raced>>

Environment ==
    \/ \E m \in Metric, hop \in ExternalHops : ExternalAdd(m, hop)
    \/ \E m \in Metric : ExternalDelete(m)
    \/ LinkGoes
    \/ LinkComes

Next ==
    \/ \E forced \in BOOLEAN : Begin(forced)
    \/ List
    \/ Delete
    \/ Add
    \/ CallAborts
    \/ Environment
    \/ \E gw \in IP : Decide(gw)
    \/ CalmDown

\* Rounds go on, and a call goes on to its end.
Fairness ==
    /\ WF_vars(Begin(FALSE))
    /\ WF_vars(List)
    /\ WF_vars(Delete)
    /\ WF_vars(Add)

Spec == Init /\ [][Next]_vars /\ Fairness

-----------------------------------------------------------------------------

Succeeds == pc = "change" /\ pc' = "idle" /\ ~err'

\* When ReplaceDefault returns nil the traffic takes the wanted gateway over
\* the egress device, whoever else added, deleted or replaced default routes
\* during the call (router.go 39-60).
SuccessInForce ==
    [][Succeeds => /\ InForce(table') = want
                   /\ table'[0].dev = Egress]_vars

\* When ReplaceDefault returns nil and nobody interfered, its route is the only
\* default route: no second one for the kernel to spread traffic over
\* (router.go 37-38).
SuccessAlone ==
    [][Succeeds /\ ~raced => Used(table') = {0}]_vars

\* ReplaceDefault never stands in its own way: once the device was found, a call
\* that nobody interferes with and of which no request is refused returns nil,
\* whatever default routes it met, those over a device alone and those that a
\* deletion at metric 0 cannot tell apart included (router.go 39-77).
CalmCallSucceeds ==
    [][calm /\ ~raced /\ pc # "idle" /\ pc' = "idle" => ~err']_vars

\* The updater the manager relies on: however a call ends, it has either put
\* the wanted gateway in force or reports an error, and outside of calls nothing
\* but the environment moves the route (state.go 16-23, 223-239).
Interface ==
    INSTANCE RouteUpdater
        WITH route <- InForce(table), busy <- pc # "idle", failed <- err

ImplementsInterface == Interface!Spec

\* Whatever others did to the table and the device, and whatever calls failed or
\* died in the middle: once that ends the route comes to stay at the wanted
\* gateway, unless a route over a device alone hides it, which CurrentDefault
\* does not see (router.go 79-90, state.go 192).
Converges ==
    <>calm => <>[](\/ InForce(table) = want
                   \/ InForce(table) = NoGw /\ CurrentDefault(table) = want)
===============================================================================
