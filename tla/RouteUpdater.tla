----------------------------- MODULE RouteUpdater -----------------------------
(***************************************************************************)
(* What the manager relies on when it uses a RouteUpdater (the interface   *)
(* at state.go 19-23): one gateway at a time, and a call that either ends  *)
(* with the wanted gateway in force or reports an error.                   *)
(***************************************************************************)
CONSTANTS
    IP,       \* the gateways
    NoRoute,  \* no default route
    NoGw      \* a default route over a device alone

VARIABLES
    route,    \* the gateway in force, or NoRoute, or NoGw
    want,     \* the gateway the manager wants
    busy,     \* a call is under way
    failed,   \* the last call reported an error
    calm      \* the environment is quiet from now on

vars == <<route, want, busy, failed, calm>>

Route == IP \cup {NoRoute, NoGw}

Init ==
    /\ route \in Route
    /\ want \in IP
    /\ busy = FALSE
    /\ failed = FALSE
    /\ calm = FALSE

Call ==
    /\ ~busy
    /\ busy' = TRUE
    /\ UNCHANGED <<route, want, failed, calm>>

\* The call returns nil: at that moment the wanted gateway is in force.
Done ==
    /\ busy
    /\ route' = want
    /\ busy' = FALSE
    /\ failed' = FALSE
    /\ UNCHANGED <<want, calm>>

\* The call returns an error (or the process dies in it), at once or later.
Fail ==
    /\ busy' = FALSE
    /\ failed' = TRUE
    /\ UNCHANGED <<route, want, calm>>

\* In a call the route in force is taken away; another one may be next.
Withdraw ==
    /\ busy
    /\ route # NoRoute
    /\ route' \in Route
    /\ UNCHANGED <<want, busy, failed, calm>>

Environment ==
    /\ ~calm
    /\ route' \in Route
    /\ UNCHANGED <<want, busy, failed, calm>>

\* Another gateway becomes the best one.
Decide ==
    /\ ~calm
    /\ ~busy
    /\ want' \in IP
    /\ UNCHANGED <<route, busy, failed, calm>>

CalmDown ==
    /\ ~calm
    /\ calm' = TRUE
    /\ UNCHANGED <<route, want, busy, failed>>

Next == Call \/ Done \/ Fail \/ Withdraw \/ Environment \/ Decide \/ CalmDown

Spec == Init /\ [][Next]_vars
===============================================================================
