----------------------------- MODULE RouterProofs -----------------------------
(***************************************************************************)
(* Proofs about Router: for any set of metrics, gateways and devices, and  *)
(* whatever others do to the table, a call that returns nil has put its    *)
(* route in force, and alone if nobody interfered; a call that nobody      *)
(* disturbs returns nil; and every call is one of the abstract updater.    *)
(***************************************************************************)
EXTENDS Router, WellFoundedInduction, TLAPS

\* A non-empty set of metrics has a least element, which Min returns.
LEMMA MinOfMetrics ==
    ASSUME NEW S \in SUBSET Metric, S # {}
    PROVE  Min(S) \in S /\ \A m \in S : Min(S) <= m
<1>1. S \subseteq Nat
  BY RouterAssumption
<1>2. PICK m \in S : \A k \in S : ~(<<k, m>> \in OpToRel(<, Nat))
  BY <1>1, NatLessThanWellFounded, WFMin
<1>3. \A k \in S : ~(k < m)
  BY <1>1, <1>2 DEF OpToRel
<1>4. \A k \in S : m <= k
  BY <1>1, <1>3
<1> QED
  BY <1>4 DEF Min

-----------------------------------------------------------------------------
(* Types.                                                                   *)

\* Every variable has its type, and no call works on the list of another one.
TypeOK ==
    /\ table \in [Metric -> Hop \cup {NoHop}]
    /\ link \in BOOLEAN
    /\ want \in IP
    /\ pc \in {"idle", "list", "change"}
    /\ index \in {Egress, NoDevice}
    /\ todo \in [Metric -> ListedHop \cup {NoHop}]
    /\ pc # "change" => todo = Empty
    /\ err \in BOOLEAN
    /\ raced \in BOOLEAN
    /\ calm \in BOOLEAN

LEMMA EmptyIsTable == Empty \in [Metric -> Hop \cup {NoHop}]
BY DEF Empty

LEMMA HopsCanBeListed == Hop \subseteq ListedHop /\ NoHop \notin Hop
BY RouterAssumption DEF Hop, ListedHop

\* Of a list that is not exhausted the route that is deleted next.
LEMMA NextOfList ==
    ASSUME NEW t \in [Metric -> ListedHop \cup {NoHop}], Used(t) # {}
    PROVE  Min(Used(t)) \in Metric /\ t[Min(Used(t))] # NoHop
<1>1. Used(t) \in SUBSET Metric
  BY DEF Used
<1> QED
  BY <1>1, MinOfMetrics DEF Used

\* A deletion removes one route that matches.
LEMMA DeletedIsUsed ==
    ASSUME NEW m, NEW hop, Deletable(m, hop) # {}
    PROVE  Min(Deletable(m, hop)) \in Deletable(m, hop)
<1>1. Deletable(m, hop) \in SUBSET Metric
  BY DEF Deletable
<1> QED
  BY <1>1, MinOfMetrics

\* The type invariant is inductive.
LEMMA TypeCorrect == Spec => []TypeOK
<1>1. Init => TypeOK
  BY RouterAssumption, EmptyIsTable, HopsCanBeListed DEF Init, TypeOK
<1>2. TypeOK /\ [Next]_vars => TypeOK'
  <2> SUFFICES ASSUME TypeOK, [Next]_vars
               PROVE  TypeOK'
    OBVIOUS
  <2> USE RouterAssumption, EmptyIsTable, HopsCanBeListed DEF TypeOK
  <2>1. CASE \E forced \in BOOLEAN : Begin(forced)
    BY <2>1 DEF Begin, Return
  <2>2. CASE List
    BY <2>2 DEF List
  <2>3. CASE Delete
    <3>1. Used(todo) # {} /\ pc = "change"
      BY <2>3 DEF Delete
    <3> DEFINE m == Min(Used(todo))
               found == Deletable(m, todo[m])
    <3>2. CASE found = {}
      BY <2>3, <3>2 DEF Delete, Return
    <3>3. CASE found # {}
      <4>1. /\ table' = [table EXCEPT ![Min(found)] = NoHop]
            /\ todo' = [todo EXCEPT ![m] = NoHop]
            /\ UNCHANGED <<pc, index, err, link, want, raced, calm>>
        BY <2>3, <3>3 DEF Delete, AfterDelete
      <4> QED
        BY <3>1, <4>1
    <3> QED
      BY <3>2, <3>3
  <2>4. CASE Add
    <3>1. [gw |-> want, dev |-> Egress] \in Hop
      BY DEF Hop
    <3> QED
      BY <2>4, <3>1 DEF Add, Return
  <2>5. CASE CallAborts
    BY <2>5 DEF CallAborts, Return
  <2>6. CASE Environment
    <3>1. ASSUME NEW m \in Metric, NEW hop \in ExternalHops, ExternalAdd(m, hop)
          PROVE  TypeOK'
      BY <3>1 DEF ExternalAdd
    <3>2. ASSUME NEW m \in Metric, ExternalDelete(m)
          PROVE  TypeOK'
      BY <3>2 DEF ExternalDelete
    <3>3. CASE LinkGoes
      <4>1. table' \in [Metric -> Hop \cup {NoHop}]
        BY <3>3 DEF LinkGoes
      <4>2. todo' \in [Metric -> ListedHop \cup {NoHop}]
        <5>1. ASSUME NEW m \in Metric, OverEgress(todo[m])
              PROVE  [gw |-> todo[m].gw, dev |-> NoDevice] \in ListedHop
          BY <5>1 DEF OverEgress, ListedHop
        <5> QED
          BY <3>3, <5>1 DEF LinkGoes
      <4>3. pc # "change" => todo' = Empty
        BY <3>3 DEF LinkGoes, Empty, OverEgress
      <4> QED
        BY <3>3, <4>1, <4>2, <4>3 DEF LinkGoes
    <3>4. CASE LinkComes
      BY <3>4 DEF LinkComes
    <3> QED
      BY <2>6, <3>1, <3>2, <3>3, <3>4 DEF Environment
  <2>7. CASE \E gw \in IP : Decide(gw)
    BY <2>7 DEF Decide
  <2>8. CASE CalmDown
    BY <2>8 DEF CalmDown
  <2>9. CASE UNCHANGED vars
    BY <2>9 DEF vars
  <2> QED
    BY <2>1, <2>2, <2>3, <2>4, <2>5, <2>6, <2>7, <2>8, <2>9 DEF Next
<1> QED
  BY <1>1, <1>2, PTL DEF Spec

-----------------------------------------------------------------------------
(* Success.                                                                 *)

\* Only Add can end a call without an error.
LEMMA OnlyAddSucceeds ==
    ASSUME TypeOK, Next, Succeeds
    PROVE  /\ Used(todo) = {} /\ table[0] = NoHop
           /\ table' = [table EXCEPT ![0] = [gw |-> want, dev |-> Egress]]
<1>1. CASE Add
  BY <1>1 DEF Add, Return, Succeeds
<1>2. CASE Delete
  BY <1>2 DEF Delete, Return, Succeeds
<1>3. CASE CallAborts
  BY <1>3 DEF CallAborts, Return, Succeeds
<1>4. CASE \/ \E forced \in BOOLEAN : Begin(forced)
           \/ List \/ Environment \/ CalmDown
           \/ \E gw \in IP : Decide(gw)
  BY <1>4 DEF Begin, List, Environment, ExternalAdd, ExternalDelete, LinkGoes,
              LinkComes, CalmDown, Decide, Succeeds
<1> QED
  BY <1>1, <1>2, <1>3, <1>4 DEF Next

\* A call that returns nil has its route in force, for any set of metrics and
\* any interference (Router.ReplaceDefault).
THEOREM SuccessCorrect == Spec => SuccessInForce
<1> DEFINE Good == Succeeds => InForce(table') = want /\ table'[0].dev = Egress
<1>1. TypeOK /\ TypeOK' /\ [Next]_vars => [Good]_vars
  <2> SUFFICES ASSUME TypeOK, TypeOK', Next, Succeeds
               PROVE  InForce(table') = want /\ table'[0].dev = Egress
    BY DEF vars, Succeeds
  <2>1. table' = [table EXCEPT ![0] = [gw |-> want, dev |-> Egress]]
    BY OnlyAddSucceeds
  <2>2. table'[0] = [gw |-> want, dev |-> Egress] /\ 0 \in Metric
    BY <2>1, RouterAssumption DEF TypeOK
  <2>3. table'[0] # NoHop
    BY <2>2, RouterAssumption, HopsCanBeListed DEF TypeOK, Hop
  <2>4. 0 \in Used(table') /\ Used(table') \in SUBSET Metric
    BY <2>2, <2>3 DEF Used
  <2>5. Min(Used(table')) \in Nat /\ Min(Used(table')) <= 0
    BY <2>4, MinOfMetrics, RouterAssumption
  <2>6. Min(Used(table')) = 0
    BY <2>5
  <2> QED
    BY <2>2, <2>4, <2>6 DEF InForce
<1> QED
  BY <1>1, TypeCorrect, PTL DEF Spec, SuccessInForce

\* While nobody interferes, the list of a call is what is left of the table.
ListMirrorsTable == pc = "change" /\ ~raced => table = todo

LEMMA ListMirrors == Spec => []ListMirrorsTable
<1>1. Init => ListMirrorsTable
  BY DEF Init, ListMirrorsTable
<1>2. TypeOK /\ ListMirrorsTable /\ [Next]_vars => ListMirrorsTable'
  <2> SUFFICES ASSUME TypeOK, ListMirrorsTable, [Next]_vars,
                      pc' = "change", ~raced'
               PROVE  table' = todo'
    BY DEF ListMirrorsTable
  <2>1. CASE Delete
    <3> DEFINE m == Min(Used(todo))
               found == Deletable(m, todo[m])
    <3>1. /\ table = todo /\ Used(todo) # {} /\ found # {}
          /\ table' = [table EXCEPT ![Min(found)] = NoHop]
          /\ todo' = [todo EXCEPT ![m] = NoHop]
      BY <2>1 DEF Delete, AfterDelete, Return, ListMirrorsTable
    <3>2. m \in Metric /\ m \in found
      BY <3>1, NextOfList DEF TypeOK, Deletable
    <3>3. found \in SUBSET Metric
      BY DEF Deletable
    <3>4. Min(found) \in found /\ Min(found) <= m
      BY <3>2, <3>3, MinOfMetrics
    <3>5. Min(found) = m
      <4>1. CASE m = 0
        <5>1. Min(found) \in Nat
          BY <3>3, <3>4, RouterAssumption
        <5> QED
          BY <4>1, <3>4, <5>1
      <4>2. CASE m # 0
        BY <4>2, <3>4 DEF Deletable
      <4> QED
        BY <4>1, <4>2
    <3> QED
      BY <3>1, <3>5
  <2>2. CASE List
    BY <2>2 DEF List
  <2>3. CASE Add \/ CallAborts \/ \E forced \in BOOLEAN : Begin(forced)
    BY <2>3 DEF Add, CallAborts, Begin, Return
  <2>4. CASE Environment
    BY <2>4 DEF Environment, ExternalAdd, ExternalDelete, LinkGoes, LinkComes,
                ListMirrorsTable
  <2>5. CASE CalmDown \/ \E gw \in IP : Decide(gw)
    BY <2>5 DEF CalmDown, Decide, ListMirrorsTable
  <2>6. CASE UNCHANGED vars
    BY <2>6 DEF vars, ListMirrorsTable
  <2> QED
    BY <2>1, <2>2, <2>3, <2>4, <2>5, <2>6 DEF Next
<1> QED
  BY <1>1, <1>2, TypeCorrect, PTL DEF Spec

\* A call that returns nil leaves its route as the only default route, unless
\* others changed the table during the call (Router.RemoveDefault).
THEOREM AloneCorrect == Spec => SuccessAlone
<1> DEFINE Good == Succeeds /\ ~raced => Used(table') = {0}
<1>1. TypeOK /\ ListMirrorsTable /\ [Next]_vars => [Good]_vars
  <2> SUFFICES ASSUME TypeOK, ListMirrorsTable, Next, Succeeds, ~raced
               PROVE  Used(table') = {0}
    BY DEF vars, Succeeds
  <2>1. /\ Used(todo) = {} /\ table = todo
        /\ table' = [table EXCEPT ![0] = [gw |-> want, dev |-> Egress]]
    BY OnlyAddSucceeds DEF ListMirrorsTable, Succeeds
  <2>2. [gw |-> want, dev |-> Egress] # NoHop /\ 0 \in Metric
    BY RouterAssumption, HopsCanBeListed DEF TypeOK, Hop
  <2> QED
    BY <2>1, <2>2 DEF Used, TypeOK
<1> QED
  BY <1>1, TypeCorrect, ListMirrors, PTL DEF Spec, SuccessAlone

\* While nobody interferes, a call that found the device keeps it.
LinkStays == pc # "idle" /\ ~raced => index = Egress

LEMMA LinkHeld == Spec => []LinkStays
<1>1. Init => LinkStays
  BY DEF Init, LinkStays
<1>2. LinkStays /\ [Next]_vars => LinkStays'
  BY DEF LinkStays, Next, vars, Begin, List, Delete, Add, CallAborts, Return,
         Environment, ExternalAdd, ExternalDelete, LinkGoes, LinkComes, Decide,
         CalmDown
<1> QED
  BY <1>1, <1>2, PTL DEF Spec

\* An undisturbed call of which no request is refused returns nil: its list is the
\* table, so each deletion finds its route, and metric 0 is free when it adds its
\* own (Router.ReplaceDefault, Router.RemoveDefault).
THEOREM CalmCallCorrect == Spec => CalmCallSucceeds
<1> DEFINE Good == calm /\ ~raced /\ pc # "idle" /\ pc' = "idle" => ~err'
<1>1. TypeOK /\ ListMirrorsTable /\ LinkStays /\ [Next]_vars => [Good]_vars
  <2> SUFFICES ASSUME TypeOK, ListMirrorsTable, LinkStays, Next,
                      calm, ~raced, pc # "idle", pc' = "idle"
               PROVE  ~err'
    BY DEF vars
  <2>1. CASE Delete
    <3>1. table = todo /\ Used(todo) # {}
      BY <2>1 DEF Delete, ListMirrorsTable
    <3>2. Min(Used(todo)) \in Metric
      BY <3>1, NextOfList DEF TypeOK
    <3>3. Min(Used(todo)) \in Deletable(Min(Used(todo)), todo[Min(Used(todo))])
      BY <3>1, <3>2 DEF Deletable
    <3>4. pc' = pc
      BY <2>1, <3>3 DEF Delete
    <3> QED
      BY <3>4
  <2>2. CASE Add
    <3>1. table = todo /\ Used(todo) = {} /\ index = Egress
      BY <2>2 DEF Add, ListMirrorsTable, LinkStays
    <3>2. table[0] = NoHop
      BY <3>1, RouterAssumption DEF Used
    <3> QED
      BY <2>2, <3>1, <3>2 DEF Add, Return
  <2>3. CASE CallAborts \/ Environment \/ CalmDown \/ \E gw \in IP : Decide(gw)
    BY <2>3 DEF CallAborts, Environment, ExternalAdd, ExternalDelete, LinkGoes,
                LinkComes, CalmDown, Decide
  <2>4. CASE List \/ \E forced \in BOOLEAN : Begin(forced)
    BY <2>4 DEF List, Begin
  <2> QED
    BY <2>1, <2>2, <2>3, <2>4 DEF Next
<1> QED
  BY <1>1, TypeCorrect, ListMirrors, LinkHeld, PTL DEF Spec, CalmCallSucceeds

-----------------------------------------------------------------------------
(* The interface.                                                           *)

\* What traffic takes is a gateway, a device alone, or nothing.
LEMMA InForceTyped ==
    ASSUME NEW t \in [Metric -> Hop \cup {NoHop}]
    PROVE  /\ InForce(t) \in Interface!Route
           /\ Used(t) # {} => InForce(t) # NoRoute
<1>1. CASE Used(t) = {}
  BY <1>1 DEF InForce, Interface!Route
<1>2. CASE Used(t) # {}
  <2>1. t[Min(Used(t))] \in Hop
    BY <1>2, NextOfList, HopsCanBeListed
  <2> QED
    BY <1>2, <2>1, RouterAssumption DEF InForce, Interface!Route, Hop
<1> QED
  BY <1>1, <1>2

\* A table with a route at metric 0 has that one in force.
LEMMA ZeroInForce ==
    ASSUME NEW t \in [Metric -> Hop \cup {NoHop}], t[0] # NoHop
    PROVE  InForce(t) = t[0].gw
<1>1. 0 \in Used(t) /\ Used(t) \in SUBSET Metric
  BY RouterAssumption DEF Used
<1>2. Min(Used(t)) \in Nat /\ Min(Used(t)) <= 0
  BY <1>1, MinOfMetrics, RouterAssumption
<1>3. Min(Used(t)) = 0
  BY <1>2
<1> QED
  BY <1>1, <1>3 DEF InForce

\* Every step of a call, and everything others do to the table, is a step of the
\* updater the manager relies on, or none: a call deletes routes only while it
\* is under way, ends without an error only with the wanted gateway in force,
\* and a failed one leaves the route as its deletions left it.
THEOREM ImplementsUpdater == Spec => ImplementsInterface
<1> USE DEF Interface!vars
<1>1. Init => Interface!Init
  <2> SUFFICES ASSUME Init
               PROVE  Interface!Init
    OBVIOUS
  <2>1. table \in [Metric -> Hop \cup {NoHop}]
    BY RouterAssumption DEF Init
  <2> QED
    BY <2>1, InForceTyped DEF Init, Interface!Init
<1>2. TypeOK /\ TypeOK' /\ [Next]_vars => [Interface!Next]_(Interface!vars)
  <2> SUFFICES ASSUME TypeOK, TypeOK', [Next]_vars
               PROVE  [Interface!Next]_(Interface!vars)
    OBVIOUS
  <2> USE DEF Interface!Next
  <2>1. InForce(table) \in Interface!Route /\ InForce(table') \in Interface!Route
    BY InForceTyped DEF TypeOK
  <2>2. CASE \E forced \in BOOLEAN : Begin(forced)
    BY <2>2 DEF Begin, Return, Interface!Call, Interface!Fail
  <2>3. CASE List
    BY <2>3 DEF List
  <2>4. CASE Delete
    <3> DEFINE found == Deletable(Min(Used(todo)), todo[Min(Used(todo))])
    <3>1. CASE found = {}
      BY <2>4, <3>1 DEF Delete, Return, Interface!Fail
    <3>2. CASE found # {}
      <4>1. Used(todo) # {} /\ todo \in [Metric -> ListedHop \cup {NoHop}]
        BY <2>4 DEF Delete, TypeOK
      <4>2. PICK k \in Metric : table[k] = todo[Min(Used(todo))]
        BY <3>2 DEF Deletable
      <4>3. k \in Used(table)
        BY <4>1, <4>2, NextOfList DEF Used
      <4>4. InForce(table) # NoRoute
        BY <4>3, InForceTyped DEF TypeOK
      <4> QED
        BY <2>1, <2>4, <3>2, <4>4 DEF Delete, Interface!Withdraw
    <3> QED
      BY <3>1, <3>2
  <2>5. CASE Add
    <3>1. CASE index = Egress /\ table[0] = NoHop
      <4>1. table'[0] = [gw |-> want, dev |-> Egress]
        BY <2>5, <3>1, RouterAssumption DEF Add, TypeOK
      <4>2. table'[0] # NoHop
        BY <4>1, RouterAssumption, HopsCanBeListed DEF TypeOK, Hop
      <4>3. InForce(table') = want
        BY <4>1, <4>2, ZeroInForce DEF TypeOK
      <4> QED
        BY <2>5, <3>1, <4>3 DEF Add, Return, Interface!Done
    <3>2. CASE ~(index = Egress /\ table[0] = NoHop)
      BY <2>5, <3>2 DEF Add, Return, Interface!Fail
    <3> QED
      BY <3>1, <3>2
  <2>6. CASE CallAborts
    BY <2>6 DEF CallAborts, Return, Interface!Fail
  <2>7. CASE Environment
    <3>1. /\ ~calm
          /\ UNCHANGED <<want, pc, err, calm>>
      BY <2>7 DEF Environment, ExternalAdd, ExternalDelete, LinkGoes, LinkComes
    <3> QED
      BY <2>1, <3>1 DEF Interface!Environment
  <2>8. CASE \E gw \in IP : Decide(gw)
    BY <2>8 DEF Decide, Interface!Decide
  <2>9. CASE CalmDown
    BY <2>9 DEF CalmDown, Interface!CalmDown
  <2>10. CASE UNCHANGED vars
    BY <2>10 DEF vars
  <2> QED
    BY <2>2, <2>3, <2>4, <2>5, <2>6, <2>7, <2>8, <2>9, <2>10 DEF Next
<1> QED
  BY <1>1, <1>2, TypeCorrect, PTL DEF Spec, ImplementsInterface, Interface!Spec
=============================================================================
