---------------------------- MODULE NexthopConfig ----------------------------
(***************************************************************************)
(* The configuration of nexthop (internal/config/config.go): what a valid  *)
(* configuration is and the order in which its targets are considered.    *)
(*                                                                         *)
(* Strings are abstracted to what the program tells apart.  Empty is the  *)
(* empty (or blank) string.  ParseIP is net.ParseIP followed by To4: the  *)
(* IPv4 address a text denotes, or NoIP.  Format is net.IP.String: the    *)
(* canonical text of an address.  A text such as ::ffff:10.0.0.1 denotes  *)
(* an address and is not its canonical text.                              *)
(***************************************************************************)
EXTENDS Integers, Sequences, FiniteSets

CONSTANTS
    Empty,    \* the empty string
    Name,     \* the non-empty target names
    Device,   \* the non-empty names of network devices
    Text,     \* the texts that can stand where an address is expected
    IP,       \* the IPv4 addresses
    NoIP,     \* "not an IPv4 address"
    ParseIP,  \* Text -> IP or NoIP
    Format    \* IP -> Text

ASSUME AddressAssumption ==
    /\ Empty \in Text
    /\ Empty \notin Name \cup Device
    /\ NoIP \notin IP
    /\ ParseIP \in [Text -> IP \cup {NoIP}]
    /\ ParseIP[Empty] = NoIP
    /\ Format \in [IP -> Text]
    /\ \A a \in IP : ParseIP[Format[a]] = a

ProbeMethod == {"ping", "tcp", "udp", "http"}

Port == 1 .. 65535

\* url stands for "the url is not empty": no decision looks further into it.
Target == [name : Name \cup {Empty}, ip : Text, weight : Int,
           probe : ProbeMethod \cup {"other"}, port : Int, url : BOOLEAN]

Config == [interval : Int, timeout : Int, egress : Device \cup {Empty},
           rounds : Int, finalIP : Text, targets : Seq(Target)]

ValidTarget(t) ==
    /\ t.name # Empty
    /\ t.weight >= 0
    /\ t.probe \in ProbeMethod
    /\ t.probe # "http" => ParseIP[t.ip] # NoIP
    /\ t.probe \in {"tcp", "udp"} => t.port \in Port
    /\ t.probe = "http" => t.url

Names(c) == {c.targets[i].name : i \in DOMAIN c.targets}

Valid(c) ==
    /\ c.interval > 0
    /\ c.timeout > 0
    /\ c.timeout < c.interval
    /\ c.rounds >= 1
    /\ c.egress # Empty
    /\ ParseIP[c.finalIP] # NoIP
    /\ c.targets # <<>>
    /\ \A i \in DOMAIN c.targets : ValidTarget(c.targets[i])
    /\ \A i, j \in DOMAIN c.targets :
           c.targets[i].name = c.targets[j].name => i = j

TargetNamed(c, n) ==
    c.targets[CHOOSE i \in DOMAIN c.targets : c.targets[i].name = n]

-----------------------------------------------------------------------------
(***************************************************************************)
(* SortedTargets: weight descending, equal weights in file order           *)
(* (sort.SliceStable).  The k-th target is the one of rank k.              *)
(***************************************************************************)

\* A sort that is not stable: the later of two equal weights comes first.
PrecedesUnstable(ts, i, j) ==
    ts[i].weight > ts[j].weight \/ (ts[i].weight = ts[j].weight /\ i > j)

Precedes(ts, i, j) ==
    ts[i].weight > ts[j].weight \/ (ts[i].weight = ts[j].weight /\ i < j)

Rank(ts, i) == 1 + Cardinality({j \in DOMAIN ts : Precedes(ts, j, i)})

SortedTargets(ts) ==
    [k \in DOMAIN ts |-> ts[CHOOSE i \in DOMAIN ts : Rank(ts, i) = k]]
=============================================================================
