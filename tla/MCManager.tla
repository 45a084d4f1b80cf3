------------------------------ MODULE MCManager ------------------------------
(* A small world for Manager: two targets, four configurations.            *)
EXTENDS Manager

CONSTANTS gwA, gwB, gwF

MCText == {"", "10.0.0.1", "::ffff:10.0.0.1", "10.0.0.2", "10.0.0.254"}
MCIP == {gwA, gwB, gwF}
MCParseIP ==
    [x \in MCText |->
        CASE x = ""           -> NoIP
          [] x = "10.0.0.2"   -> gwB
          [] x = "10.0.0.254" -> gwF
          [] OTHER            -> gwA]
MCFormat ==
    [a \in MCIP |->
        CASE a = gwA -> "10.0.0.1" [] a = gwB -> "10.0.0.2"
          [] a = gwF -> "10.0.0.254"]

Ping(n, ip, w) == [name |-> n, ip |-> ip, weight |-> w, probe |-> "ping",
                   port |-> 0, url |-> FALSE]
Http(n, ip, w) == [name |-> n, ip |-> ip, weight |-> w, probe |-> "http",
                   port |-> 0, url |-> TRUE]
Cfg(interval, rounds, targets) ==
    [interval |-> interval, timeout |-> 1, egress |-> "eth0",
     rounds |-> rounds, finalIP |-> "10.0.0.254", targets |-> targets]

\* Two targets of equal weight; one gone and stable_rounds lowered; another
\* target under the same name with a spelling that is not canonical.
AddressedConfigs ==
    { Cfg(8, 3, <<Ping("a", "10.0.0.1", 100), Ping("b", "10.0.0.2", 100)>>),
      Cfg(8, 2, <<Ping("b", "10.0.0.2", 80), Ping("a", "10.0.0.1", 100)>>),
      Cfg(4, 1, <<Ping("b", "::ffff:10.0.0.1", 0)>>) }

\* The last target of example.yaml: http with an url and no ip.  The interval
\* is below the floor of the adaptive one.
ExampleConfig ==
    Cfg(2, 2, <<Ping("a", "10.0.0.1", 80), Http("b", "", 100)>>)

MCConfigs == AddressedConfigs \cup {ExampleConfig}
=============================================================================
