---------------------------- MODULE MCManagerLive ----------------------------
(* Recovery: two targets; a reload takes one away and moves the other.     *)
EXTENDS ManagerLive

CONSTANTS gwA, gwF

MCText == {"", "10.0.0.1", "10.0.0.254"}
MCIP == {gwA, gwF}
MCParseIP ==
    [x \in MCText |->
        CASE x = "" -> NoIP [] x = "10.0.0.1" -> gwA [] x = "10.0.0.254" -> gwF]
MCFormat ==
    [a \in MCIP |-> IF a = gwA THEN "10.0.0.1" ELSE "10.0.0.254"]

Ping(n, ip, w) == [name |-> n, ip |-> ip, weight |-> w, probe |-> "ping",
                   port |-> 0, url |-> FALSE]
Cfg(rounds, targets) ==
    [interval |-> 4, timeout |-> 1, egress |-> "eth0", rounds |-> rounds,
     finalIP |-> "10.0.0.254", targets |-> targets]

MCConfigs ==
    { Cfg(2, <<Ping("b", "10.0.0.254", 80), Ping("a", "10.0.0.1", 100)>>),
      Cfg(1, <<Ping("a", "10.0.0.254", 100)>>) }
=============================================================================
