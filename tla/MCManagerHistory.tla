--------------------------- MODULE MCManagerHistory ---------------------------
(* Debouncing across reloads: one address, so that the route adds little.  *)
EXTENDS ManagerHistory

CONSTANT gwA

MCText == {"", "10.0.0.1"}
MCIP == {gwA}
MCParseIP == [x \in MCText |-> IF x = "" THEN NoIP ELSE gwA]
MCFormat == [a \in MCIP |-> "10.0.0.1"]

Ping(n, w) == [name |-> n, ip |-> "10.0.0.1", weight |-> w, probe |-> "ping",
               port |-> 0, url |-> FALSE]
Cfg(rounds, targets) ==
    [interval |-> 4, timeout |-> 1, egress |-> "eth0", rounds |-> rounds,
     finalIP |-> "10.0.0.1", targets |-> targets]

\* stable_rounds goes up and down, b leaves and comes back.
MCConfigs ==
    { Cfg(3, <<Ping("a", 100), Ping("b", 80)>>),
      Cfg(2, <<Ping("a", 100), Ping("b", 80)>>),
      Cfg(1, <<Ping("a", 80)>>) }
===============================================================================
