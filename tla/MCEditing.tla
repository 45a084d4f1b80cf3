------------------------------ MODULE MCEditing ------------------------------
(* A small world for Editing: two names, one address, ping and tcp.         *)
EXTENDS Editing

CONSTANT x

MCText == {"", "10.0.0.1"}
MCParseIP == [t \in MCText |-> IF t = "" THEN NoIP ELSE x]
MCFormat == [a \in {x} |-> "10.0.0.1"]

\* The values that no prompt accepts (0 rounds, weight -1, "other") only have to
\* leave no trace; an interval of 1 is accepted and refused when it is saved.
MCTyped ==
    [interval |-> {1}, timeout |-> {2}, egress |-> {"", "eth0"},
     rounds |-> {0}, finalIP |-> {""},
     name |-> {"", "b"}, ip |-> {"10.0.0.1"}, weight |-> {-1, 100},
     probe |-> {"tcp", "other"}, port |-> {0, 443},
     url |-> {FALSE}]

MCAddTyped ==
    [name |-> {"", "b"}, ip |-> {"10.0.0.1"}, weight |-> {100},
     probe |-> {"tcp", "other"}, port |-> {0, 443}]

MCTarget(n) == [name |-> n, ip |-> "10.0.0.1", weight |-> 100, probe |-> "ping",
                port |-> 0, url |-> FALSE]

MCStored ==
    {[interval |-> 9, timeout |-> 2, egress |-> "eth0", rounds |-> 1,
      finalIP |-> "10.0.0.1", targets |-> <<MCTarget("a")>>]}
==============================================================================
