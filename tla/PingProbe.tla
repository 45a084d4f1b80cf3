------------------------------ MODULE PingProbe ------------------------------
(***************************************************************************)
(* The ping prober of one target (internal/probe/ping.go) on a network    *)
(* that delays, loses and duplicates echo replies.                        *)
(*                                                                         *)
(* The prober numbers its requests with a 32-bit counter; the wire carries *)
(* the low SeqMod of it (2^16).  A reload replaces the prober by one that  *)
(* counts from zero again, while the probe of the round in flight goes on  *)
(* with the old one.  The ICMP socket lives as long as the probe, hears    *)
(* every ICMP message of the host, and a process has one id for all of     *)
(* its probers.                                                            *)
(***************************************************************************)
EXTENDS Integers, FiniteSets

CONSTANTS
    SeqMod,    \* how many sequence numbers the wire tells apart
    Timeout,   \* probe_timeout, in ticks of the clock
    MaxSeq,    \* bound: requests one prober sends
    MaxProber, \* bound: probers a target has in the life of the daemon
    MaxNet     \* bound: replies under way at a time

ASSUME PingAssumption ==
    /\ SeqMod \in Nat \ {0}
    /\ Timeout \in Nat \ {0}
    /\ MaxSeq \in Nat /\ MaxProber \in Nat \ {0} /\ MaxNet \in Nat

VARIABLES
    prober,   \* which prober the next round will use
    seq,      \* the counter of that prober
    probe,    \* the request the probe in flight waits for
    left,     \* ticks until its read deadline
    ctxDone,  \* its context has been cancelled or has expired
    result,   \* "none" while it waits, then "ok" or "fail"
    net       \* the replies under way to this host

vars == <<prober, seq, probe, left, ctxDone, result, net>>

\* A request, and the reply to it: who asked and the full sequence number.
Request == [prober : 0 .. MaxProber, seq : 0 .. MaxSeq]

NoRequest == [prober |-> 0, seq |-> 0]

\* The sequence number that is read off the wire.
Wire(p) == p.seq % SeqMod

\* A loop that takes any reply of its target.
MatchesAny(p) == TRUE

\* Address and id are those of the target and the process; the numbers must
\* be equal, the full counter on one side and 16 bits on the other.
Matches(p) == Wire(p) = probe.seq

Waiting == result = "none" /\ probe # NoRequest

Init ==
    /\ prober = 1
    /\ seq = 0
    /\ probe = NoRequest
    /\ left = 0
    /\ ctxDone = FALSE
    /\ result = "none"
    /\ net = {}

\* The socket could not be opened or the request could not be sent; the
\* counter has moved in the second case.
SendFails(sent) ==
    /\ ~Waiting
    /\ seq < MaxSeq
    /\ seq' = IF sent THEN seq + 1 ELSE seq
    /\ result' = "fail"
    /\ UNCHANGED <<prober, probe, left, ctxDone, net>>

\* A new round's probe sends its request.  The target answers it or not.
Send(answered) ==
    /\ ~Waiting
    /\ seq < MaxSeq
    /\ seq' = seq + 1
    /\ probe' = [prober |-> prober, seq |-> seq + 1]
    /\ left' = Timeout
    /\ ctxDone' = FALSE
    /\ result' = "none"
    /\ answered => Cardinality(net) < MaxNet
    /\ net' = IF answered THEN net \cup {probe'} ELSE net
    /\ UNCHANGED prober

\* A deadline that starts again with each packet.
LeftAfterPacketReset == Timeout

\* One that each packet moves back.
LeftAfterPacketExtended == left + 1

\* The deadline is that of the probe, not of the last packet.
LeftAfterPacket == left

\* A packet reaches the socket before the deadline: p, or something else that
\* is not an echo reply of this process from the target.  The loop looks at its
\* context before the next read.  The network may deliver p again.
Receive(p) ==
    /\ Waiting
    /\ left > 0
    /\ result' = IF Matches(p) THEN "ok" ELSE IF ctxDone THEN "fail" ELSE "none"
    /\ left' = LeftAfterPacket
    /\ UNCHANGED <<prober, seq, probe, ctxDone, net>>

ReceiveOther ==
    /\ Waiting
    /\ left > 0
    /\ result' = IF ctxDone THEN "fail" ELSE "none"
    /\ left' = LeftAfterPacket
    /\ UNCHANGED <<prober, seq, probe, ctxDone, net>>

ReadTimesOut ==
    /\ Waiting
    /\ left = 0
    /\ result' = "fail"
    /\ UNCHANGED <<prober, seq, probe, left, ctxDone, net>>

\* The read fails before its deadline, for a reason of the socket's own.
ReadFails ==
    /\ Waiting
    /\ left > 0
    /\ result' = "fail"
    /\ UNCHANGED <<prober, seq, probe, left, ctxDone, net>>

Tick ==
    /\ Waiting
    /\ left > 0
    /\ left' = left - 1
    /\ UNCHANGED <<prober, seq, probe, ctxDone, result, net>>

ContextEnds ==
    /\ Waiting
    /\ ~ctxDone
    /\ ctxDone' = TRUE
    /\ UNCHANGED <<prober, seq, probe, left, result, net>>

\* A reply is lost, or arrives when no socket is open.
Lose(p) ==
    /\ net' = net \ {p}
    /\ UNCHANGED <<prober, seq, probe, left, ctxDone, result>>

\* Reload builds a new prober for the target.
NewProber ==
    /\ prober < MaxProber
    /\ prober' = prober + 1
    /\ seq' = 0
    /\ UNCHANGED <<probe, left, ctxDone, result, net>>

Next ==
    \/ \E sent \in BOOLEAN : SendFails(sent)
    \/ \E answered \in BOOLEAN : Send(answered)
    \/ \E p \in net : Receive(p)
    \/ ReceiveOther
    \/ ReadTimesOut
    \/ ReadFails
    \/ Tick
    \/ ContextEnds
    \/ \E p \in net : Lose(p)
    \/ NewProber

\* Time passes, and a read returns once its deadline is over.
Spec == Init /\ [][Next]_vars /\ WF_vars(Tick) /\ WF_vars(ReadTimesOut)

-----------------------------------------------------------------------------

\* Every variable has its type; no packet moves a deadline beyond the timeout.
TypeOK ==
    /\ prober \in 1 .. MaxProber
    /\ seq \in 0 .. MaxSeq
    /\ probe \in Request
    /\ left \in 0 .. Timeout
    /\ ctxDone \in BOOLEAN
    /\ result \in {"none", "ok", "fail"}
    /\ net \subseteq Request

\* A reply that comes after its round timed out is not taken for the answer of
\* a later round of the same prober, however late or often it comes.
LateReplyNotCredited ==
    [][\A p \in net : Receive(p) /\ p.prober = probe.prober /\ p # probe
          => result' # "ok"]_vars

\* Every probe returns, whatever else arrives at the socket: applyResults waits
\* for all of them (state.go 127).
ProbeReturns == Waiting ~> ~Waiting

\* An upstream whose echo reply comes in time is found reachable.
OwnReplyRecognised ==
    [][Waiting /\ probe \in net /\ Receive(probe) => result' = "ok"]_vars
=============================================================================
