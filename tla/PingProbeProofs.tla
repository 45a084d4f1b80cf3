---------------------------- MODULE PingProbeProofs ----------------------------
(***************************************************************************)
(* Proofs about PingProbe.  Of a prober no reply is under way to a request *)
(* later than the one its probe waits for; and the number of an earlier    *)
(* one, cut to what the wire carries, stays below.                         *)
(***************************************************************************)
EXTENDS PingProbe, TLAPS

\* Cutting a number to the width of the wire does not make it larger, and does
\* not change one that fits.
LEMMA WireBound ==
    ASSUME NEW n \in Nat
    PROVE  /\ n % SeqMod \in Nat /\ n % SeqMod <= n
           /\ n < SeqMod => n % SeqMod = n
BY PingAssumption, Z3

\* A prober has not sent a request beyond its counter, no reply answers a
\* request beyond it, and none answers a later request than the probe's.
Ordered ==
    /\ probe.prober <= prober
    /\ probe.prober = prober => probe.seq <= seq
    /\ \A p \in net : /\ p.prober <= prober
                      /\ p.prober = prober => p.seq <= seq
                      /\ p.prober = probe.prober => p.seq <= probe.seq

Inv == TypeOK /\ Ordered

LEMMA InitInv == Init => Inv
<1> SUFFICES ASSUME Init PROVE Inv
  OBVIOUS
<1>1. 0 \in 0 .. MaxProber /\ 0 \in 0 .. MaxSeq /\ 0 \in 0 .. Timeout
  BY PingAssumption
<1>2. probe = [prober |-> 0, seq |-> 0]
  BY DEF Init, NoRequest
<1>3. probe \in Request /\ probe.prober = 0 /\ probe.seq = 0
  BY <1>1, <1>2 DEF Request
<1>4. TypeOK
  <2>1. prober \in 1 .. MaxProber
    BY PingAssumption DEF Init
  <2>2. seq \in 0 .. MaxSeq /\ left \in 0 .. Timeout
    BY <1>1 DEF Init
  <2> QED
    BY <1>3, <2>1, <2>2 DEF Init, TypeOK
<1>5. Ordered
  BY <1>3 DEF Init, Ordered
<1> QED
  BY <1>4, <1>5 DEF Inv

\* Sending moves the counter, the probe and perhaps the network on together.
LEMMA SendInv ==
    ASSUME Inv, NEW answered \in BOOLEAN, Send(answered)
    PROVE  Inv'
<1>1. /\ seq \in 0 .. MaxSeq /\ prober \in 1 .. MaxProber /\ seq < MaxSeq
      /\ net \subseteq Request
  BY DEF Inv, TypeOK, Send
<1>2. /\ seq' = seq + 1 /\ prober' = prober
      /\ probe' = [prober |-> prober, seq |-> seq + 1]
      /\ left' = Timeout /\ ctxDone' = FALSE /\ result' = "none"
  BY DEF Send
<1>3. net' \subseteq net \cup {probe'}
  BY DEF Send
<1>4. probe' \in Request /\ probe'.prober = prober /\ probe'.seq = seq + 1
  <2>1. prober \in 0 .. MaxProber /\ seq + 1 \in 0 .. MaxSeq
    BY <1>1, PingAssumption
  <2>2. [prober |-> prober, seq |-> seq + 1] \in Request
    BY <2>1 DEF Request
  <2> QED
    BY <1>2, <2>2
<1>5. TypeOK'
  <2>1. net' \subseteq Request
    BY <1>1, <1>3, <1>4
  <2>2. seq' \in 0 .. MaxSeq /\ prober' \in 1 .. MaxProber
    BY <1>1, <1>2, PingAssumption
  <2>3. left' \in 0 .. Timeout
    BY <1>2, PingAssumption
  <2> QED
    BY <1>2, <1>4, <2>1, <2>2, <2>3 DEF TypeOK
<1>6. ASSUME NEW p \in net'
      PROVE  /\ p.prober <= prober'
             /\ p.prober = prober' => p.seq <= seq'
             /\ p.prober = probe'.prober => p.seq <= probe'.seq
  <2>1. CASE p = probe'
    BY <2>1, <1>1, <1>2, <1>4, PingAssumption
  <2>2. CASE p \in net
    <3>1. p.seq \in 0 .. MaxSeq /\ p.prober \in 0 .. MaxProber
      BY <2>2, <1>1 DEF Request
    <3>2. p.prober <= prober /\ (p.prober = prober => p.seq <= seq)
      BY <2>2 DEF Inv, Ordered
    <3> QED
      BY <3>1, <3>2, <1>1, <1>2, <1>4, PingAssumption
  <2> QED
    BY <2>1, <2>2, <1>3
<1>7. Ordered'
  BY <1>1, <1>2, <1>4, <1>6, PingAssumption DEF Ordered
<1> QED
  BY <1>5, <1>7 DEF Inv

\* A reload makes every request under way one of an earlier prober.
LEMMA NewProberInv ==
    ASSUME Inv, NewProber
    PROVE  Inv'
<1>1. /\ prober \in 1 .. MaxProber /\ prober < MaxProber
      /\ prober' = prober + 1 /\ seq' = 0
      /\ UNCHANGED <<probe, left, ctxDone, result, net>>
  BY DEF Inv, TypeOK, NewProber
<1>2. TypeOK'
  BY <1>1, PingAssumption DEF Inv, TypeOK
<1>3. probe \in Request /\ net \subseteq Request
  BY DEF Inv, TypeOK
<1>4. Ordered'
  BY <1>1, <1>3, PingAssumption DEF Inv, Ordered, Request
<1> QED
  BY <1>2, <1>4 DEF Inv

LEMMA NextInv == Inv /\ [Next]_vars => Inv'
<1> SUFFICES ASSUME Inv, [Next]_vars PROVE Inv'
  OBVIOUS
<1> USE PingAssumption DEF Inv, TypeOK, Ordered
<1>1. ASSUME NEW sent \in BOOLEAN, SendFails(sent) PROVE Inv'
  <2>1. seq' \in 0 .. MaxSeq /\ seq <= seq'
    BY <1>1 DEF SendFails
  <2>2. probe \in Request /\ net \subseteq Request
    OBVIOUS
  <2> QED
    BY <1>1, <2>1, <2>2 DEF SendFails, Request
<1>2. ASSUME NEW answered \in BOOLEAN, Send(answered) PROVE Inv'
  BY <1>2, SendInv
<1>3. ASSUME NEW p \in net, Receive(p) PROVE Inv'
  BY <1>3 DEF Receive, LeftAfterPacket
<1>4. CASE ReceiveOther
  BY <1>4 DEF ReceiveOther, LeftAfterPacket
<1>5. CASE ReadTimesOut
  BY <1>5 DEF ReadTimesOut
<1>6. CASE ReadFails
  BY <1>6 DEF ReadFails
<1>7. CASE Tick
  BY <1>7 DEF Tick
<1>8. CASE ContextEnds
  BY <1>8 DEF ContextEnds
<1>9. ASSUME NEW p \in net, Lose(p) PROVE Inv'
  BY <1>9 DEF Lose
<1>10. CASE NewProber
  BY <1>10, NewProberInv
<1>11. CASE UNCHANGED vars
  BY <1>11 DEF vars
<1> QED
  BY <1>1, <1>2, <1>3, <1>4, <1>5, <1>6, <1>7, <1>8, <1>9, <1>10, <1>11 DEF Next

LEMMA Invariance == Spec => []Inv
BY InitInv, NextInv, PTL DEF Spec

-----------------------------------------------------------------------------
(* The theorems.                                                           *)

\* Every variable has its type, and no stream of packets moves the deadline of
\* a probe beyond its timeout.
THEOREM TypeCorrect == Spec => []TypeOK
<1>1. Inv => TypeOK
  BY DEF Inv
<1> QED
  BY <1>1, Invariance, PTL

\* No reply to an earlier request of the same prober is credited to the probe
\* in flight, for any width of the wire and any number of requests: not even
\* after the counter has outgrown the wire.
THEOREM LateReplies == Spec => LateReplyNotCredited
<1> DEFINE Step == \A p \in net :
                      Receive(p) /\ p.prober = probe.prober /\ p # probe
                          => result' # "ok"
<1>1. Inv => Step
  <2> SUFFICES ASSUME Inv, NEW p \in net, Receive(p),
                      p.prober = probe.prober, p # probe
               PROVE  result' # "ok"
    OBVIOUS
  <2>1. p \in Request /\ probe \in Request
    BY DEF Inv, TypeOK
  <2>2. p.seq \in Nat /\ probe.seq \in Nat /\ p.seq # probe.seq
    BY <2>1, PingAssumption DEF Request
  <2>3. p.seq < probe.seq
    BY <2>2 DEF Inv, Ordered
  <2>4. p.seq % SeqMod # probe.seq
    BY <2>2, <2>3, WireBound
  <2> QED
    BY <2>4 DEF Receive, Matches, Wire
<1> QED
  BY <1>1, Invariance, PTL DEF LateReplyNotCredited

\* As long as the counter fits the wire, the reply to the probe's own request
\* is recognised whenever it comes in time.
THEOREM OwnReplies ==
    ASSUME MaxSeq < SeqMod
    PROVE  Spec => OwnReplyRecognised
<1> DEFINE Step == Waiting /\ probe \in net /\ Receive(probe) => result' = "ok"
<1>1. Inv => Step
  <2> SUFFICES ASSUME Inv, Receive(probe) PROVE result' = "ok"
    OBVIOUS
  <2>1. probe.seq \in Nat /\ probe.seq < SeqMod
    BY PingAssumption DEF Inv, TypeOK, Request
  <2>2. probe.seq % SeqMod = probe.seq
    BY <2>1, WireBound
  <2> QED
    BY <2>2 DEF Receive, Matches, Wire
<1> QED
  BY <1>1, Invariance, PTL DEF OwnReplyRecognised
================================================================================
