--------------------------- MODULE UdpDeltaProofs ---------------------------
(***************************************************************************)
(* The sequence filter implements the abstract stream for any number of    *)
(* senders, processes and deltas, and drops a fresh delta only when other  *)
(* processes send as well.                                                 *)
(***************************************************************************)
EXTENDS UdpDelta, TLAPS

UdpInv == TypeOK /\ LastIsNewest

LEMMA UdpInit == Init => UdpInv
BY UdpDeltaAssumption
DEF Init, UdpInv, TypeOK, LastIsNewest, UdpDeltaAssumption, Processes

LEMMA UdpStep == UdpInv /\ [Next]_vars => UdpInv'
<1> SUFFICES ASSUME UdpInv, [Next]_vars PROVE UdpInv'
  OBVIOUS
<1> USE UdpDeltaAssumption DEF UdpInv, TypeOK, LastIsNewest
<1>1. ASSUME NEW s \in Senders, Capture(s) PROVE UdpInv'
  <2> DEFINE p == <<s, life[s]>>
  <2>1. p \in Processes /\ counter[p] \in Nat \ {0}
    BY DEF Processes
  <2>2. /\ counter' = [counter EXCEPT ![p] = counter[p] + 1]
        /\ network' \subseteq network \cup {[process |-> p, seq |-> counter[p]]}
        /\ UNCHANGED <<life, last_received_seq, shown, moves>>
    BY <1>1 DEF Capture
  <2>3. /\ counter' \in [Processes -> Nat \ {0}]
        /\ \A q \in Processes : counter[q] <= counter'[q]
        /\ counter[p] < counter'[p]
    BY <2>1, <2>2
  <2>4. [process |-> p, seq |-> counter[p]] \in Datagrams
    BY <2>1 DEF Datagrams
  <2>5. network' \subseteq Datagrams /\ \A d \in network' : d.seq < counter'[d.process]
    BY <2>2, <2>3, <2>4 DEF Datagrams
  <2> QED
    BY <2>2, <2>3, <2>5
<1>2. ASSUME NEW s \in Senders, RestartSender(s) PROVE UdpInv'
  <2>1. life[s] + 1 \in 1 .. MaxLives
    BY <1>2 DEF RestartSender, UdpDeltaAssumption
  <2> QED
    BY <1>2, <2>1 DEF RestartSender
<1>3. ASSUME NEW d \in network, Lose(d) \/ Drop(d) PROVE UdpInv'
  BY <1>3 DEF Lose, Drop, Arrives
<1>4. ASSUME NEW d \in network, Accept(d) PROVE UdpInv'
  <2>1. d.process \in Processes /\ d.seq \in Nat
    BY DEF Datagrams
  <2>2. /\ network' \subseteq network /\ last_received_seq < d.seq
        /\ last_received_seq' = d.seq
        /\ shown' = [shown EXCEPT ![d.process] = d.seq]
        /\ moves' = [moves EXCEPT ![d.process] = moves[d.process] + 1]
        /\ UNCHANGED <<life, counter>>
    BY <1>4 DEF Accept, Arrives
  <2>3. /\ shown' \in [Processes -> Nat] /\ moves' \in [Processes -> Nat]
        /\ \A p \in Processes : shown'[p] <= d.seq
        /\ shown'[d.process] = d.seq
    BY <2>1, <2>2
  <2> QED
    BY <2>1, <2>2, <2>3
<1>5. CASE RestartReceiver
  BY <1>5 DEF RestartReceiver
<1>6. CASE UNCHANGED vars
  BY <1>6 DEF vars
<1> QED
  BY <1>1, <1>2, <1>3, <1>4, <1>5, <1>6 DEF Next

\* The types; in particular a datagram carries a number its process gave out.
THEOREM UdpTyped == Spec => []TypeOK
<1>1. UdpInv => TypeOK
  BY DEF UdpInv
<1> QED
  BY <1>1, UdpInit, UdpStep, PTL DEF Spec

\* The one number the receiver keeps is the largest it has accepted.
THEOREM LastIsTheNewest == Spec => []LastIsNewest
<1>1. UdpInv => LastIsNewest
  BY DEF UdpInv
<1> QED
  BY <1>1, UdpInit, UdpStep, PTL DEF Spec

\* The filter implements the abstract stream of every process: each delta it
\* returns was captured, and later than all it returned before.
THEOREM UdpImplementsStream == Spec => StreamSpec
<1> DEFINE captured == [p \in Processes |-> counter[p] - 1]
<1>1. Init => Stream!Init
  BY DEF Init, Stream!Init
<1>2. UdpInv /\ [Next]_vars => [Stream!Next]_<<captured, shown, moves>>
  <2> SUFFICES ASSUME UdpInv, [Next]_vars
               PROVE  Stream!Next \/ UNCHANGED <<captured, shown, moves>>
    OBVIOUS
  <2> USE DEF UdpInv, TypeOK, LastIsNewest
  <2>1. ASSUME NEW s \in Senders, Capture(s) PROVE Stream!Next
    <3>1. PICK p \in Processes : p = <<s, life[s]>>
      BY DEF Processes
    <3>2. counter' = [counter EXCEPT ![p] = counter[p] + 1] /\ UNCHANGED <<shown, moves>>
      BY <2>1, <3>1 DEF Capture
    <3>3. captured' = [captured EXCEPT ![p] = captured[p] + 1]
      <4>1. counter[p] \in Nat /\ (counter[p] + 1) - 1 = (counter[p] - 1) + 1
        BY <3>1
      <4>2. \A q \in Processes : counter'[q] = IF q = p THEN counter[p] + 1 ELSE counter[q]
        BY <3>1, <3>2
      <4> QED
        BY <3>1, <4>1, <4>2
    <3>4. Stream!Capture(p)
      BY <3>2, <3>3 DEF Stream!Capture
    <3> QED
      BY <3>1, <3>4 DEF Stream!Next
  <2>2. ASSUME NEW d \in network, Accept(d) PROVE Stream!Next
    <3> DEFINE p == d.process
    <3>1. p \in Processes /\ d.seq \in Nat /\ shown[p] \in Nat /\ counter[p] \in Nat
      BY DEF Datagrams
    <3>2. shown[p] < d.seq /\ d.seq < counter[p]
      BY <2>2, <3>1 DEF Accept
    <3>3. d.seq \in (shown[p] + 1) .. captured[p]
      BY <3>1, <3>2
    <3>4. Stream!Show(p)
      BY <2>2, <3>3 DEF Accept, Stream!Show
    <3> QED
      BY <3>1, <3>4 DEF Stream!Next
  <2>3. CASE RestartReceiver
    BY <2>3 DEF RestartReceiver, Stream!Next, Stream!Forget
  <2>4. ASSUME NEW s \in Senders, RestartSender(s)
        PROVE  UNCHANGED <<captured, shown, moves>>
    BY <2>4 DEF RestartSender
  <2>5. ASSUME NEW d \in network, Lose(d) \/ Drop(d)
        PROVE  UNCHANGED <<captured, shown, moves>>
    BY <2>5 DEF Lose, Drop
  <2>6. CASE UNCHANGED vars
    BY <2>6 DEF vars
  <2> QED
    BY <2>1, <2>2, <2>3, <2>4, <2>5, <2>6 DEF Next
<1> QED
  BY <1>1, <1>2, UdpInit, UdpStep, PTL DEF Spec, StreamSpec, Stream!Spec

\* A fresh delta is only dropped in favour of another process's.
THEOREM FreshDropsAreExplained == Spec => FreshDropsExplained
<1> DEFINE Explained ==
        \A d \in network : Drop(d) /\ Fresh(d)
            => \E p \in Processes \ {d.process} : shown[p] >= d.seq
<1>1. UdpInv => Explained
  <2> SUFFICES ASSUME UdpInv, NEW d \in network, Drop(d), Fresh(d)
               PROVE  \E p \in Processes \ {d.process} : shown[p] >= d.seq
    OBVIOUS
  <2>1. /\ d.process \in Processes /\ d.seq \in Nat /\ d.seq <= last_received_seq
        /\ shown[d.process] \in Nat /\ shown[d.process] < d.seq
    BY DEF UdpInv, TypeOK, Datagrams, Drop, Fresh
  <2>2. PICK p \in Processes : shown[p] = last_received_seq
    BY <2>1 DEF UdpInv, LastIsNewest, TypeOK
  <2>3. shown[p] >= d.seq /\ p # d.process
    BY <2>1, <2>2 DEF UdpInv, TypeOK
  <2> QED
    BY <2>3
<1>2. UdpInv /\ [Next]_vars => [Explained]_vars
  BY <1>1
<1> QED
  BY <1>2, UdpInit, UdpStep, PTL DEF Spec, FreshDropsExplained

\* With one sender that never restarts, what the filter drops is stale.
COROLLARY OneProcessLosesNothingFresh ==
    ASSUME NEW s, Senders = {s}, MaxLives = 1
    PROVE  Spec => [][\A d \in network : Drop(d) => ~Fresh(d)]_vars
<1> DEFINE Stale == \A d \in network : Drop(d) => ~Fresh(d)
<1>1. UdpInv => Stale
  <2> SUFFICES ASSUME UdpInv, NEW d \in network, Drop(d) PROVE ~Fresh(d)
    OBVIOUS
  <2>1. /\ d.process \in Processes /\ d.seq \in Nat /\ d.seq <= last_received_seq
        /\ shown[d.process] \in Nat
    BY DEF UdpInv, TypeOK, Datagrams, Drop
  <2>2. \A p \in Processes : p = d.process
    BY <2>1 DEF Processes
  <2>3. d.seq <= shown[d.process]
    BY <2>1, <2>2 DEF UdpInv, LastIsNewest, TypeOK
  <2> QED
    BY <2>1, <2>3 DEF Fresh
<1>2. UdpInv /\ [Next]_vars => [Stale]_vars
  BY <1>1
<1> QED
  BY <1>2, UdpInit, UdpStep, PTL DEF Spec
=============================================================================
