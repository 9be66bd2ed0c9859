------------------------------ MODULE UdpDelta ------------------------------
(***************************************************************************)
(* The UDP stream of mouse deltas: UdpDeltaTransport of                    *)
(* kvm-net/src/transport.rs, and the SEQ_COUNTER of the input capturers.   *)
(*                                                                         *)
(* Every captured mouse move takes a number from its process's counter;    *)
(* some are sent (those captured while a remote machine is controlled and  *)
(* not lost in a full queue).  Datagrams are lost, duplicated and          *)
(* reordered.  The receiver compares a number with the last one it         *)
(* accepted, whichever process that came from.  Machines may restart: a    *)
(* new process has a counter of its own.                                   *)
(***************************************************************************)
EXTENDS Naturals

CONSTANTS
    Senders,    \* the machines that send deltas to this receiver
    MaxLives,   \* how many processes a sender may run, one after the other
    MaxSeq      \* bound on each counter, for TLC

ASSUME UdpDeltaAssumption == MaxLives \in Nat \ {0} /\ MaxSeq \in Nat

Processes == Senders \X (1 .. MaxLives)

VARIABLES
    life,               \* [Senders -> 1 .. MaxLives], the current process
    counter,            \* [Processes -> Nat], its SEQ_COUNTER
    network,            \* the datagrams that may still arrive
    last_received_seq,  \* of the receiver's transport
    shown,              \* history: the last number accepted from each process
    moves               \* history: how many deltas of each process were accepted

vars == <<life, counter, network, last_received_seq, shown, moves>>

Datagrams == [process : Processes, seq : Nat]

\* Variant: the number after the one that was taken is sent.
CaptureNext(s) ==
    LET p == <<s, life[s]>> IN
    /\ counter[p] <= MaxSeq
    /\ counter' = [counter EXCEPT ![p] = @ + 1]
    /\ \/ network' = network \cup {[process |-> p, seq |-> counter[p] + 1]}
       \/ network' = network
    /\ UNCHANGED <<life, last_received_seq, shown, moves>>

\* A captured mouse move takes the next number, and is sent or not.
Capture(s) ==
    LET p == <<s, life[s]>> IN
    /\ counter[p] <= MaxSeq
    /\ counter' = [counter EXCEPT ![p] = @ + 1]
    /\ \/ network' = network \cup {[process |-> p, seq |-> counter[p]]}
       \/ network' = network
    /\ UNCHANGED <<life, last_received_seq, shown, moves>>

Lose(d) ==
    /\ network' = network \ {d}
    /\ UNCHANGED <<life, counter, last_received_seq, shown, moves>>

\* A datagram that arrives may arrive again.
Arrives(d) == network' = network \/ network' = network \ {d}

\* Variant: a test that lets the last delta through again.
AcceptEqual(d) ==
    /\ d.seq >= last_received_seq
    /\ Arrives(d)
    /\ last_received_seq' = d.seq
    /\ shown' = [shown EXCEPT ![d.process] = d.seq]
    /\ moves' = [moves EXCEPT ![d.process] = @ + 1]
    /\ UNCHANGED <<life, counter>>

\* Variant: the number that is expected next is kept.
AcceptExpecting(d) ==
    /\ d.seq > last_received_seq
    /\ Arrives(d)
    /\ last_received_seq' = d.seq + 1
    /\ shown' = [shown EXCEPT ![d.process] = d.seq]
    /\ moves' = [moves EXCEPT ![d.process] = @ + 1]
    /\ UNCHANGED <<life, counter>>

\* recv_delta returns Some(delta).
Accept(d) ==
    /\ d.seq > last_received_seq
    /\ Arrives(d)
    /\ last_received_seq' = d.seq
    /\ shown' = [shown EXCEPT ![d.process] = d.seq]
    /\ moves' = [moves EXCEPT ![d.process] = @ + 1]
    /\ UNCHANGED <<life, counter>>

\* Variant: a dropped datagram is remembered as if it were the last one.
DropRemembers(d) ==
    /\ d.seq <= last_received_seq
    /\ Arrives(d)
    /\ last_received_seq' = d.seq
    /\ UNCHANGED <<life, counter, shown, moves>>

\* recv_delta returns None: the datagram is taken for a stale one.
Drop(d) ==
    /\ d.seq <= last_received_seq
    /\ Arrives(d)
    /\ UNCHANGED <<life, counter, last_received_seq, shown, moves>>

\* A sender's process ends and another one starts.
RestartSender(s) ==
    /\ life[s] < MaxLives
    /\ life' = [life EXCEPT ![s] = @ + 1]
    /\ UNCHANGED <<counter, network, last_received_seq, shown, moves>>

\* The receiver's process starts again and binds a new transport.
RestartReceiver ==
    /\ last_received_seq' = 0
    /\ shown' = [p \in Processes |-> 0]
    /\ moves' = [p \in Processes |-> 0]
    /\ UNCHANGED <<life, counter, network>>

Init ==
    /\ life = [s \in Senders |-> 1]
    /\ counter = [p \in Processes |-> 1]
    /\ network = {}
    /\ last_received_seq = 0
    /\ shown = [p \in Processes |-> 0]
    /\ moves = [p \in Processes |-> 0]

Next ==
    \/ \E s \in Senders : Capture(s) \/ RestartSender(s)
    \/ \E d \in network : Lose(d) \/ Accept(d) \/ Drop(d)
    \/ RestartReceiver

Spec == Init /\ [][Next]_vars

-----------------------------------------------------------------------------
(* Properties.                                                              *)

\* Every variable has its type, and no datagram a number that its process has
\* not given out.
TypeOK ==
    /\ life \in [Senders -> 1 .. MaxLives]
    /\ counter \in [Processes -> Nat \ {0}]
    /\ network \subseteq Datagrams
    /\ \A d \in network : d.seq < counter[d.process]
    /\ last_received_seq \in Nat
    /\ shown \in [Processes -> Nat] /\ moves \in [Processes -> Nat]

\* The one number the receiver keeps is the largest of all it has accepted.
LastIsNewest ==
    /\ \A p \in Processes : shown[p] <= last_received_seq
    /\ last_received_seq = 0 \/ \E p \in Processes : shown[p] = last_received_seq

\* The filter implements the abstract stream for every process at once: no
\* delta moves the cursor twice or after a later one of the same process,
\* whatever the network repeats and reorders, and whichever sender restarts.  A
\* receiver that restarts has seen nothing, and begins anew.
Stream == INSTANCE DeltaStream
              WITH captured <- [p \in Processes |-> counter[p] - 1]
StreamSpec == Stream!Spec

\* A datagram of the sender's latest process heard so far, and later than
\* everything accepted from that process.
Fresh(d) ==
    /\ shown[d.process] < d.seq
    /\ \A p \in Processes : p[1] = d.process[1] /\ p[2] > d.process[2] => shown[p] = 0

\* The code's comment says that what is dropped is out of order or stale.  That is
\* not so when processes share the receiver: a fresh delta is dropped as well, but
\* only because another process (an earlier life of the sender, or another
\* sender) has had a number accepted that is at least as high.
FreshDropsExplained ==
    [][\A d \in network : Drop(d) /\ Fresh(d)
          => \E p \in Processes \ {d.process} : shown[p] >= d.seq]_vars
=============================================================================
