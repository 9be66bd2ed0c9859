------------------------------- MODULE Session -------------------------------
(***************************************************************************)
(* Several kvm-daemon processes together: their session states, the event  *)
(* queue and sender task of each, their TCP connections and the UDP        *)
(* stream, and the inputs of their users.                                  *)
(*                                                                         *)
(* Daemon models one process lock by lock; here a handler is one step, and *)
(* that a lock of another task is in the way of the hook's try_lock is a   *)
(* choice the hook's step makes.  Two tasks keep the two steps between     *)
(* which they hold no lock: the sender (target, then connection) and the   *)
(* UDP receiver (state, then injector).  A connection's channel, its       *)
(* socket and the far end's buffers are one bounded sequence per direction.*)
(*                                                                         *)
(* An injected input is an input to the operating system like any other:   *)
(* where a hook is installed it goes through the hook of the machine it    *)
(* was injected into, before the applications see it.                      *)
(***************************************************************************)
EXTENDS Naturals, Sequences, SessionState

CONSTANTS
    Machines,
    Neighbors,   \* [Machines -> SUBSET Machines], --right-peer and --left-peer
    Hooked,      \* the machines whose input capture could be started
    Conns,       \* the TCP connections there ever are
    Dialer,      \* [Conns -> Machines], who was started with --connect-peer
    Listener,    \* [Conns -> Machines], and to whom
    EventCap,    \* capacity of the captured-event queue
    WireCap,     \* packets one direction of a connection can hold
    MaxInputs    \* [Machines -> Nat], bound on each user's inputs, for TLC

RemotePeerLabel == "remote-peer"

ASSUME SessionAssumption ==
    /\ None \notin Machines \cup Conns /\ RemotePeerLabel \notin Machines
    /\ Neighbors \in [Machines -> SUBSET Machines] /\ Hooked \subseteq Machines
    /\ Dialer \in [Conns -> Machines] /\ Listener \in [Conns -> Machines]
    /\ \A c \in Conns : Dialer[c] # Listener[c]
    /\ EventCap \in Nat \ {0} /\ WireCap \in Nat \ {0} 
    /\ MaxInputs \in [Machines -> Nat]

Kinds == {"move", "key"}
\* An input, and whether it was captured on a machine it was injected into.
Inputs == [from : Machines, n : Nat, kind : Kinds, relayed : BOOLEAN]
\* A captured input; moves carry the number the capturer gave them.
Events == [input : Inputs, seq : Nat]

\* The two ends of a connection, named by the connection and the machine.
Ends == {<<c, Dialer[c]>> : c \in Conns} \cup {<<c, Listener[c]>> : c \in Conns}
Far(c, m) == IF m = Dialer[c] THEN Listener[c] ELSE Dialer[c]

VARIABLES
    session,    \* [Machines -> SessionStates]
    pressed,    \* [Machines -> Nat], the inputs its user has made
    seq,        \* [Machines -> Nat], SEQ_COUNTER
    queue,      \* [Machines -> Seq(Events)], the captured-event channel
    sending,    \* [Machines -> what the sender task holds: event and target]
    peers,      \* [Machines -> [Machines -> Conns or None]], active_peers
    link,       \* [Conns -> "unopened", "up" or "lost"]
    reader,     \* [Ends -> "unopened", "new", "registered" or "dead"]
    wire,       \* [Ends -> Seq(packets)], sent by that end, not yet handled
    network,    \* the datagrams that may still arrive
    last,       \* [Machines -> Nat], last_received_seq
    injecting,  \* [Machines -> Inputs or None], the UDP receiver's next move
    acted,      \* history: [Machines -> Seq(Inputs)], what its applications saw
    missed      \* history: an EnterScreen did not get to the target's reader

control == <<session, pressed, seq, acted>>
links   == <<peers, link, reader>>
streams == <<queue, sending, network, last, injecting>>
vars == <<control, links, streams, wire, missed>>

-----------------------------------------------------------------------------
(* Packets.                                                                 *)

Packet(type) == [type |-> type, input |-> None]
InputPacket(i) == [type |-> "Input", input |-> i]

Connected(m) == {peers[m][n] : n \in Machines} \ {None}
Lookup(m, id) == IF id \in Machines THEN peers[m][id] ELSE None

Room(c, m) == link[c] = "up" /\ Len(wire[<<c, m>>]) < WireCap
\* An awaited send ends when there is room or nobody to send to any more.
SendEnds(c, m) == link[c] = "lost" \/ Room(c, m)

\* Variant: channels without a bound.
OfferUnbounded(w, m, cs, packet) ==
    [e \in Ends |-> IF e[2] = m /\ e[1] \in cs /\ link[e[1]] = "up"
                       THEN Append(w[e], packet) ELSE w[e]]

\* The wires w after machine m offered the packet to the connections of cs.
Offer(w, m, cs, packet) ==
    [e \in Ends |-> IF e[2] = m /\ e[1] \in cs /\ Room(e[1], m)
                       THEN Append(w[e], packet) ELSE w[e]]

-----------------------------------------------------------------------------
(* The hook of machine m is called with an input; w are the wires so far.   *)

Acts(m, i) == acted' = [acted EXCEPT ![m] = Append(@, i)]

\* It returns false without a change: the state is locked, or the machine is
\* LocalActive and the pointer at no edge with a neighbor.
HookPass(m, i, w) ==
    /\ Acts(m, i)
    /\ wire' = w
    /\ UNCHANGED <<session, queue, missed>>

Captured(m, i) ==
    [input |-> [i EXCEPT !.relayed = @ \/ i.from # m],
     seq |-> IF i.kind = "move" THEN seq[m] ELSE 0]

\* Variant: the input is forwarded and not swallowed.
HookForwardNoSwallow(m, i, w) ==
    /\ IsControllingRemote(session[m])
    /\ queue' = [queue EXCEPT ![m] = IF Len(@) < EventCap
                                        THEN Append(@, Captured(m, i)) ELSE @]
    /\ Acts(m, i)
    /\ wire' = w
    /\ UNCHANGED <<session, missed>>

HookForward(m, i, w) ==
    /\ IsControllingRemote(session[m])
    /\ queue' = [queue EXCEPT ![m] = IF Len(@) < EventCap
                                        THEN Append(@, Captured(m, i)) ELSE @]
    /\ wire' = w
    /\ UNCHANGED <<session, acted, missed>>

HookPreempt(m, i, w) ==
    /\ IsRemoteControlled(session[m])
    /\ session' = [session EXCEPT ![m] = handle_physical_input_detected(@)]
    /\ Acts(m, i)
    /\ wire' = Offer(w, m, {Lookup(m, session[m].peer)}, Packet("PreemptTakeover"))
    /\ UNCHANGED <<queue, missed>>

\* The move that jumps is swallowed; the target is told if the peer map is not
\* locked by another task and its channel has room.
HookJump(m, i, w) ==
    /\ IsLocalActive(session[m]) /\ i.kind = "move"
    /\ \E n \in Neighbors[m] :
          /\ session' = [session EXCEPT ![m] = start_controlling_remote(n)]
          /\ \/ wire' = Offer(w, m, {Lookup(m, n)}, Packet("EnterScreen"))
             \/ wire' = w
    /\ missed' = (missed \/ wire' = w)
    /\ UNCHANGED <<queue, acted>>

\* A capturer numbers a move before it calls the hook.
HookCall(m, i, w) ==
    /\ seq' = [seq EXCEPT ![m] = IF i.kind = "move" THEN @ + 1 ELSE @]
    /\ \/ HookPass(m, i, w)
       \/ HookForward(m, i, w)
       \/ HookPreempt(m, i, w)
       \/ HookJump(m, i, w)

\* inject_event on machine m.  One step has what is two on macOS, where the post
\* returns before the system calls the hook for it; no property here tells an
\* input that was posted from one that is still on its way.
Inject(m, i, w) ==
    IF m \in Hooked THEN HookCall(m, i, w)
    ELSE HookPass(m, i, w) /\ UNCHANGED seq

-----------------------------------------------------------------------------
(* The users.                                                               *)

Press(m, kind) ==
    /\ m \in Hooked /\ pressed[m] < MaxInputs[m]
    /\ pressed' = [pressed EXCEPT ![m] = @ + 1]
    /\ HookCall(m, [from |-> m, n |-> pressed[m] + 1, kind |-> kind, relayed |-> FALSE],
                wire)
    /\ UNCHANGED <<links, sending, network, last, injecting>>

\* A breakout hotkey; one that finds the state locked is in module Daemon.
Breakout(m) ==
    /\ m \in Hooked
    /\ session' = [session EXCEPT ![m] = return_to_local(@)]
    /\ \/ wire' = Offer(wire, m, Connected(m), Packet("LeaveScreen"))
       \/ wire' = wire
    /\ UNCHANGED <<pressed, seq, acted, links, streams, missed>>

-----------------------------------------------------------------------------
(* The sender task of machine m.                                            *)

\* Variant: a task of its own for every captured event.
SenderReadAny(m) ==
    /\ sending[m] = None
    /\ \E k \in DOMAIN queue[m] :
          /\ queue' = [queue EXCEPT ![m] = [j \in 1 .. Len(@) - 1 |-> IF j < k THEN @[j] ELSE @[j + 1]]]
          /\ sending' = [sending EXCEPT ![m] =
                IF IsControllingRemote(session[m])
                   THEN [event |-> queue[m][k], target |-> session[m].peer] ELSE None]
    /\ UNCHANGED <<control, links, network, last, injecting, wire, missed>>

\* The next event goes to whoever is the target now, or is forgotten.
SenderRead(m) ==
    /\ sending[m] = None /\ queue[m] # <<>>
    /\ queue' = [queue EXCEPT ![m] = Tail(@)]
    /\ sending' = [sending EXCEPT ![m] =
          IF IsControllingRemote(session[m])
             THEN [event |-> Head(queue[m]), target |-> session[m].peer] ELSE None]
    /\ UNCHANGED <<control, links, network, last, injecting, wire, missed>>

\* It leaves by the target's connection, or else by any other.
SenderSend(m) ==
    /\ sending[m] # None
    /\ LET event == sending[m].event
           chosen == IF Lookup(m, sending[m].target) # None
                        THEN {Lookup(m, sending[m].target)} ELSE Connected(m)
       IN  \/ /\ chosen = {}
              /\ UNCHANGED <<network, wire>>
           \/ /\ event.input.kind = "move"
              /\ \E c \in chosen :
                    network' = network \cup {[to |-> Far(c, m), event |-> event]}
              /\ UNCHANGED wire
           \/ /\ event.input.kind = "key"
              /\ \E c \in chosen :
                    /\ SendEnds(c, m)
                    /\ wire' = Offer(wire, m, {c}, InputPacket(event.input))
              /\ UNCHANGED network
    /\ sending' = [sending EXCEPT ![m] = None]
    /\ UNCHANGED <<control, links, queue, last, injecting, missed>>

-----------------------------------------------------------------------------
(* The UDP stream.                                                          *)

\* A datagram is lost on the way, or dropped by the filter as a stale one.
UdpLose(d) ==
    /\ network' = network \ {d}
    /\ UNCHANGED <<control, links, queue, sending, last, injecting, wire, missed>>

\* Variant: a filter that lets the last delta through again.
UdpReceiveEqual(m, d) ==
    /\ d.to = m /\ injecting[m] = None
    /\ d.event.seq >= last[m]
    /\ last' = [last EXCEPT ![m] = d.event.seq]
    /\ injecting' = IF IsRemoteControlled(session[m])
                       THEN [injecting EXCEPT ![m] = d.event.input] ELSE injecting
    /\ UNCHANGED <<control, links, queue, sending, network, wire, missed>>

\* A delta the filter lets through is injected if the machine is controlled
\* at this point; until it is lost, the datagram may arrive once more.
UdpReceive(m, d) ==
    /\ d.to = m /\ injecting[m] = None
    /\ d.event.seq > last[m]
    /\ last' = [last EXCEPT ![m] = d.event.seq]
    /\ injecting' = IF IsRemoteControlled(session[m])
                       THEN [injecting EXCEPT ![m] = d.event.input] ELSE injecting
    /\ UNCHANGED <<control, links, queue, sending, network, wire, missed>>

UdpInject(m) ==
    /\ injecting[m] # None
    /\ Inject(m, injecting[m], wire)
    /\ injecting' = [injecting EXCEPT ![m] = None]
    /\ UNCHANGED <<pressed, links, sending, network, last>>

-----------------------------------------------------------------------------
(* The connections.                                                         *)

\* handle_peer_connection starts at both ends, each with its handshake.
Open(c) ==
    /\ link[c] = "unopened"
    /\ link' = [link EXCEPT ![c] = "up"]
    /\ reader' = [e \in Ends |-> IF e[1] = c THEN "new" ELSE reader[e]]
    /\ wire' = [e \in Ends |-> IF e[1] = c THEN <<Packet("Handshake")>> ELSE wire[e]]
    /\ UNCHANGED <<control, peers, streams, missed>>

Break(c) ==
    /\ link[c] = "up"
    /\ link' = [link EXCEPT ![c] = "lost"]
    /\ UNCHANGED <<control, peers, reader, streams, wire, missed>>

\* recv_packet fails: what was still on its way to this end is lost with it.
ReaderError(c, m) ==
    /\ link[c] = "lost" /\ reader[<<c, m>>] # "dead"
    /\ reader' = [reader EXCEPT ![<<c, m>>] = "dead"]
    /\ peers' = IF reader[<<c, m>>] = "registered"
                   THEN [peers EXCEPT ![m][Far(c, m)] = None] ELSE peers
    /\ wire' = [wire EXCEPT ![<<c, Far(c, m)>>] = <<>>]
    /\ missed' = (missed \/ \E k \in DOMAIN wire[<<c, Far(c, m)>>] :
                               wire[<<c, Far(c, m)>>][k].type = "EnterScreen")
    /\ UNCHANGED <<control, link, streams>>

\* What machine m's reader on connection c handles next, and what is left.
Arrived(c, m) == wire[<<c, Far(c, m)>>]
Rest(c, m) == [wire EXCEPT ![<<c, Far(c, m)>>] = Tail(@)]
Receives(c, m, types) ==
    /\ reader[<<c, m>>] \in {"new", "registered"}
    /\ Arrived(c, m) # <<>> /\ Head(Arrived(c, m)).type \in types

\* Either message registers the connection under the far end's id; the reply
\* to a handshake is awaited.
Register(c, m) ==
    /\ Receives(c, m, {"Handshake", "HandshakeAck"})
    /\ peers' = [peers EXCEPT ![m][Far(c, m)] = c]
    /\ reader' = [reader EXCEPT ![<<c, m>>] = "registered"]
    /\ \/ /\ Head(Arrived(c, m)).type = "Handshake"
          /\ SendEnds(c, m)
          /\ wire' = Offer(Rest(c, m), m, {c}, Packet("HandshakeAck"))
       \/ /\ Head(Arrived(c, m)).type = "HandshakeAck"
          /\ wire' = Rest(c, m)
    /\ UNCHANGED <<control, link, streams, missed>>

\* Variant: a machine that controls another one refuses to be controlled.
EnterScreenRefused(c, m) ==
    /\ Receives(c, m, {"EnterScreen"})
    /\ session' = IF IsControllingRemote(session[m]) THEN session
                  ELSE [session EXCEPT ![m] = enter_remote_controlled(RemotePeerLabel)]
    /\ wire' = Rest(c, m)
    /\ UNCHANGED <<pressed, seq, acted, links, streams, missed>>

EnterScreen(c, m) ==
    /\ Receives(c, m, {"EnterScreen"})
    /\ session' = [session EXCEPT ![m] = enter_remote_controlled(RemotePeerLabel)]
    /\ wire' = Rest(c, m)
    /\ UNCHANGED <<pressed, seq, acted, links, streams, missed>>

Return(c, m) ==
    /\ Receives(c, m, {"LeaveScreen", "PreemptTakeover"})
    /\ session' = [session EXCEPT ![m] = return_to_local(@)]
    /\ wire' = Rest(c, m)
    /\ UNCHANGED <<pressed, seq, acted, links, streams, missed>>

\* A key is injected whatever the state of the machine is.
Input(c, m) ==
    /\ Receives(c, m, {"Input"})
    /\ Inject(m, Head(Arrived(c, m)).input, Rest(c, m))
    /\ UNCHANGED <<pressed, links, sending, network, last, injecting>>

-----------------------------------------------------------------------------
Init ==
    /\ session = [m \in Machines |-> LocalActive]
    /\ pressed = [m \in Machines |-> 0] /\ seq = [m \in Machines |-> 1]
    /\ acted = [m \in Machines |-> <<>>]
    /\ queue = [m \in Machines |-> <<>>] /\ sending = [m \in Machines |-> None]
    /\ network = {} /\ last = [m \in Machines |-> 0]
    /\ injecting = [m \in Machines |-> None]
    /\ peers = [m \in Machines |-> [n \in Machines |-> None]]
    /\ link = [c \in Conns |-> "unopened"]
    /\ reader = [e \in Ends |-> "unopened"]
    /\ wire = [e \in Ends |-> <<>>]
    /\ missed = FALSE

User(m) == Breakout(m) \/ \E kind \in Kinds : Press(m, kind)
SenderTask(m) == SenderRead(m) \/ SenderSend(m)
UdpTask(m) == UdpInject(m) \/ \E d \in network : UdpReceive(m, d)
Reader(c, m) ==
    \/ ReaderError(c, m)
    \/ Register(c, m)
    \/ EnterScreen(c, m)
    \/ Return(c, m)
    \/ Input(c, m)

Next ==
    \/ \E m \in Machines : User(m) \/ SenderTask(m) \/ UdpTask(m)
    \/ \E d \in network : UdpLose(d)
    \/ \E c \in Conns : Open(c) \/ Break(c)
    \/ \E e \in Ends : Reader(e[1], e[2])

Spec == Init /\ [][Next]_vars

-----------------------------------------------------------------------------
(* Properties.                                                              *)

\* Every variable has its type, and every sequence its bound.
TypeOK ==
    /\ session \in [Machines -> SessionStates(Machines, {RemotePeerLabel})]
    /\ pressed \in [Machines -> Nat] /\ seq \in [Machines -> Nat \ {0}]
    /\ \A m \in Machines : queue[m] \in Seq(Events) /\ Len(queue[m]) <= EventCap
    /\ \A m \in Machines : sending[m] # None =>
          sending[m].event \in Events /\ sending[m].target \in Neighbors[m]
    /\ peers \in [Machines -> [Machines -> Conns \cup {None}]]
    /\ link \in [Conns -> {"unopened", "up", "lost"}]
    /\ reader \in [Ends -> {"unopened", "new", "registered", "dead"}]
    /\ \A e \in Ends : Len(wire[e]) <= WireCap
    /\ network \subseteq [to : Machines, event : Events]
    /\ last \in [Machines -> Nat]
    /\ \A m \in Machines : injecting[m] \in Inputs \cup {None}
    /\ \A m \in Machines : acted[m] \in Seq(Inputs)

\* Inputs without the mark of a relay: what the abstract specification sees.
Name(i) == [from |-> i.from, n |-> i.n, kind |-> i.kind]
NamesSeen(m) == {Name(acted[m][k]) : k \in DOMAIN acted[m]}
InTransit ==
    {Name(e.input) : e \in UNION {{queue[m][k] : k \in DOMAIN queue[m]} : m \in Machines}}
        \cup {Name(sending[m].event.input) : m \in {m \in Machines : sending[m] # None}}
        \cup {Name(injecting[m]) : m \in {m \in Machines : injecting[m] # None}}
        \cup {Name(d.event.input) : d \in network}
        \cup UNION {{Name(wire[e][k].input) :
                       k \in {k \in DOMAIN wire[e] : wire[e][k].type = "Input"}} : e \in Ends}

\* No input acts twice, and none that did not come from a user: the queues,
\* the connections, a network that repeats datagrams and the hooks that see
\* injected inputs again implement the abstract routing.
Routing == INSTANCE InputRouting
              WITH flying <- InTransit \ UNION {NamesSeen(m) : m \in Machines},
                   acted <- [m \in Machines |-> [k \in DOMAIN acted[m] |-> Name(acted[m][k])]]
RoutingSpec == Routing!Spec

\* The inputs of one user that act on one machine do so in the order in which
\* they were made, keys and moves each for themselves, unless a machine they
\* had been injected into sent them on.
ActInOrder ==
    \A m \in Machines : \A j, k \in DOMAIN acted[m] :
        LET a == acted[m][j] b == acted[m][k] IN
        j < k /\ a.from = b.from /\ a.kind = b.kind /\ ~a.relayed /\ ~b.relayed
           => a.n < b.n

\* Two machines that control each other swallow each other's inputs, which then
\* travel between them until a lock or a full queue drops them.  This lasts
\* only while one of them has yet to hear of the other's jump, if it will.
Entering(m, n) ==
    \E e \in Ends : e[2] = m /\ Far(e[1], m) = n
        /\ \E k \in DOMAIN wire[e] : wire[e][k].type = "EnterScreen"
MutualControlIsTransient ==
    \A m, n \in Machines :
        session[m] = ControllingRemote(n) /\ session[n] = ControllingRemote(m)
            => missed \/ Entering(m, n) \/ Entering(n, m)

\* Only the machine's own user, or the machine that controls it, ends the remote
\* control of a machine: "any physical mouse/keyboard movement locally".
OnlyPhysicalPreempts ==
    [][\A m \in Machines :
          IsRemoteControlled(session[m]) /\ IsLocalActive(session'[m])
             => \/ pressed'[m] > pressed[m] \/ Breakout(m)
                \/ \E e \in Ends : e[2] = m /\ Return(e[1], m)]_vars
=============================================================================
