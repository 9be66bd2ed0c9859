--------------------------- MODULE SessionProofs ---------------------------
(***************************************************************************)
(* Any number of daemons, connections and inputs: the types, and that two  *)
(* machines control each other only while an EnterScreen is on its way or  *)
(* was lost.                                                               *)
(***************************************************************************)
EXTENDS Session, SequenceTheorems, TLAPS

Controls == {"Handshake", "HandshakeAck", "EnterScreen", "LeaveScreen", "PreemptTakeover"}
Packets == [type : {"Input"}, input : Inputs] \cup [type : Controls, input : {None}]

\* The type invariant in a form that is inductive: what a channel holds is a
\* packet, and a machine controls a neighbor only.
SessionsOK ==
    /\ session \in [Machines -> SessionStates(Machines, {RemotePeerLabel})]
    /\ \A m \in Machines : IsControllingRemote(session[m]) => session[m].peer \in Neighbors[m]
CountsOK == pressed \in [Machines -> Nat] /\ seq \in [Machines -> Nat \ {0}]
LinksOK ==
    /\ peers \in [Machines -> [Machines -> Conns \cup {None}]]
    /\ link \in [Conns -> {"unopened", "up", "lost"}]
    /\ reader \in [Ends -> {"unopened", "new", "registered", "dead"}]
QueueOK ==
    /\ queue \in [Machines -> Seq(Events)]
    /\ \A m \in Machines : Len(queue[m]) <= EventCap
SendingOK ==
    /\ sending \in [Machines -> {None} \cup [event : Events, target : Machines]]
    /\ \A m \in Machines : sending[m] # None => sending[m].target \in Neighbors[m]
UdpOK ==
    /\ network \subseteq [to : Machines, event : Events]
    /\ last \in [Machines -> Nat]
    /\ injecting \in [Machines -> Inputs \cup {None}]
ActedOK == acted \in [Machines -> Seq(Inputs)]
WireOK ==
    /\ wire \in [Ends -> Seq(Packets)]
    /\ \A e \in Ends : Len(wire[e]) <= WireCap
Types ==
    /\ SessionsOK /\ CountsOK /\ LinksOK /\ QueueOK /\ SendingOK /\ UdpOK /\ ActedOK
    /\ WireOK /\ missed \in BOOLEAN

-----------------------------------------------------------------------------
(* Ends of connections and packets.                                         *)

LEMMA EndsAre ==
    \A e \in Ends : /\ e = <<e[1], e[2]>> /\ e[1] \in Conns /\ e[2] \in Machines
                    /\ <<e[1], Far(e[1], e[2])>> \in Ends
                    /\ Far(e[1], e[2]) \in Machines /\ Far(e[1], e[2]) # e[2]
                    /\ Far(e[1], Far(e[1], e[2])) = e[2]
BY SessionAssumption DEF Ends, Far

LEMMA PacketTypes ==
    /\ \A type \in Controls : Packet(type) \in Packets
    /\ \A i \in Inputs : InputPacket(i) \in Packets
    /\ \A p \in Packets : p.type = "Input" => p.input \in Inputs
BY DEF Packet, InputPacket, Packets, Controls

\* Wires as a step may have left them before something is offered.
Fits(w) ==
    /\ w \in [Ends -> Seq(Packets)]
    /\ \A e \in Ends : Len(w[e]) <= Len(wire[e]) /\ Len(w[e]) <= WireCap

LEMMA OfferTypes ==
    ASSUME WireOK, NEW w, Fits(w), NEW m, NEW cs, NEW p \in Packets
    PROVE  /\ Offer(w, m, cs, p) \in [Ends -> Seq(Packets)]
           /\ \A e \in Ends : Len(Offer(w, m, cs, p)[e]) <= WireCap
<1> DEFINE o == Offer(w, m, cs, p)
<1>1. \A e \in Ends : o[e] = IF e[2] = m /\ e[1] \in cs /\ Room(e[1], m)
                               THEN Append(w[e], p) ELSE w[e]
  BY DEF Offer
<1>2. \A e \in Ends : w[e] \in Seq(Packets) /\ Len(w[e]) \in Nat /\ wire[e] \in Seq(Packets)
                      /\ Len(wire[e]) \in Nat
  BY DEF Fits, WireOK
<1>3. \A e \in Ends : Room(e[1], e[2]) => Len(wire[e]) < WireCap
  BY EndsAre DEF Room
<1>4. ASSUME NEW e \in Ends PROVE o[e] \in Seq(Packets) /\ Len(o[e]) <= WireCap
  <2>1. CASE e[2] = m /\ e[1] \in cs /\ Room(e[1], m)
    <3>1. o[e] = Append(w[e], p)
      BY <1>1, <2>1
    <3>2. Append(w[e], p) \in Seq(Packets) /\ Len(Append(w[e], p)) = Len(w[e]) + 1
      BY <1>2, AppendProperties
    <3>3. Len(w[e]) <= Len(wire[e]) /\ Len(wire[e]) < WireCap
      BY <1>3, <2>1 DEF Fits
    <3> QED
      BY <1>2, <3>1, <3>2, <3>3, SessionAssumption
  <2>2. CASE ~(e[2] = m /\ e[1] \in cs /\ Room(e[1], m))
    BY <1>1, <1>2, <2>2 DEF Fits
  <2> QED
    BY <2>1, <2>2
<1>5. o = [e \in Ends |-> o[e]]
  BY DEF Offer
<1> QED
  BY <1>4, <1>5

LEMMA WireFits == WireOK => Fits(wire)
<1> SUFFICES ASSUME WireOK PROVE Fits(wire)
  OBVIOUS
<1>1. \A e \in Ends : Len(wire[e]) \in Nat
  BY DEF WireOK
<1> QED
  BY <1>1 DEF Fits, WireOK

LEMMA RestFits ==
    ASSUME WireOK, NEW c, NEW m, <<c, m>> \in Ends, Arrived(c, m) # <<>>
    PROVE  /\ Fits(Rest(c, m)) /\ Head(Arrived(c, m)) \in Packets
<1> DEFINE f == <<c, Far(c, m)>>
<1>1. f \in Ends /\ wire[f] \in Seq(Packets) /\ wire[f] # <<>>
  BY EndsAre DEF Arrived, WireOK
<1>2. /\ Head(wire[f]) \in Packets /\ Tail(wire[f]) \in Seq(Packets)
      /\ Len(Tail(wire[f])) = Len(wire[f]) - 1
  BY <1>1, HeadTailProperties
<1>3. \A e \in Ends : Rest(c, m)[e] = IF e = f THEN Tail(wire[f]) ELSE wire[e]
  BY DEF Rest, WireOK
<1>4. Rest(c, m) \in [Ends -> Seq(Packets)]
  BY <1>2 DEF Rest, WireOK
<1>5. \A e \in Ends : Len(wire[e]) \in Nat /\ Len(wire[e]) <= WireCap
  BY DEF WireOK
<1>6. \A e \in Ends : Len(Rest(c, m)[e]) <= Len(wire[e]) /\ Len(Rest(c, m)[e]) <= WireCap
  <2> SUFFICES ASSUME NEW e \in Ends
               PROVE  Len(Rest(c, m)[e]) <= Len(wire[e]) /\ Len(Rest(c, m)[e]) <= WireCap
    OBVIOUS
  <2>1. CASE e = f
    <3>1. Len(Rest(c, m)[e]) = Len(wire[e]) - 1
      BY <1>2, <1>3, <2>1
    <3> QED
      BY <1>5, <3>1, SessionAssumption
  <2>2. CASE e # f
    BY <1>3, <1>5, <2>2
  <2> QED
    BY <2>1, <2>2
<1> QED
  BY <1>2, <1>4, <1>6 DEF Fits, Arrived

-----------------------------------------------------------------------------
(* The hook.                                                                *)

LEMMA CapturedType ==
    ASSUME CountsOK, NEW m \in Machines, NEW i \in Inputs
    PROVE  Captured(m, i) \in Events
<1>1. [i EXCEPT !.relayed = @ \/ i.from # m] \in Inputs
  <2>1. (i.relayed \/ i.from # m) \in BOOLEAN
    BY Zenon
  <2> QED
    BY <2>1 DEF Inputs
<1>2. (IF i.kind = "move" THEN seq[m] ELSE 0) \in Nat
  BY DEF CountsOK
<1> QED
  BY <1>1, <1>2 DEF Captured, Events

\* What a call of the hook may change, whoever made the input.
HookEffects ==
    SessionsOK' /\ QueueOK' /\ ActedOK' /\ WireOK' /\ missed' \in BOOLEAN

\* The three states a handler or hook can put a machine into.
LEMMA LocalTypes ==
    ASSUME SessionsOK, NEW m \in Machines, NEW s,
           session' = [session EXCEPT ![m] = s],
           \/ s = LocalActive
           \/ s = RemoteControlled(RemotePeerLabel)
           \/ \E n \in Neighbors[m] : s = ControllingRemote(n)
    PROVE  SessionsOK'
<1>1. Neighbors[m] \subseteq Machines
  BY SessionAssumption
<1>2. s \in SessionStates(Machines, {RemotePeerLabel})
  BY <1>1 DEF SessionStates
<1>3. IsControllingRemote(s) => s.peer \in Neighbors[m]
  BY DEF IsControllingRemote, LocalActive, RemoteControlled, ControllingRemote
<1>4. \A n \in Machines : session'[n] = IF n = m THEN s ELSE session[n]
  BY DEF SessionsOK
<1>5. session' \in [Machines -> SessionStates(Machines, {RemotePeerLabel})]
  BY <1>2 DEF SessionsOK
<1> QED
  BY <1>3, <1>4, <1>5 DEF SessionsOK

\* The four outcomes of the hook.
LEMMA HookTypes ==
    ASSUME Types, NEW m \in Machines, NEW i \in Inputs, NEW w, Fits(w),
           \/ HookPass(m, i, w) \/ HookForward(m, i, w)
           \/ HookPreempt(m, i, w) \/ HookJump(m, i, w)
    PROVE  HookEffects
<1> USE DEF Types, HookEffects
<1>a. Acts(m, i) => ActedOK'
  <2> SUFFICES ASSUME Acts(m, i) PROVE ActedOK'
    OBVIOUS
  <2>1. Append(acted[m], i) \in Seq(Inputs)
    BY AppendProperties DEF ActedOK
  <2> QED
    BY <2>1 DEF Acts, ActedOK
<1>b. wire' = w => WireOK'
  BY DEF WireOK, Fits
<1>1. CASE HookPass(m, i, w)
  BY <1>1, <1>a, <1>b DEF HookPass, SessionsOK, QueueOK
<1>2. CASE HookForward(m, i, w)
  <2>1. /\ queue[m] \in Seq(Events) /\ Len(queue[m]) \in Nat /\ Len(queue[m]) <= EventCap
        /\ Append(queue[m], Captured(m, i)) \in Seq(Events)
        /\ Len(Append(queue[m], Captured(m, i))) = Len(queue[m]) + 1
    BY CapturedType, AppendProperties DEF QueueOK
  <2> DEFINE q == IF Len(queue[m]) < EventCap THEN Append(queue[m], Captured(m, i)) ELSE queue[m]
  <2>2. q \in Seq(Events) /\ Len(q) <= EventCap
    BY <2>1, SessionAssumption
  <2>3. queue' = [queue EXCEPT ![m] = q]
    BY <1>2 DEF HookForward, QueueOK
  <2>4. QueueOK'
    BY <2>2, <2>3 DEF QueueOK
  <2> QED
    BY <1>2, <1>b, <2>4 DEF HookForward, SessionsOK, ActedOK
<1>3. CASE HookPreempt(m, i, w)
  <2>1. session' = [session EXCEPT ![m] = LocalActive]
    BY <1>3 DEF HookPreempt, handle_physical_input_detected, SessionsOK
  <2>2. SessionsOK'
    BY <2>1, LocalTypes
  <2>3. WireOK'
    <3>1. Packet("PreemptTakeover") \in Packets
      BY PacketTypes DEF Controls
    <3> QED
      BY <1>3, <3>1, OfferTypes DEF HookPreempt, WireOK
  <2> QED
    BY <1>3, <1>a, <2>2, <2>3 DEF HookPreempt, QueueOK
<1>4. CASE HookJump(m, i, w)
  <2>1. PICK n \in Neighbors[m] :
           /\ session' = [session EXCEPT ![m] = start_controlling_remote(n)]
           /\ \/ wire' = Offer(w, m, {Lookup(m, n)}, Packet("EnterScreen"))
              \/ wire' = w
    BY <1>4 DEF HookJump
  <2>2. SessionsOK'
    BY <2>1, LocalTypes DEF start_controlling_remote
  <2>3. WireOK'
    <3>1. Packet("EnterScreen") \in Packets
      BY PacketTypes DEF Controls
    <3> QED
      BY <1>b, <2>1, <3>1, OfferTypes DEF WireOK
  <2>4. missed' \in BOOLEAN
    BY <1>4, Zenon DEF HookJump
  <2> QED
    BY <1>4, <2>2, <2>3, <2>4 DEF HookJump, QueueOK, ActedOK
<1> QED
  BY <1>1, <1>2, <1>3, <1>4

LEMMA InjectTypes ==
    ASSUME Types, NEW m \in Machines, NEW i \in Inputs, NEW w, Fits(w),
           HookCall(m, i, w) \/ Inject(m, i, w)
    PROVE  HookEffects /\ seq' \in [Machines -> Nat \ {0}]
<1>1. HookEffects
  BY HookTypes DEF HookCall, Inject
<1>2. seq' \in [Machines -> Nat \ {0}]
  <2>1. seq' = seq \/ seq' = [seq EXCEPT ![m] = IF i.kind = "move" THEN @ + 1 ELSE @]
    BY DEF HookCall, Inject
  <2> QED
    BY <2>1 DEF Types, CountsOK
<1> QED
  BY <1>1, <1>2

-----------------------------------------------------------------------------
(* The types.                                                               *)

LEMMA TypesInit == Init => Types
<1> SUFFICES ASSUME Init PROVE Types
  OBVIOUS
<1>1. SessionsOK
  BY DEF Init, SessionsOK, SessionStates, LocalActive, IsControllingRemote
<1>2. CountsOK /\ LinksOK /\ UdpOK /\ SendingOK
  BY DEF Init, CountsOK, LinksOK, UdpOK, SendingOK
<1>3. QueueOK /\ ActedOK /\ WireOK
  <2>1. \A S : <<>> \in Seq(S) /\ Len(<<>>) = 0
    BY EmptySeq
  <2> QED
    BY <2>1, SessionAssumption DEF Init, QueueOK, ActedOK, WireOK
<1> QED
  BY <1>1, <1>2, <1>3 DEF Init, Types

LEMMA UserTypes == ASSUME Types, NEW m \in Machines, User(m) PROVE Types'
<1> USE DEF Types
<1>1. CASE Breakout(m)
  <2>1. SessionsOK'
    BY <1>1, LocalTypes DEF Breakout, return_to_local, SessionsOK
  <2>2. WireOK'
    <3>1. Packet("LeaveScreen") \in Packets
      BY PacketTypes DEF Controls
    <3> QED
      BY <1>1, <3>1, WireFits, OfferTypes DEF Breakout, WireOK
  <2> QED
    BY <1>1, <2>1, <2>2
    DEF Breakout, links, streams, CountsOK, LinksOK, QueueOK, SendingOK, UdpOK, ActedOK
<1>2. ASSUME NEW kind \in Kinds, Press(m, kind) PROVE Types'
  <2> DEFINE i == [from |-> m, n |-> pressed[m] + 1, kind |-> kind, relayed |-> FALSE]
  <2>1. i \in Inputs /\ pressed' \in [Machines -> Nat]
    BY <1>2 DEF Press, CountsOK, Inputs
  <2>2. HookEffects /\ seq' \in [Machines -> Nat \ {0}]
    BY <1>2, <2>1, WireFits, InjectTypes DEF Press
  <2> QED
    BY <1>2, <2>1, <2>2
    DEF Press, links, HookEffects, CountsOK, LinksOK, SendingOK, UdpOK
<1> QED
  BY <1>1, <1>2 DEF User

LEMMA SenderTypes == ASSUME Types, NEW m \in Machines, SenderTask(m) PROVE Types'
<1> USE DEF Types
<1>1. CASE SenderRead(m)
  <2>1. /\ queue[m] \in Seq(Events) /\ Head(queue[m]) \in Events
        /\ Tail(queue[m]) \in Seq(Events) /\ Len(queue[m]) \in Nat
        /\ Len(Tail(queue[m])) = Len(queue[m]) - 1 /\ Len(queue[m]) <= EventCap
    BY <1>1, HeadTailProperties DEF SenderRead, QueueOK
  <2>2. Tail(queue[m]) \in Seq(Events) /\ Len(Tail(queue[m])) <= EventCap
    BY <2>1, SessionAssumption
  <2>3. QueueOK'
    BY <1>1, <2>2 DEF SenderRead, QueueOK
  <2>4. IsControllingRemote(session[m]) =>
           session[m].peer \in Neighbors[m] /\ session[m].peer \in Machines
    BY SessionAssumption DEF SessionsOK
  <2>5. SendingOK'
    BY <1>1, <2>1, <2>4 DEF SenderRead, SendingOK
  <2> QED
    BY <1>1, <2>3, <2>5
    DEF SenderRead, control, links, SessionsOK, CountsOK, LinksOK, UdpOK, ActedOK, WireOK
<1>2. CASE SenderSend(m)
  <2> DEFINE event == sending[m].event
             chosen == IF Lookup(m, sending[m].target) # None
                          THEN {Lookup(m, sending[m].target)} ELSE Connected(m)
  <2>1. event \in Events /\ event.input \in Inputs
    BY <1>2 DEF SenderSend, SendingOK, Events
  <2>2. \A c \in chosen : c \in Conns
    BY DEF Lookup, Connected, LinksOK
  <2>3. \A c \in Conns : Far(c, m) \in Machines
    BY SessionAssumption DEF Far
  <2>4. \/ UNCHANGED <<network, wire>>
        \/ /\ wire' = wire
           /\ \E c \in chosen : network' = network \cup {[to |-> Far(c, m), event |-> event]}
        \/ /\ network' = network
           /\ \E c \in chosen : wire' = Offer(wire, m, {c}, InputPacket(event.input))
    BY <1>2 DEF SenderSend
  <2>5. network' \subseteq [to : Machines, event : Events]
    BY <2>1, <2>2, <2>3, <2>4 DEF UdpOK
  <2>6. WireOK'
    <3>1. InputPacket(event.input) \in Packets
      BY <2>1, PacketTypes
    <3> HIDE DEF event, chosen
    <3>2. wire' = wire => WireOK'
      BY DEF WireOK
    <3>3. ASSUME NEW c \in chosen, wire' = Offer(wire, m, {c}, InputPacket(event.input))
          PROVE  WireOK'
      BY <3>1, <3>3, WireFits, OfferTypes DEF WireOK
    <3> QED
      BY <2>4, <3>2, <3>3
  <2>7. SendingOK'
    BY <1>2 DEF SenderSend, SendingOK
  <2> QED
    BY <1>2, <2>5, <2>6, <2>7
    DEF SenderSend, control, links, SessionsOK, CountsOK, LinksOK, QueueOK, UdpOK, ActedOK
<1> QED
  BY <1>1, <1>2 DEF SenderTask

LEMMA UdpTypes ==
    ASSUME Types, \/ \E d \in network : UdpLose(d)
                  \/ \E m \in Machines : UdpTask(m)
    PROVE  Types'
<1> USE DEF Types
<1>1. ASSUME NEW d \in network, UdpLose(d) PROVE Types'
  BY <1>1
  DEF UdpLose, control, links, SessionsOK, CountsOK, LinksOK, QueueOK, SendingOK, UdpOK,
      ActedOK, WireOK
<1>2. ASSUME NEW m \in Machines, NEW d \in network, UdpReceive(m, d) PROVE Types'
  <2>1. d.event.seq \in Nat /\ d.event.input \in Inputs
    BY DEF UdpOK, Events
  <2>2. UdpOK'
    BY <1>2, <2>1 DEF UdpReceive, UdpOK
  <2> QED
    BY <1>2, <2>2
    DEF UdpReceive, control, links, SessionsOK, CountsOK, LinksOK, QueueOK, SendingOK,
        ActedOK, WireOK
<1>3. ASSUME NEW m \in Machines, UdpInject(m) PROVE Types'
  <2>1. injecting[m] \in Inputs
    BY <1>3 DEF UdpInject, UdpOK
  <2>2. HookEffects /\ seq' \in [Machines -> Nat \ {0}]
    BY <1>3, <2>1, WireFits, InjectTypes DEF UdpInject
  <2>3. UdpOK'
    BY <1>3 DEF UdpInject, UdpOK
  <2> QED
    BY <1>3, <2>2, <2>3 DEF UdpInject, links, HookEffects, CountsOK, LinksOK, SendingOK
<1> QED
  BY <1>1, <1>2, <1>3 DEF UdpTask

LEMMA LinkTypes ==
    ASSUME Types, NEW c \in Conns, Open(c) \/ Break(c) PROVE Types'
<1> USE DEF Types
<1>1. CASE Open(c)
  <2>1. <<Packet("Handshake")>> \in Seq(Packets) /\ Len(<<Packet("Handshake")>>) = 1
    BY PacketTypes DEF Controls
  <2>2. WireOK'
    BY <1>1, <2>1, SessionAssumption DEF Open, WireOK
  <2> QED
    BY <1>1, <2>2
    DEF Open, control, streams, SessionsOK, CountsOK, LinksOK, QueueOK, SendingOK, UdpOK,
        ActedOK
<1>2. CASE Break(c)
  BY <1>2
  DEF Break, control, streams, SessionsOK, CountsOK, LinksOK, QueueOK, SendingOK, UdpOK,
      ActedOK, WireOK
<1> QED
  BY <1>1, <1>2

LEMMA ReaderTypes ==
    ASSUME Types, NEW c, NEW m, <<c, m>> \in Ends, Reader(c, m) PROVE Types'
<1> USE DEF Types
<1>a. c \in Conns /\ m \in Machines /\ Far(c, m) \in Machines /\ <<c, Far(c, m)>> \in Ends
  BY EndsAre
<1>1. CASE ReaderError(c, m)
  <2>1. WireOK'
    <3> DEFINE f == <<c, Far(c, m)>>
    <3>1. <<>> \in Seq(Packets) /\ Len(<<>>) = 0 /\ 0 <= WireCap
      BY EmptySeq, SessionAssumption
    <3>2. wire' = [wire EXCEPT ![f] = <<>>]
      BY <1>1 DEF ReaderError
    <3> HIDE DEF f
    <3>3. wire' \in [Ends -> Seq(Packets)]
      BY <3>1, <3>2 DEF WireOK
    <3>4. \A e \in Ends : wire'[e] = <<>> \/ wire'[e] = wire[e]
      BY <3>2 DEF WireOK
    <3> QED
      BY <3>1, <3>3, <3>4 DEF WireOK
  <2>2. LinksOK'
    <3>1. peers' = peers \/ peers' = [peers EXCEPT ![m][Far(c, m)] = None]
      BY <1>1 DEF ReaderError
    <3> QED
      BY <1>1, <1>a, <3>1 DEF ReaderError, LinksOK
  <2>3. missed' \in BOOLEAN
    BY <1>1, Zenon DEF ReaderError
  <2> QED
    BY <1>1, <2>1, <2>2, <2>3
    DEF ReaderError, control, streams, SessionsOK, CountsOK, QueueOK, SendingOK, UdpOK, ActedOK
<1>2. CASE Register(c, m)
  <2>1. Fits(Rest(c, m))
    BY <1>2, RestFits DEF Register, Receives
  <2>2. WireOK'
    <3>1. wire' = Rest(c, m) \/ wire' = Offer(Rest(c, m), m, {c}, Packet("HandshakeAck"))
      BY <1>2 DEF Register
    <3>2. Packet("HandshakeAck") \in Packets
      BY PacketTypes DEF Controls
    <3>3. wire' = Rest(c, m) => WireOK'
      BY <2>1 DEF Fits, WireOK
    <3>4. wire' = Offer(Rest(c, m), m, {c}, Packet("HandshakeAck")) => WireOK'
      BY <2>1, <3>2, OfferTypes DEF WireOK
    <3> QED
      BY <3>1, <3>3, <3>4
  <2>3. LinksOK'
    BY <1>2, <1>a DEF Register, LinksOK
  <2> QED
    BY <1>2, <2>2, <2>3
    DEF Register, control, streams, SessionsOK, CountsOK, QueueOK, SendingOK, UdpOK, ActedOK
<1>3. CASE EnterScreen(c, m) \/ Return(c, m)
  <2>1. SessionsOK'
    BY <1>3, <1>a, LocalTypes DEF EnterScreen, Return, enter_remote_controlled, return_to_local
  <2>2. WireOK'
    <3>1. wire' = Rest(c, m) /\ Fits(Rest(c, m))
      BY <1>3, RestFits DEF EnterScreen, Return, Receives
    <3> QED
      BY <3>1 DEF Fits, WireOK
  <2> QED
    BY <1>3, <2>1, <2>2
    DEF EnterScreen, Return, links, streams, CountsOK, LinksOK, QueueOK, SendingOK, UdpOK, ActedOK
<1>4. CASE Input(c, m)
  <2>1. Fits(Rest(c, m)) /\ Head(Arrived(c, m)).input \in Inputs
    BY <1>4, RestFits, PacketTypes DEF Input, Receives
  <2>2. HookEffects /\ seq' \in [Machines -> Nat \ {0}]
    BY <1>4, <1>a, <2>1, InjectTypes DEF Input
  <2> QED
    BY <1>4, <2>2 DEF Input, links, HookEffects, CountsOK, LinksOK, SendingOK, UdpOK
<1> QED
  BY <1>1, <1>2, <1>3, <1>4 DEF Reader

LEMMA TypesStep == Types /\ [Next]_vars => Types'
<1> SUFFICES ASSUME Types, [Next]_vars PROVE Types'
  OBVIOUS
<1>1. CASE UNCHANGED vars
  BY <1>1
  DEF vars, control, links, streams, Types, SessionsOK, CountsOK, LinksOK, QueueOK,
      SendingOK, UdpOK, ActedOK, WireOK
<1>2. ASSUME NEW e \in Ends, Reader(e[1], e[2]) PROVE Types'
  BY <1>2, EndsAre, ReaderTypes
<1> QED
  BY <1>1, <1>2, UserTypes, SenderTypes, UdpTypes, LinkTypes DEF Next

\* The type invariant of several daemons, and the bounds of their queues and
\* connections, for any machines, neighbors and connections.
THEOREM SessionTyped == Spec => []TypeOK
<1>1. Types => TypeOK
  BY DEF Types, TypeOK, SessionsOK, CountsOK, LinksOK, QueueOK, SendingOK, UdpOK, ActedOK, WireOK
<1> QED
  BY <1>1, TypesInit, TypesStep, PTL DEF Spec

-----------------------------------------------------------------------------
(* Mutual control.                                                          *)

\* A connection is registered under the id of its far end.
Registered ==
    \A m, n \in Machines : peers[m][n] # None =>
        <<peers[m][n], m>> \in Ends /\ Far(peers[m][n], m) = n
\* Nothing is on the wires of a connection that was never opened.
UnopenedIsEmpty == \A e \in Ends : link[e[1]] = "unopened" => wire[e] = <<>>

MutualInv == Types /\ Registered /\ UnopenedIsEmpty /\ MutualControlIsTransient

HasEnter(s) == \E k \in DOMAIN s : s[k].type = "EnterScreen"

\* An EnterScreen in a sequence outlasts what is appended and what else is taken.
LEMMA HasEnterKept ==
    ASSUME NEW s \in Seq(Packets), NEW p \in Packets
    PROVE  /\ HasEnter(s) => HasEnter(Append(s, p))
           /\ p.type = "EnterScreen" => HasEnter(Append(s, p))
           /\ HasEnter(s) /\ Head(s).type # "EnterScreen" => HasEnter(Tail(s))
<1>1. /\ Len(s) \in Nat /\ DOMAIN s = 1 .. Len(s)
      /\ DOMAIN Append(s, p) = 1 .. Len(s) + 1
      /\ \A k \in 1 .. Len(s) : Append(s, p)[k] = s[k]
      /\ Append(s, p)[Len(s) + 1] = p
  BY AppendProperties
<1>2. HasEnter(s) => HasEnter(Append(s, p))
  BY <1>1 DEF HasEnter
<1>3. p.type = "EnterScreen" => HasEnter(Append(s, p))
  BY <1>1 DEF HasEnter
<1>4. ASSUME HasEnter(s), Head(s).type # "EnterScreen" PROVE HasEnter(Tail(s))
  <2>1. PICK k \in 1 .. Len(s) : s[k].type = "EnterScreen"
    BY <1>1, <1>4 DEF HasEnter
  <2>2. s # <<>> /\ Head(s) = s[1]
    BY <1>1, <2>1
  <2>3. k # 1
    BY <1>4, <2>1, <2>2
  <2>4. /\ Len(Tail(s)) = Len(s) - 1 /\ DOMAIN Tail(s) = 1 .. Len(Tail(s))
        /\ \A j \in 1 .. Len(Tail(s)) : Tail(s)[j] = s[j + 1]
    BY <2>2, HeadTailProperties
  <2>5. k - 1 \in DOMAIN Tail(s) /\ Tail(s)[k - 1] = s[k]
    BY <1>1, <2>1, <2>3, <2>4
  <2> QED
    BY <2>1, <2>5 DEF HasEnter
<1> QED
  BY <1>2, <1>3, <1>4

\* The wires w have every EnterScreen that the wires had.
Keeps(w) == \A e \in Ends : HasEnter(wire[e]) => HasEnter(w[e])

LEMMA OfferKeeps ==
    ASSUME NEW w \in [Ends -> Seq(Packets)], Keeps(w), NEW m, NEW cs, NEW p \in Packets
    PROVE  Keeps(Offer(w, m, cs, p))
BY HasEnterKept DEF Keeps, Offer

\* A connection that was never opened is offered nothing.
EmptyUnopened(w) == \A e \in Ends : link[e[1]] = "unopened" => w[e] = <<>>

LEMMA OfferEmptyUnopened ==
    ASSUME NEW w, EmptyUnopened(w), NEW m, NEW cs, NEW p
    PROVE  EmptyUnopened(Offer(w, m, cs, p))
BY DEF EmptyUnopened, Offer, Room

\* What every step keeps, whether or not two machines control each other: an
\* EnterScreen stays until its receiver is controlled, and a machine that has
\* begun to control another one has sent an EnterScreen; or one was missed.
EntersArrive ==
    \A e \in Ends : HasEnter(wire[e]) =>
        HasEnter(wire'[e]) \/ missed' \/ IsRemoteControlled(session'[Far(e[1], e[2])])
JumpsTell ==
    \A m, n \in Machines : session'[m] = ControllingRemote(n) =>
        session'[m] = session[m] \/ missed' \/ Entering(m, n)'
Told == EntersArrive /\ JumpsTell /\ (missed => missed')

\* Of two that come to control each other, one has jumped in this step and told
\* the other, or the EnterScreen that excused them before is still there.
LEMMA ToldIsEnough ==
    ASSUME Types, MutualControlIsTransient, Told PROVE MutualControlIsTransient'
<1> SUFFICES ASSUME NEW m \in Machines, NEW n \in Machines,
                    session'[m] = ControllingRemote(n), session'[n] = ControllingRemote(m),
                    ~missed'
             PROVE  Entering(m, n)' \/ Entering(n, m)'
  BY DEF MutualControlIsTransient
<1>1. ~IsRemoteControlled(session'[m]) /\ ~IsRemoteControlled(session'[n])
  BY DEF ControllingRemote, IsRemoteControlled
<1>2. CASE session'[m] = session[m] /\ session'[n] = session[n]
  <2>1. Entering(m, n) \/ Entering(n, m)
    BY <1>2 DEF Told, MutualControlIsTransient
  <2>2. \A e \in Ends : HasEnter(wire[e]) /\ Far(e[1], e[2]) \in {m, n} => HasEnter(wire'[e])
    BY <1>1 DEF Told, EntersArrive
  <2> QED
    BY <2>1, <2>2 DEF Entering, HasEnter
<1>3. CASE session'[m] # session[m] \/ session'[n] # session[n]
  BY <1>3 DEF Told, JumpsTell
<1> QED
  BY <1>2, <1>3

\* Steps in which nobody begins to control another machine and no EnterScreen goes.
LEMMA QuietTold ==
    ASSUME NEW w, wire' = w, Keeps(w), EmptyUnopened(w), link' = link, missed => missed',
           \A m \in Machines : session'[m] = session[m] \/ ~IsControllingRemote(session'[m])
    PROVE  Told /\ UnopenedIsEmpty'
<1>1. EntersArrive
  BY DEF EntersArrive, Keeps
<1>2. JumpsTell
  BY DEF JumpsTell, ControllingRemote, IsControllingRemote
<1>3. UnopenedIsEmpty'
  BY DEF UnopenedIsEmpty, EmptyUnopened
<1> QED
  BY <1>1, <1>2, <1>3 DEF Told

\* A jump appends its EnterScreen to a connection with its target, or misses.
LEMMA JumpTold ==
    ASSUME Types, Registered, NEW m \in Machines, NEW i, NEW w, Fits(w), Keeps(w),
           EmptyUnopened(w), link' = link, HookJump(m, i, w)
    PROVE  Told /\ UnopenedIsEmpty'
<1>1. PICK n \in Neighbors[m] :
         /\ session' = [session EXCEPT ![m] = ControllingRemote(n)]
         /\ \/ wire' = Offer(w, m, {Lookup(m, n)}, Packet("EnterScreen"))
            \/ wire' = w
  BY DEF HookJump, start_controlling_remote
<1>2. n \in Machines /\ w \in [Ends -> Seq(Packets)] /\ Packet("EnterScreen") \in Packets
  BY SessionAssumption, PacketTypes DEF Fits, Controls
<1>3. Keeps(wire') /\ EmptyUnopened(wire')
  BY <1>1, <1>2, OfferKeeps, OfferEmptyUnopened
<1>4. missed' \/ Entering(m, n)'
  <2> SUFFICES ASSUME wire' # w PROVE Entering(m, n)'
    BY DEF HookJump
  <2> DEFINE c == Lookup(m, n)
             e == <<c, m>>
  <2>1. wire' = Offer(w, m, {c}, Packet("EnterScreen"))
    BY <1>1
  <2>2. PICK f \in Ends : f[2] = m /\ f[1] = c /\ Room(f[1], m)
    <3>1. CASE \E f \in Ends : f[2] = m /\ f[1] = c /\ Room(f[1], m)
      BY <3>1
    <3>2. CASE ~ \E f \in Ends : f[2] = m /\ f[1] = c /\ Room(f[1], m)
      <4>1. wire' = [f \in Ends |-> w[f]]
        BY <2>1, <3>2 DEF Offer
      <4> QED
        BY <1>2, <4>1
    <3> QED
      BY <3>1, <3>2
  <2>3. f = e /\ c \in Conns /\ c # None
    <3>1. f = <<f[1], f[2]>> /\ f[1] \in Conns
      BY EndsAre
    <3> HIDE DEF c
    <3>2. f = <<c, m>> /\ c \in Conns
      BY <2>2, <3>1
    <3> QED
      BY <3>2, SessionAssumption
  <2>4. Far(c, m) = n
    BY <1>2, <2>3 DEF Registered, Lookup
  <2>5. wire'[f] = Append(w[f], Packet("EnterScreen"))
    BY <2>1, <2>2 DEF Offer
  <2>6. HasEnter(wire'[f])
    <3>1. Packet("EnterScreen").type = "EnterScreen"
      BY DEF Packet
    <3> QED
      BY <1>2, <2>5, <3>1, HasEnterKept
  <2> QED
    BY <2>2, <2>3, <2>4, <2>6 DEF Entering, HasEnter
<1>5. JumpsTell
  <2>1. \A p \in Machines : session'[p] = IF p = m THEN ControllingRemote(n) ELSE session[p]
    BY <1>1 DEF Types, SessionsOK
  <2>2. \A p : ControllingRemote(n) = ControllingRemote(p) => p = n
    BY DEF ControllingRemote
  <2> QED
    BY <1>4, <2>1, <2>2 DEF JumpsTell
<1> QED
  BY <1>3, <1>5 DEF HookJump, Told, EntersArrive, Keeps, EmptyUnopened, UnopenedIsEmpty

\* The hook, called with a user's input or with an injected one.
LEMMA HookTold ==
    ASSUME Types, Registered, NEW m \in Machines, NEW i, NEW w, Fits(w), Keeps(w),
           EmptyUnopened(w), link' = link, HookCall(m, i, w) \/ Inject(m, i, w)
    PROVE  Told /\ UnopenedIsEmpty'
<1>1. CASE HookPass(m, i, w) \/ HookForward(m, i, w)
  BY <1>1, QuietTold DEF HookPass, HookForward
<1>2. CASE HookPreempt(m, i, w)
  <2> DEFINE o == Offer(w, m, {Lookup(m, session[m].peer)}, Packet("PreemptTakeover"))
  <2>1. Packet("PreemptTakeover") \in Packets
    BY PacketTypes DEF Controls
  <2>2. wire' = o /\ Keeps(o) /\ EmptyUnopened(o)
    BY <1>2, <2>1, OfferKeeps, OfferEmptyUnopened DEF HookPreempt, Fits
  <2>3. session' = [session EXCEPT ![m] = LocalActive]
    BY <1>2 DEF HookPreempt, handle_physical_input_detected, Types, SessionsOK
  <2>4. \A p \in Machines : session'[p] = session[p] \/ ~IsControllingRemote(session'[p])
    BY <2>3 DEF Types, SessionsOK, LocalActive, IsControllingRemote
  <2> HIDE DEF o
  <2> QED
    BY <1>2, <2>2, <2>4, QuietTold DEF HookPreempt
<1>3. CASE HookJump(m, i, w)
  BY <1>3, JumpTold
<1> QED
  BY <1>1, <1>2, <1>3 DEF HookCall, Inject

\* What a reader takes first is all that leaves the wire.
LEMMA RestTold ==
    ASSUME Types, UnopenedIsEmpty, NEW c, NEW m, <<c, m>> \in Ends, Arrived(c, m) # <<>>
    PROVE  /\ Fits(Rest(c, m)) /\ EmptyUnopened(Rest(c, m))
           /\ \A e \in Ends : e # <<c, Far(c, m)>> => Rest(c, m)[e] = wire[e]
           /\ Head(Arrived(c, m)).type # "EnterScreen" => Keeps(Rest(c, m))
<1> DEFINE f == <<c, Far(c, m)>>
<1>1. f \in Ends /\ wire[f] \in Seq(Packets) /\ wire[f] # <<>> /\ Arrived(c, m) = wire[f]
  BY EndsAre DEF Arrived, Types, WireOK
<1>2. \A e \in Ends : Rest(c, m)[e] = IF e = f THEN Tail(wire[f]) ELSE wire[e]
  BY DEF Rest, Types, WireOK
<1>3. EmptyUnopened(Rest(c, m))
  BY <1>1, <1>2 DEF EmptyUnopened, UnopenedIsEmpty
<1>4. Head(wire[f]).type # "EnterScreen" => Keeps(Rest(c, m))
  <2>1. Head(wire[f]) \in Packets
    BY <1>1, HeadTailProperties
  <2> QED
    BY <1>1, <1>2, <2>1, HasEnterKept DEF Keeps
<1> QED
  BY <1>1, <1>2, <1>3, <1>4, RestFits DEF Types

LEMMA WireTold == Types /\ UnopenedIsEmpty => Fits(wire) /\ Keeps(wire) /\ EmptyUnopened(wire)
BY WireFits DEF Types, Keeps, EmptyUnopened, UnopenedIsEmpty

LEMMA RegisteredStays ==
    ASSUME Registered, UNCHANGED peers PROVE Registered'
BY DEF Registered

LEMMA UserMutual ==
    ASSUME MutualInv, NEW m \in Machines, User(m) PROVE Told /\ Registered' /\ UnopenedIsEmpty'
<1>a. Fits(wire) /\ Keeps(wire) /\ EmptyUnopened(wire) /\ Types /\ Registered
  BY WireTold DEF MutualInv
<1>1. CASE Breakout(m)
  <2> DEFINE o == Offer(wire, m, Connected(m), Packet("LeaveScreen"))
  <2>1. Packet("LeaveScreen") \in Packets
    BY PacketTypes DEF Controls
  <2>2. Keeps(o) /\ EmptyUnopened(o)
    BY <1>a, <2>1, OfferKeeps, OfferEmptyUnopened DEF Fits
  <2>3. session' = [session EXCEPT ![m] = LocalActive]
    BY <1>1 DEF Breakout, return_to_local
  <2>4. \A p \in Machines : session'[p] = session[p] \/ ~IsControllingRemote(session'[p])
    BY <1>a, <2>3 DEF Types, SessionsOK, LocalActive, IsControllingRemote
  <2>5. /\ wire' = o \/ wire' = wire
        /\ link' = link /\ missed' = missed /\ peers' = peers
    BY <1>1 DEF Breakout, links
  <2> HIDE DEF o
  <2> QED
    BY <1>a, <2>2, <2>4, <2>5, QuietTold, RegisteredStays
<1>2. ASSUME NEW kind \in Kinds, Press(m, kind)
      PROVE  Told /\ Registered' /\ UnopenedIsEmpty'
  BY <1>2, <1>a, HookTold, RegisteredStays DEF Press, links
<1> QED
  BY <1>1, <1>2 DEF User

LEMMA SenderMutual ==
    ASSUME MutualInv, NEW m \in Machines, SenderTask(m)
    PROVE  Told /\ Registered' /\ UnopenedIsEmpty'
<1>a. Fits(wire) /\ Keeps(wire) /\ EmptyUnopened(wire) /\ Types /\ Registered
  BY WireTold DEF MutualInv
<1>b. session' = session /\ link' = link /\ peers' = peers /\ missed' = missed
  BY DEF SenderTask, SenderRead, SenderSend, control, links
<1>1. CASE wire' = wire
  BY <1>a, <1>b, <1>1, QuietTold, RegisteredStays
<1>2. CASE wire' # wire
  <2>1. PICK c : wire' = Offer(wire, m, {c}, InputPacket(sending[m].event.input))
    BY <1>2 DEF SenderTask, SenderRead, SenderSend
  <2>2. sending[m].event.input \in Inputs
    BY <1>a, <1>2 DEF SenderTask, SenderRead, SenderSend, Types, SendingOK, Events
  <2>3. Keeps(wire') /\ EmptyUnopened(wire')
    BY <1>a, <2>1, <2>2, PacketTypes, OfferKeeps, OfferEmptyUnopened DEF Fits
  <2> QED
    BY <1>a, <1>b, <2>3, QuietTold, RegisteredStays
<1> QED
  BY <1>1, <1>2

LEMMA UdpMutual ==
    ASSUME MutualInv, \/ \E d \in network : UdpLose(d)
                      \/ \E m \in Machines : UdpTask(m)
    PROVE  Told /\ Registered' /\ UnopenedIsEmpty'
<1>a. Fits(wire) /\ Keeps(wire) /\ EmptyUnopened(wire) /\ Types /\ Registered
  BY WireTold DEF MutualInv
<1>1. CASE UNCHANGED <<session, wire, link, peers, missed>>
  BY <1>a, <1>1, QuietTold, RegisteredStays
<1>2. ASSUME NEW m \in Machines, UdpInject(m) PROVE Told /\ Registered' /\ UnopenedIsEmpty'
  BY <1>a, <1>2, HookTold, RegisteredStays DEF UdpInject, links
<1> QED
  BY <1>1, <1>2 DEF UdpTask, UdpLose, UdpReceive, control, links

LEMMA LinkMutual ==
    ASSUME MutualInv, NEW c \in Conns, Open(c) \/ Break(c)
    PROVE  Told /\ Registered' /\ UnopenedIsEmpty'
<1>a. /\ Fits(wire) /\ Keeps(wire) /\ EmptyUnopened(wire) /\ Types /\ Registered
      /\ UnopenedIsEmpty
  BY WireTold DEF MutualInv
<1>b. session' = session /\ peers' = peers /\ missed' = missed /\ Registered'
  BY <1>a, RegisteredStays DEF Open, Break, control
<1>1. CASE Open(c)
  <2>1. \A e \in Ends : e[1] = c => wire[e] = <<>>
    BY <1>1, <1>a DEF Open, UnopenedIsEmpty
  <2>2. EntersArrive
    <3>1. \A e \in Ends : e[1] = c => ~HasEnter(wire[e])
      BY <2>1 DEF HasEnter
    <3>2. \A e \in Ends : e[1] # c => wire'[e] = wire[e]
      BY <1>1 DEF Open
    <3> QED
      BY <3>1, <3>2 DEF EntersArrive
  <2>3. UnopenedIsEmpty'
    <3>1. \A e \in Ends : link'[e[1]] = IF e[1] = c THEN "up" ELSE link[e[1]]
      BY <1>1, <1>a, EndsAre DEF Open, Types, LinksOK
    <3> QED
      BY <1>1, <1>a, <3>1 DEF Open, UnopenedIsEmpty
  <2> QED
    BY <1>b, <2>2, <2>3 DEF Told, JumpsTell
<1>2. CASE Break(c)
  <2>1. \A e \in Ends : link'[e[1]] = "unopened" => link[e[1]] = "unopened"
    BY <1>2, <1>a, EndsAre DEF Break, Types, LinksOK
  <2> QED
    BY <1>2, <1>a, <1>b, <2>1 DEF Break, Told, JumpsTell, EntersArrive, UnopenedIsEmpty
<1> QED
  BY <1>1, <1>2

LEMMA ReaderMutual ==
    ASSUME MutualInv, NEW c, NEW m, <<c, m>> \in Ends, Reader(c, m)
    PROVE  Told /\ Registered' /\ UnopenedIsEmpty'
<1>a. /\ c \in Conns /\ m \in Machines /\ Far(c, m) \in Machines /\ <<c, Far(c, m)>> \in Ends
      /\ Far(c, Far(c, m)) = m
  BY EndsAre
<1>b. Types /\ Registered /\ UnopenedIsEmpty /\ EmptyUnopened(wire)
  BY WireTold DEF MutualInv
<1>1. CASE ReaderError(c, m)
  <2> DEFINE f == <<c, Far(c, m)>>
  <2>1. \A e \in Ends : wire'[e] = IF e = f THEN <<>> ELSE wire[e]
    BY <1>1, <1>b DEF ReaderError, Types, WireOK
  <2>2. HasEnter(wire[f]) => missed'
    BY <1>1 DEF ReaderError, HasEnter
  <2>3. EntersArrive
    BY <2>1, <2>2 DEF EntersArrive
  <2>4. UnopenedIsEmpty'
    BY <1>1, <1>b, <2>1 DEF UnopenedIsEmpty, ReaderError
  <2>5. Registered'
    <3>1. \A p, n \in Machines : peers'[p][n] = None \/ peers'[p][n] = peers[p][n]
      BY <1>1, <1>a, <1>b DEF ReaderError, Types, LinksOK
    <3> QED
      BY <1>b, <3>1 DEF Registered
  <2> QED
    BY <1>1, <2>3, <2>4, <2>5 DEF ReaderError, Told, JumpsTell, control
<1>2. CASE Register(c, m)
  <2>1. /\ Fits(Rest(c, m)) /\ EmptyUnopened(Rest(c, m)) /\ Keeps(Rest(c, m))
    BY <1>2, <1>b, RestTold DEF Register, Receives
  <2>2. Keeps(wire') /\ EmptyUnopened(wire')
    <3>1. Packet("HandshakeAck") \in Packets
      BY PacketTypes DEF Controls
    <3>2. wire' = Rest(c, m) \/ wire' = Offer(Rest(c, m), m, {c}, Packet("HandshakeAck"))
      BY <1>2 DEF Register
    <3> QED
      BY <2>1, <3>1, <3>2, OfferKeeps, OfferEmptyUnopened DEF Fits
  <2>3. Registered'
    <3>1. \A p, n \in Machines :
             peers'[p][n] = IF p = m /\ n = Far(c, m) THEN c ELSE peers[p][n]
      BY <1>2, <1>a, <1>b DEF Register, Types, LinksOK
    <3> QED
      BY <1>b, <3>1 DEF Registered
  <2> QED
    BY <1>2, <2>2, <2>3, QuietTold DEF Register, control
<1>3. CASE EnterScreen(c, m)
  <2>1. /\ wire' = Rest(c, m) /\ EmptyUnopened(Rest(c, m)) /\ link' = link /\ peers' = peers
        /\ missed' = missed
        /\ \A e \in Ends : e # <<c, Far(c, m)>> => Rest(c, m)[e] = wire[e]
    BY <1>3, <1>b, RestTold DEF EnterScreen, Receives, links
  <2>2. \A p \in Machines : session'[p] = IF p = m THEN RemoteControlled(RemotePeerLabel)
                                                  ELSE session[p]
    BY <1>3, <1>b DEF EnterScreen, enter_remote_controlled, Types, SessionsOK
  <2>3. EntersArrive
    <3>1. IsRemoteControlled(session'[m])
      BY <1>a, <2>2 DEF IsRemoteControlled, RemoteControlled
    <3>2. \A e \in Ends : e = <<c, Far(c, m)>> => Far(e[1], e[2]) = m
      BY <1>a
    <3> QED
      BY <2>1, <3>1, <3>2 DEF EntersArrive
  <2>4. JumpsTell
    BY <2>2 DEF JumpsTell, RemoteControlled, ControllingRemote
  <2>5. UnopenedIsEmpty'
    BY <2>1 DEF UnopenedIsEmpty, EmptyUnopened
  <2> QED
    BY <1>b, <2>1, <2>3, <2>4, <2>5, RegisteredStays DEF Told
<1>4. CASE Return(c, m)
  <2>1. /\ wire' = Rest(c, m) /\ EmptyUnopened(Rest(c, m)) /\ Keeps(Rest(c, m))
        /\ link' = link /\ peers' = peers /\ missed' = missed
    BY <1>4, <1>b, RestTold DEF Return, Receives, links
  <2>2. \A p \in Machines : session'[p] = session[p] \/ ~IsControllingRemote(session'[p])
    BY <1>4, <1>b DEF Return, return_to_local, Types, SessionsOK, LocalActive, IsControllingRemote
  <2> QED
    BY <1>b, <2>1, <2>2, QuietTold, RegisteredStays
<1>5. CASE Input(c, m)
  <2>1. /\ Fits(Rest(c, m)) /\ EmptyUnopened(Rest(c, m)) /\ Keeps(Rest(c, m))
        /\ link' = link /\ peers' = peers
    BY <1>5, <1>b, RestTold DEF Input, Receives, links
  <2>2. Inject(m, Head(Arrived(c, m)).input, Rest(c, m))
    BY <1>5 DEF Input
  <2> QED
    BY <1>a, <1>b, <2>1, <2>2, HookTold, RegisteredStays
<1> QED
  BY <1>1, <1>2, <1>3, <1>4, <1>5 DEF Reader

LEMMA MutualInvHolds == Spec => []MutualInv
<1>1. Init => MutualInv
  <2> SUFFICES ASSUME Init PROVE MutualInv
    OBVIOUS
  <2>1. Registered /\ UnopenedIsEmpty
    BY DEF Init, Registered, UnopenedIsEmpty
  <2>2. MutualControlIsTransient
    BY DEF Init, MutualControlIsTransient, LocalActive, ControllingRemote
  <2> QED
    BY <2>1, <2>2, TypesInit DEF MutualInv
<1>2. MutualInv /\ [Next]_vars => MutualInv'
  <2> SUFFICES ASSUME MutualInv, [Next]_vars PROVE MutualInv'
    OBVIOUS
  <2>1. Types'
    BY TypesStep DEF MutualInv
  <2>2. Told /\ Registered' /\ UnopenedIsEmpty'
    <3>1. CASE UNCHANGED vars
      BY <3>1, WireTold, QuietTold, RegisteredStays DEF vars, control, links, MutualInv
    <3>2. ASSUME NEW e \in Ends, Reader(e[1], e[2])
          PROVE  Told /\ Registered' /\ UnopenedIsEmpty'
      BY <3>2, EndsAre, ReaderMutual
    <3> QED
      BY <3>1, <3>2, UserMutual, SenderMutual, UdpMutual, LinkMutual DEF Next
  <2> QED
    BY <2>1, <2>2, ToldIsEnough DEF MutualInv
<1> QED
  BY <1>1, <1>2, PTL DEF Spec

\* Two machines control each other only while one has yet to hear of the
\* other's jump, or will never hear of it.
THEOREM MutualControlPasses == Spec => []MutualControlIsTransient
BY MutualInvHolds, PTL DEF MutualInv
=============================================================================
