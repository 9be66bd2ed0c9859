--------------------------- MODULE RoutingProofs ---------------------------
(***************************************************************************)
(* Any number of daemons, connections and inputs: an input acts at most    *)
(* once (Session implements InputRouting), and the inputs of one user act  *)
(* on one machine in the order in which they were made.                    *)
(***************************************************************************)
EXTENDS SessionProofs

\* What is in a sequence, and what comes before what in it.
Members(s) == {s[k] : k \in DOMAIN s}
Precedes(s, a, b) == \E j, k \in DOMAIN s : j < k /\ s[j] = a /\ s[k] = b
\* The inputs that a wire carries.
Carried(w) == {p.input : p \in {p \in Members(w) : p.type = "Input"}}
InputsPrecede(w, p, q) == Precedes(w, p, q) /\ p.type = "Input" /\ q.type = "Input"

-----------------------------------------------------------------------------
(* Where inputs are.                                                        *)

\* A datagram that the filter of its receiver would let through.
Live(d) == d \in network /\ d.event.seq > last[d.to]

Places ==
    ({"queue", "sending", "injecting", "acted"} \X Machines)
        \cup ({"wire"} \X Ends) \cup ({"network"} \X [to : Machines, event : Events])

\* The inputs at a place.
At(place) ==
    LET x == place[2] IN
    CASE place[1] = "queue"     -> {v.input : v \in Members(queue[x])}
      [] place[1] = "sending"   -> {s.event.input : s \in {sending[x]} \ {None}}
      [] place[1] = "injecting" -> {injecting[x]} \ {None}
      [] place[1] = "acted"     -> Members(acted[x])
      [] place[1] = "wire"      -> Carried(wire[x])
      [] place[1] = "network"   -> {d.event.input : d \in {d \in {x} : Live(d)}}

\* An input is at one place only, once, and was made by its user.
OnePlace ==
    \A p, q \in Places : \A i \in At(p), j \in At(q) : Name(i) = Name(j) => p = q
OnceInQueue ==
    \A m \in Machines : \A v, w \in Members(queue[m]) :
        Precedes(queue[m], v, w) => Name(v.input) # Name(w.input)
OnceOnWire ==
    \A e \in Ends : \A p, q \in Members(wire[e]) :
        Precedes(wire[e], p, q) /\ p.type = "Input" /\ q.type = "Input"
            => Name(p.input) # Name(q.input)
WasMade == \A p \in Places : \A i \in At(p) : i.n <= pressed[i.from]
DatagramsWereMade == \A d \in network : d.event.input.n <= pressed[d.event.input.from]
OnceInv == Types /\ OnePlace /\ OnceInQueue /\ OnceOnWire /\ WasMade /\ DatagramsWereMade

-----------------------------------------------------------------------------
(* In which order they are there.                                           *)

\* An input of machine p's user that no other machine has relayed.
Own(i, p, kind) == i.from = p /\ i.kind = kind /\ ~i.relayed

\* Moves go by datagram and keys by connection; what has not been relayed comes
\* from its user's machine, and is not on its way back to it.
FromTheUser(i, m) == i.relayed \/ i.from = m
NotBack(i, m) == i.relayed \/ i.from # m
Ways ==
    /\ \A m \in Machines : \A v \in Members(queue[m]) : FromTheUser(v.input, m)
    /\ \A m \in Machines : sending[m] # None => FromTheUser(sending[m].event.input, m)
    /\ \A d \in network : d.event.input.kind = "move" /\ NotBack(d.event.input, d.to)
    /\ \A m \in Machines : injecting[m] # None =>
          injecting[m].kind = "move" /\ NotBack(injecting[m], m)
    /\ \A e \in Ends : \A i \in Carried(wire[e]) : i.kind = "key" /\ FromTheUser(i, e[2])

\* The moves of machine p's user that its capturer has numbered, as far as they
\* are on their way.
Moves(p) ==
    {v \in Members(queue[p]) \cup {s.event : s \in {sending[p]} \ {None}}
              \cup {d.event : d \in network} : Own(v.input, p, "move")}

\* Later moves have higher numbers.
MovesNumbered ==
    \A p \in Machines : \A v \in Moves(p) :
        v.seq < seq[p] /\ \A w \in Moves(p) : v.seq < w.seq => v.input.n < w.input.n
\* What the filter of a machine would still let through is later than what it
\* has let through.
MovesAhead ==
    \A p \in Machines : \A m \in Machines \ {p} : \A v \in Moves(p) : v.seq > last[m] =>
        \A i \in Members(acted[m]) \cup ({injecting[m]} \ {None}) :
            Own(i, p, "move") => i.n < v.input.n
MovesActed ==
    \A p, m \in Machines : \A i \in Members(acted[m]) :
        Own(i, p, "move") /\ injecting[m] # None /\ Own(injecting[m], p, "move")
            => i.n < injecting[m].n

\* The keys of machine p's user that have not left its sender task.
Behind(p) ==
    {v.input : v \in {v \in Members(queue[p]) \cup {s.event : s \in {sending[p]} \ {None}} :
                         Own(v.input, p, "key")}}
\* At the queue and the sender task of a machine, on its wires and where they
\* acted, its user's keys are in order: what is ahead was made earlier.
KeysQueued ==
    \A p \in Machines :
        /\ \A v, w \in Members(queue[p]) :
              Precedes(queue[p], v, w) /\ Own(v.input, p, "key") /\ Own(w.input, p, "key")
                  => v.input.n < w.input.n
        /\ sending[p] # None /\ Own(sending[p].event.input, p, "key") =>
              \A v \in Members(queue[p]) :
                 Own(v.input, p, "key") => sending[p].event.input.n < v.input.n
KeysOnWire ==
    \A e \in Ends : \A k, l \in Members(wire[e]) :
        InputsPrecede(wire[e], k, l) /\ Own(k.input, e[2], "key") /\ Own(l.input, e[2], "key")
            => k.input.n < l.input.n
KeysSent ==
    \A e \in Ends : \A i \in Carried(wire[e]), j \in Behind(e[2]) :
        Own(i, e[2], "key") => i.n < j.n
KeysArrived ==
    \A e \in Ends : \A i \in Members(acted[Far(e[1], e[2])]), j \in Carried(wire[e]) :
        Own(i, e[2], "key") /\ Own(j, e[2], "key") => i.n < j.n
KeysActed ==
    \A p \in Machines : \A m \in Machines \ {p} :
        \A i \in Members(acted[m]), j \in Behind(p) : Own(i, p, "key") => i.n < j.n

\* What acted of one user on one machine is in order.
ActedInOrder(kind) ==
    \A p, m \in Machines : \A i, j \in Members(acted[m]) :
        Precedes(acted[m], i, j) /\ Own(i, p, kind) /\ Own(j, p, kind) => i.n < j.n

-----------------------------------------------------------------------------
(* Sequences.                                                               *)

LEMMA SeqMembers ==
    ASSUME NEW S, NEW s \in Seq(S)
    PROVE  /\ Members(s) \subseteq S
           /\ \A a, b : Precedes(s, a, b) => a \in Members(s) /\ b \in Members(s)
BY DEF Members, Precedes

LEMMA SeqEmpty == Members(<<>>) = {} /\ \A a, b : ~Precedes(<<>>, a, b)
BY DEF Members, Precedes

LEMMA SeqAppend ==
    ASSUME NEW S, NEW s \in Seq(S), NEW x \in S
    PROVE  /\ Append(s, x) \in Seq(S)
           /\ Members(Append(s, x)) = Members(s) \cup {x}
           /\ \A a, b : Precedes(Append(s, x), a, b)
                           => Precedes(s, a, b) \/ (a \in Members(s) /\ b = x)
<1> DEFINE t == Append(s, x)
<1>1. /\ Len(s) \in Nat /\ DOMAIN s = 1 .. Len(s) /\ DOMAIN t = 1 .. Len(s) + 1
      /\ t \in Seq(S) /\ \A k \in 1 .. Len(s) : t[k] = s[k]
      /\ t[Len(s) + 1] = x
  BY AppendProperties
<1> HIDE DEF t
<1>2. Members(t) = Members(s) \cup {x}
  <2>1. \A k \in DOMAIN t : k \in DOMAIN s \/ k = Len(s) + 1
    BY <1>1
  <2>2. DOMAIN s \subseteq DOMAIN t /\ Len(s) + 1 \in DOMAIN t
    BY <1>1
  <2> QED
    BY <1>1, <2>1, <2>2 DEF Members
<1>3. ASSUME NEW a, NEW b, Precedes(t, a, b)
      PROVE  Precedes(s, a, b) \/ (a \in Members(s) /\ b = x)
  <2>1. PICK j, k \in 1 .. Len(s) + 1 : j < k /\ t[j] = a /\ t[k] = b
    BY <1>1, <1>3 DEF Precedes
  <2>2. j \in 1 .. Len(s) /\ s[j] = a
    BY <1>1, <2>1
  <2>3. CASE k \in 1 .. Len(s)
    BY <1>1, <2>1, <2>2, <2>3 DEF Precedes
  <2>4. CASE k = Len(s) + 1
    BY <1>1, <2>1, <2>2, <2>4 DEF Members
  <2> QED
    BY <1>1, <2>1, <2>3, <2>4
<1> QED
  BY <1>1, <1>2, <1>3 DEF t

LEMMA SeqTail ==
    ASSUME NEW S, NEW s \in Seq(S), s # <<>>
    PROVE  /\ Head(s) \in S /\ Tail(s) \in Seq(S)
           /\ Members(s) = {Head(s)} \cup Members(Tail(s))
           /\ \A a, b : Precedes(Tail(s), a, b) => Precedes(s, a, b)
           /\ \A b \in Members(Tail(s)) : Precedes(s, Head(s), b)
<1> DEFINE t == Tail(s)
<1>1. /\ Len(s) \in Nat \ {0} /\ DOMAIN s = 1 .. Len(s) /\ DOMAIN t = 1 .. Len(s) - 1
      /\ Head(s) \in S /\ t \in Seq(S) /\ Head(s) = s[1]
      /\ \A k \in 1 .. Len(s) - 1 : t[k] = s[k + 1]
  BY HeadTailProperties, EmptySeq
<1> HIDE DEF t
<1>2. 1 \in DOMAIN s /\ \A k \in DOMAIN t : k + 1 \in DOMAIN s /\ t[k] = s[k + 1] /\ 1 < k + 1
  BY <1>1
<1>3. \A k \in DOMAIN s : k = 1 \/ (k - 1 \in DOMAIN t /\ t[k - 1] = s[k])
  BY <1>1
<1>4. Members(s) = {Head(s)} \cup Members(t)
  BY <1>1, <1>2, <1>3 DEF Members
<1>5. ASSUME NEW a, NEW b, Precedes(t, a, b) PROVE Precedes(s, a, b)
  <2>1. PICK j, k \in DOMAIN t : j < k /\ t[j] = a /\ t[k] = b
    BY <1>5 DEF Precedes
  <2>2. j + 1 \in DOMAIN s /\ k + 1 \in DOMAIN s /\ j + 1 < k + 1
    BY <1>1, <2>1
  <2> QED
    BY <1>2, <2>1, <2>2 DEF Precedes
<1>6. \A b \in Members(t) : Precedes(s, Head(s), b)
  BY <1>1, <1>2 DEF Members, Precedes
<1> QED
  BY <1>1, <1>4, <1>5, <1>6 DEF t

-----------------------------------------------------------------------------
(* Wires.                                                                   *)

\* The wires w carry at most the inputs of the wires v, in the same order; and
\* all of them.
Fewer(w, v) ==
    \A e \in Ends : /\ Carried(w[e]) \subseteq Carried(v[e])
                    /\ \A p, q : InputsPrecede(w[e], p, q) => InputsPrecede(v[e], p, q)
Alike(w, v) == Fewer(w, v) /\ \A e \in Ends : Carried(w[e]) = Carried(v[e])

WireType == [Ends -> Seq(Packets)]

LEMMA AlikeSelf == \A w : Alike(w, w)
BY DEF Alike, Fewer

LEMMA FewerStill == \A u, v, w : Fewer(u, v) /\ Fewer(v, w) => Fewer(u, w)
BY DEF Fewer

LEMMA ControlAppended ==
    ASSUME NEW s \in Seq(Packets), NEW p \in Packets, p.type # "Input"
    PROVE  /\ Carried(Append(s, p)) = Carried(s)
           /\ \A a, b : InputsPrecede(Append(s, p), a, b) => InputsPrecede(s, a, b)
BY SeqAppend DEF Carried, InputsPrecede

\* An offered control packet leaves the inputs as they are.
LEMMA OfferAlike ==
    ASSUME NEW w \in WireType, NEW m, NEW cs, NEW type \in Controls
    PROVE  Alike(Offer(w, m, cs, Packet(type)), w)
<1>1. Packet(type) \in Packets /\ Packet(type).type # "Input"
  BY PacketTypes DEF Packet, Controls
<1>2. ASSUME NEW e \in Ends
      PROVE  LET o == Offer(w, m, cs, Packet(type)) IN
             o[e] = w[e] \/ o[e] = Append(w[e], Packet(type))
  BY DEF Offer
<1>3. \A e \in Ends : w[e] \in Seq(Packets)
  BY DEF WireType
<1> QED
  BY <1>1, <1>2, <1>3, ControlAppended DEF Alike, Fewer

\* A reader takes the head of one wire.
LEMMA RestIs ==
    ASSUME WireOK, NEW c, NEW m, <<c, m>> \in Ends, Arrived(c, m) # <<>>
    PROVE  LET f == <<c, Far(c, m)>> IN
           /\ f \in Ends /\ f[1] = c /\ f[2] = Far(c, m)
           /\ wire[f] \in Seq(Packets) /\ wire[f] # <<>>
           /\ Rest(c, m) \in WireType
           /\ \A e \in Ends : Rest(c, m)[e] = IF e = f THEN Tail(wire[f]) ELSE wire[e]
           /\ Fewer(Rest(c, m), wire)
           /\ Head(wire[f]).type # "Input" => Alike(Rest(c, m), wire)
<1> DEFINE f == <<c, Far(c, m)>>
<1>1. f \in Ends /\ wire[f] \in Seq(Packets) /\ wire[f] # <<>>
  BY EndsAre DEF Arrived, WireOK
<1>2. /\ Head(wire[f]) \in Packets /\ Tail(wire[f]) \in Seq(Packets)
      /\ Members(wire[f]) = {Head(wire[f])} \cup Members(Tail(wire[f]))
      /\ \A a, b : Precedes(Tail(wire[f]), a, b) => Precedes(wire[f], a, b)
  BY <1>1, SeqTail
<1>3. \A e \in Ends : Rest(c, m)[e] = IF e = f THEN Tail(wire[f]) ELSE wire[e]
  BY DEF Rest, WireOK
<1>4. Rest(c, m) \in WireType
  BY <1>2 DEF Rest, WireOK, WireType
<1>5. Fewer(Rest(c, m), wire)
  BY <1>2, <1>3 DEF Fewer, Carried, InputsPrecede
<1>6. Head(wire[f]).type # "Input" => Alike(Rest(c, m), wire)
  BY <1>2, <1>3, <1>5 DEF Alike, Carried
<1> QED
  BY <1>1, <1>3, <1>4, <1>5, <1>6

-----------------------------------------------------------------------------
(* The hook.                                                                *)

\* The outcomes for an input that the hook of machine m sees: its applications
\* see it, it is captured, or neither.
Acting(m, i) == acted' = [acted EXCEPT ![m] = Append(@, i)] /\ queue' = queue
Capturing(m, i) ==
    /\ queue' = [queue EXCEPT ![m] = Append(@, Captured(m, i))]
    /\ acted' = acted
    /\ i.kind = "move" => seq' = [seq EXCEPT ![m] = @ + 1]
Dropping == queue' = queue /\ acted' = acted
Outcome(m, i) == Acting(m, i) \/ Capturing(m, i) \/ Dropping
SeqGrows == \A p \in Machines : seq[p] <= seq'[p]

LEMMA HookOutcome ==
    ASSUME Types, NEW m \in Machines, NEW i, NEW w \in WireType,
           HookCall(m, i, w) \/ Inject(m, i, w)
    PROVE  Outcome(m, i) /\ Alike(wire', w) /\ SeqGrows
<1>1. \/ seq' = seq
      \/ HookCall(m, i, w) /\ seq' = [seq EXCEPT ![m] = IF i.kind = "move" THEN @ + 1 ELSE @]
  BY DEF Inject, HookCall
<1>2. SeqGrows
  BY <1>1 DEF SeqGrows, Types, CountsOK
<1>3. CASE HookPass(m, i, w)
  BY <1>2, <1>3, AlikeSelf DEF HookPass, Acts, Outcome, Acting
<1>4. CASE HookCall(m, i, w) /\ HookForward(m, i, w)
  <2>1. queue' = queue \/ queue' = [queue EXCEPT ![m] = Append(@, Captured(m, i))]
    BY <1>4 DEF HookForward, Types, QueueOK
  <2>2. Outcome(m, i)
    BY <1>4, <2>1 DEF HookCall, HookForward, Outcome, Capturing, Dropping
  <2> QED
    BY <1>2, <1>4, <2>2, AlikeSelf DEF HookForward
<1>5. CASE HookPreempt(m, i, w)
  <2>1. Alike(wire', w)
    BY <1>5, OfferAlike DEF HookPreempt, Controls
  <2> QED
    BY <1>2, <1>5, <2>1 DEF HookPreempt, Acts, Outcome, Acting
<1>6. CASE HookJump(m, i, w)
  <2>1. Alike(wire', w)
    BY <1>6, OfferAlike, AlikeSelf DEF HookJump, Controls
  <2> QED
    BY <1>2, <1>6, <2>1 DEF HookJump, Outcome, Dropping
<1> QED
  BY <1>3, <1>4, <1>5, <1>6 DEF HookCall, Inject

-----------------------------------------------------------------------------
(* Places.                                                                  *)

LEMMA PlacesAre ==
    \A p \in Places :
        \/ \E m \in Machines : p \in {<<"queue", m>>, <<"sending", m>>, <<"injecting", m>>,
                                      <<"acted", m>>}
        \/ \E e \in Ends : p = <<"wire", e>>
        \/ \E d \in [to : Machines, event : Events] : p = <<"network", d>>
BY DEF Places

LEMMA ArePlaces ==
    /\ \A m \in Machines : /\ <<"queue", m>> \in Places /\ <<"sending", m>> \in Places
                           /\ <<"injecting", m>> \in Places /\ <<"acted", m>> \in Places
    /\ \A e \in Ends : <<"wire", e>> \in Places
    /\ \A d \in [to : Machines, event : Events] : <<"network", d>> \in Places
BY DEF Places

LEMMA AtIs ==
    /\ \A m : At(<<"queue", m>>) = {v.input : v \in Members(queue[m])}
    /\ \A m : At(<<"sending", m>>) = {s.event.input : s \in {sending[m]} \ {None}}
    /\ \A m : At(<<"injecting", m>>) = {injecting[m]} \ {None}
    /\ \A m : At(<<"acted", m>>) = Members(acted[m])
    /\ \A e : At(<<"wire", e>>) = Carried(wire[e])
    /\ \A d : At(<<"network", d>>) = {f.event.input : f \in {f \in {d} : Live(f)}}
BY DEF At

LEMMA InHand ==
    /\ \A m : injecting[m] # None => injecting[m] \in At(<<"injecting", m>>)
    /\ \A m : sending[m] # None => sending[m].event.input \in At(<<"sending", m>>)
<1>1. \A m : At(<<"injecting", m>>) = {injecting[m]} \ {None}
  BY DEF At
<1>2. \A m : At(<<"sending", m>>) = {s.event.input : s \in {sending[m]} \ {None}}
  BY DEF At
<1>3. \A m : injecting[m] # None => injecting[m] \in At(<<"injecting", m>>)
  BY <1>1
<1>4. \A m : sending[m] # None => sending[m].event.input \in At(<<"sending", m>>)
  BY <1>2
<1> QED
  BY <1>3, <1>4

LEMMA OnWire == \A e : At(<<"wire", e>>) = Carried(wire[e])
BY DEF At

LEMMA AtIsNext ==
    /\ \A m : At(<<"queue", m>>)' = {v.input : v \in Members(queue'[m])}
    /\ \A m : At(<<"sending", m>>)' = {s.event.input : s \in {sending'[m]} \ {None}}
    /\ \A m : At(<<"injecting", m>>)' = {injecting'[m]} \ {None}
    /\ \A m : At(<<"acted", m>>)' = Members(acted'[m])
    /\ \A e : At(<<"wire", e>>)' = Carried(wire'[e])
    /\ \A d : At(<<"network", d>>)' = {f.event.input : f \in {f \in {d} : Live(f)'}}
BY DEF At

LEMMA AtNetwork ==
    \A d : /\ At(<<"network", d>>) = IF Live(d) THEN {d.event.input} ELSE {}
           /\ At(<<"network", d>>)' = IF Live(d)' THEN {d.event.input} ELSE {}
<1>1. ASSUME NEW d PROVE {f.event.input : f \in {f \in {d} : Live(f)}} =
                         IF Live(d) THEN {d.event.input} ELSE {}
  OBVIOUS
<1>2. ASSUME NEW d PROVE {f.event.input : f \in {f \in {d} : Live(f)'}} =
                         IF Live(d)' THEN {d.event.input} ELSE {}
  OBVIOUS
<1> QED
  BY <1>1, <1>2, AtIs, AtIsNext

LEMMA AtStays ==
    /\ \A m : queue'[m] = queue[m] => At(<<"queue", m>>)' = At(<<"queue", m>>)
    /\ \A m : sending'[m] = sending[m] => At(<<"sending", m>>)' = At(<<"sending", m>>)
    /\ \A m : injecting'[m] = injecting[m] => At(<<"injecting", m>>)' = At(<<"injecting", m>>)
    /\ \A m : acted'[m] = acted[m] => At(<<"acted", m>>)' = At(<<"acted", m>>)
    /\ \A d : Live(d)' = Live(d) => At(<<"network", d>>)' = At(<<"network", d>>)
<1>1. ASSUME NEW m, queue'[m] = queue[m] PROVE At(<<"queue", m>>)' = At(<<"queue", m>>)
  <2> DEFINE old == Members(queue[m])
             new == Members(queue'[m])
  <2>1. At(<<"queue", m>>) = {v.input : v \in old} /\ At(<<"queue", m>>)' = {v.input : v \in new}
    BY AtIs, AtIsNext
  <2>2. old = new
    BY <1>1
  <2> HIDE DEF old, new
  <2> QED
    BY <2>1, <2>2
<1>2. ASSUME NEW m, sending'[m] = sending[m] PROVE At(<<"sending", m>>)' = At(<<"sending", m>>)
  BY <1>2, AtIs, AtIsNext
<1>3. ASSUME NEW m, injecting'[m] = injecting[m]
      PROVE  At(<<"injecting", m>>)' = At(<<"injecting", m>>)
  BY <1>3, AtIs, AtIsNext
<1>4. ASSUME NEW m, acted'[m] = acted[m] PROVE At(<<"acted", m>>)' = At(<<"acted", m>>)
  BY <1>4, AtIs, AtIsNext
<1>5. ASSUME NEW d, Live(d)' = Live(d) PROVE At(<<"network", d>>)' = At(<<"network", d>>)
  BY <1>5, AtIs, AtIsNext
<1> QED
  BY <1>1, <1>2, <1>3, <1>4, <1>5

\* A step takes inputs away from places; or puts the one named x at place dst,
\* from which it is nowhere else.
Loses(p) == \A i \in At(p)' : \E j \in At(p) : Name(j) = Name(i)
Gains(dst, x) ==
    /\ \A i \in At(dst)' : Name(i) = x \/ \E j \in At(dst) : Name(j) = Name(i)
    /\ \A p \in Places \ {dst} : Loses(p) /\ \A i \in At(p)' : Name(i) # x
PressedGrows == pressed' \in [Machines -> Nat] /\ \A m \in Machines : pressed[m] <= pressed'[m]

LEMMA InputAt == Types => \A p \in Places : At(p) \subseteq Inputs
<1> SUFFICES ASSUME Types, NEW p \in Places PROVE At(p) \subseteq Inputs
  OBVIOUS
<1>1. ASSUME NEW m \in Machines, p = <<"queue", m>> PROVE At(p) \subseteq Inputs
  <2>1. Members(queue[m]) \subseteq Events
    BY SeqMembers DEF Types, QueueOK
  <2> QED
    BY <1>1, <2>1, AtIs DEF Events
<1>2. ASSUME NEW m \in Machines, p = <<"sending", m>> PROVE At(p) \subseteq Inputs
  BY <1>2, AtIs DEF Types, SendingOK, Events
<1>3. ASSUME NEW m \in Machines, p = <<"injecting", m>> PROVE At(p) \subseteq Inputs
  BY <1>3, AtIs DEF Types, UdpOK
<1>4. ASSUME NEW m \in Machines, p = <<"acted", m>> PROVE At(p) \subseteq Inputs
  BY <1>4, AtIs, SeqMembers DEF Types, ActedOK
<1>5. ASSUME NEW e \in Ends, p = <<"wire", e>> PROVE At(p) \subseteq Inputs
  BY <1>5, AtIs, SeqMembers, PacketTypes DEF Types, WireOK, Carried
<1>6. ASSUME NEW d \in [to : Machines, event : Events], p = <<"network", d>>
      PROVE  At(p) \subseteq Inputs
  BY <1>6, AtIs DEF Events
<1> QED
  BY <1>1, <1>2, <1>3, <1>4, <1>5, <1>6, PlacesAre

\* Names tell who made an input, and as which.
LEMMA NameTells == \A i, j : Name(i) = Name(j) => i.from = j.from /\ i.n = j.n /\ i.kind = j.kind
BY DEF Name

LEMMA GainsStaysOne ==
    ASSUME Types, OnePlace, WasMade, PressedGrows, NEW dst \in Places, NEW x \in Inputs,
           Gains(dst, Name(x)), x.n <= pressed'[x.from]
    PROVE  OnePlace' /\ WasMade'
<1>1. OnePlace'
  <2> SUFFICES ASSUME NEW p \in Places, NEW q \in Places, NEW i \in At(p)', NEW j \in At(q)',
                      Name(i) = Name(j)
               PROVE  p = q
    BY DEF OnePlace, Places
  <2>1. CASE Name(i) = Name(x)
    BY <2>1 DEF Gains
  <2>2. CASE Name(i) # Name(x)
    BY <2>2 DEF Gains, Loses, OnePlace
  <2> QED
    BY <2>1, <2>2
<1>2. WasMade'
  <2> SUFFICES ASSUME NEW p \in Places, NEW i \in At(p)' PROVE i.n <= pressed'[i.from]
    BY DEF WasMade, Places
  <2>1. CASE Name(i) = Name(x)
    BY <2>1, NameTells
  <2>2. CASE Name(i) # Name(x)
    <3>1. PICK j \in At(p) : Name(j) = Name(i)
      BY <2>2 DEF Gains, Loses
    <3>2. j \in Inputs /\ i.n = j.n /\ i.from = j.from /\ j.n <= pressed[j.from]
      BY <3>1, InputAt, NameTells DEF WasMade
    <3> QED
      BY <3>2 DEF PressedGrows, Types, CountsOK, Inputs
  <2> QED
    BY <2>1, <2>2
<1> QED
  BY <1>1, <1>2

LEMMA LosesStaysOne ==
    ASSUME Types, OnePlace, WasMade, PressedGrows, \A p \in Places : Loses(p)
    PROVE  OnePlace' /\ WasMade'
<1>1. OnePlace'
  BY DEF OnePlace, Loses, Places
<1>2. WasMade'
  <2> SUFFICES ASSUME NEW p \in Places, NEW i \in At(p)' PROVE i.n <= pressed'[i.from]
    BY DEF WasMade, Places
  <2>1. PICK j \in At(p) : Name(j) = Name(i)
    BY DEF Loses
  <2>2. j \in Inputs /\ i.n = j.n /\ i.from = j.from /\ j.n <= pressed[j.from]
    BY <2>1, InputAt, NameTells DEF WasMade
  <2> QED
    BY <2>2 DEF PressedGrows, Types, CountsOK, Inputs
<1> QED
  BY <1>1, <1>2

-----------------------------------------------------------------------------
(* Every input is at one place, once.                                       *)

\* The hook of machine m sees an input that was taken from where it was, if it
\* was anywhere: w are the wires after that.
Taken(m, i, w) ==
    /\ Outcome(m, i) /\ Fewer(wire', w) /\ Fewer(w, wire)
    /\ sending' = sending /\ network' = network /\ last' = last
    /\ \A n \in Machines : injecting'[n] = injecting[n] \/ injecting'[n] = None
    /\ PressedGrows /\ i.n <= pressed'[i.from]
Nowhere(x, w) ==
    /\ \A m \in Machines : injecting'[m] # None => Name(injecting'[m]) # x
    /\ \A e \in Ends : \A j \in Carried(w[e]) : Name(j) # x
    /\ \A p \in Places : (\A n \in Machines : p # <<"injecting", n>>)
                            /\ (\A e \in Ends : p # <<"wire", e>>)
                         => \A j \in At(p) : Name(j) # x

LEMMA NowhereIs ==
    ASSUME NEW x, NEW w, Nowhere(x, w), NEW n \in Machines
    PROVE  /\ \A j \in Members(acted[n]) : Name(j) # x
           /\ \A v \in Members(queue[n]) : Name(v.input) # x
           /\ sending[n] # None => Name(sending[n].event.input) # x
<1>1. ASSUME NEW p \in {<<"acted", n>>, <<"queue", n>>, <<"sending", n>>}
      PROVE  \A j \in At(p) : Name(j) # x
  <2>1. p \in Places
    BY ArePlaces
  <2>2. (\A m \in Machines : p # <<"injecting", m>>) /\ (\A e \in Ends : p # <<"wire", e>>)
    OBVIOUS
  <2> QED
    BY <2>1, <2>2 DEF Nowhere
<1>2. \A v \in Members(queue[n]) : v.input \in At(<<"queue", n>>)
  BY AtIs
<1>3. sending[n] # None => sending[n].event.input \in At(<<"sending", n>>)
  BY AtIs
<1>4. At(<<"acted", n>>) = Members(acted[n])
  BY AtIs
<1> QED
  BY <1>1, <1>2, <1>3, <1>4

LEMMA CapturedName == \A m, i : i \in Inputs => Name(Captured(m, i).input) = Name(i)
BY DEF Captured, Name, Inputs

LEMMA HookOnce ==
    ASSUME OnceInv, Types', NEW m \in Machines, NEW i \in Inputs, NEW w,
           Taken(m, i, w), Nowhere(Name(i), w)
    PROVE  OnceInv'
<1> DEFINE x == Name(i)
           cap == Captured(m, i)
<1>0. Types
  BY DEF OnceInv
<1>a. ASSUME NEW n \in Machines, <<"injecting", n>> \in Places
      PROVE  Loses(<<"injecting", n>>) /\ \A j \in At(<<"injecting", n>>)' : Name(j) # x
  BY AtIs, AtIsNext DEF Taken, Nowhere, Loses
<1>b. ASSUME NEW e \in Ends
      PROVE  Loses(<<"wire", e>>) /\ \A j \in At(<<"wire", e>>)' : Name(j) # x
  <2>1. Carried(wire'[e]) \subseteq Carried(w[e]) /\ Carried(w[e]) \subseteq Carried(wire[e])
    BY DEF Taken, Fewer
  <2> QED
    BY <2>1, AtIs, AtIsNext DEF Nowhere, Loses
<1>c. ASSUME NEW n \in Machines
      PROVE  At(<<"sending", n>>)' = At(<<"sending", n>>)
  BY AtStays DEF Taken
<1>d. ASSUME NEW d \in [to : Machines, event : Events]
      PROVE  At(<<"network", d>>)' = At(<<"network", d>>)
  <2>1. Live(d)' = Live(d)
    BY DEF Taken, Live
  <2> QED
    BY <2>1, AtStays
<1>e. ASSUME NEW p \in Places, \/ \E n \in Machines : p = <<"sending", n>>
                               \/ \E d \in [to : Machines, event : Events] : p = <<"network", d>>
      PROVE  Loses(p) /\ \A j \in At(p)' : Name(j) # x
  <2>1. At(p)' = At(p)
    BY <1>c, <1>d, <1>e
  <2>2. /\ \A n \in Machines : p # <<"injecting", n>>
        /\ \A e \in Ends : p # <<"wire", e>>
    BY <1>e
  <2> QED
    BY <2>1, <2>2 DEF Loses, Nowhere
<1>f. ASSUME NEW n \in Machines
      PROVE  /\ \A j \in At(<<"queue", n>>) : Name(j) # x
             /\ \A j \in At(<<"acted", n>>) : Name(j) # x
  <2>1. /\ \A l \in Machines : <<"queue", n>> # <<"injecting", l>> /\ <<"acted", n>> # <<"injecting", l>>
        /\ \A e \in Ends : <<"queue", n>> # <<"wire", e>> /\ <<"acted", n>> # <<"wire", e>>
    OBVIOUS
  <2> QED
    BY <2>1, ArePlaces DEF Nowhere
<1>g. OnceOnWire'
  <2> SUFFICES ASSUME NEW e \in Ends, NEW p, NEW q, InputsPrecede(wire'[e], p, q)
               PROVE  Name(p.input) # Name(q.input)
    BY DEF OnceOnWire, InputsPrecede
  <2>1. InputsPrecede(wire[e], p, q)
    BY DEF Taken, Fewer
  <2> QED
    BY <2>1, <1>0, SeqMembers DEF OnceInv, OnceOnWire, InputsPrecede, Types, WireOK
<1>h. DatagramsWereMade'
  <2> SUFFICES ASSUME NEW d \in network
               PROVE  d.event.input.n <= pressed'[d.event.input.from]
    BY DEF DatagramsWereMade, Taken
  <2>1. /\ d.event.input.n \in Nat /\ d.event.input.from \in Machines
        /\ d.event.input.n <= pressed[d.event.input.from]
    BY <1>0 DEF OnceInv, DatagramsWereMade, Types, UdpOK, Events, Inputs
  <2> QED
    BY <1>0, <2>1 DEF Taken, PressedGrows, Types, CountsOK
<1>1. CASE Acting(m, i)
  <2>1. \A n \in Machines : acted'[n] = IF n = m THEN Append(acted[m], i) ELSE acted[n]
    BY <1>0, <1>1 DEF Acting, Types, ActedOK
  <2>2. Members(Append(acted[m], i)) = Members(acted[m]) \cup {i}
    BY <1>0, SeqAppend DEF Types, ActedOK
  <2>3. \A j \in At(<<"acted", m>>)' : Name(j) = x \/ j \in At(<<"acted", m>>)
    BY <2>1, <2>2, AtIs, AtIsNext
  <2>4. \A n \in Machines \ {m} : At(<<"acted", n>>)' = At(<<"acted", n>>)
    BY <2>1, AtStays
  <2>5. \A n \in Machines : At(<<"queue", n>>)' = At(<<"queue", n>>)
    BY <1>1, AtStays DEF Acting
  <2>6. Gains(<<"acted", m>>, x)
    <3>1. ASSUME NEW p \in Places \ {<<"acted", m>>}
          PROVE  Loses(p) /\ \A j \in At(p)' : Name(j) # x
      <4>1. ASSUME NEW n \in Machines, p = <<"queue", n>> \/ p = <<"acted", n>>
            PROVE  Loses(p) /\ \A j \in At(p)' : Name(j) # x
        BY <1>f, <2>4, <2>5, <4>1 DEF Loses
      <4> QED
        BY <1>a, <1>b, <1>e, <4>1, PlacesAre
    <3> QED
      BY <2>3, <3>1 DEF Gains
  <2>7. OnePlace' /\ WasMade'
    BY <1>0, <2>6, GainsStaysOne, ArePlaces DEF OnceInv, Taken
  <2>8. OnceInQueue'
    BY <1>1 DEF Acting, OnceInv, OnceInQueue
  <2> QED
    BY <1>g, <1>h, <2>7, <2>8 DEF OnceInv
<1>2. CASE Capturing(m, i)
  <2>1. \A n \in Machines : queue'[n] = IF n = m THEN Append(queue[m], cap) ELSE queue[n]
    BY <1>0, <1>2 DEF Capturing, Types, QueueOK
  <2>2. cap \in Events /\ Name(cap.input) = x
    BY <1>0, CapturedType, CapturedName DEF Types
  <2>3. /\ Members(Append(queue[m], cap)) = Members(queue[m]) \cup {cap}
        /\ \A a, b : Precedes(Append(queue[m], cap), a, b)
                        => Precedes(queue[m], a, b) \/ (a \in Members(queue[m]) /\ b = cap)
    BY <1>0, <2>2, SeqAppend DEF Types, QueueOK
  <2>4. \A j \in At(<<"queue", m>>)' : Name(j) = x \/ j \in At(<<"queue", m>>)
    <3> HIDE DEF cap
    <3> QED
      BY <2>1, <2>2, <2>3, AtIs, AtIsNext
  <2>5. \A n \in Machines \ {m} : At(<<"queue", n>>)' = At(<<"queue", n>>)
    BY <2>1, AtStays
  <2>6. \A n \in Machines : At(<<"acted", n>>)' = At(<<"acted", n>>)
    BY <1>2, AtStays DEF Capturing
  <2>7. Gains(<<"queue", m>>, x)
    <3>1. ASSUME NEW p \in Places \ {<<"queue", m>>}
          PROVE  Loses(p) /\ \A j \in At(p)' : Name(j) # x
      <4>1. ASSUME NEW n \in Machines, p = <<"queue", n>> \/ p = <<"acted", n>>
            PROVE  Loses(p) /\ \A j \in At(p)' : Name(j) # x
        BY <1>f, <2>5, <2>6, <4>1 DEF Loses
      <4> QED
        BY <1>a, <1>b, <1>e, <4>1, PlacesAre
    <3> QED
      BY <2>4, <3>1 DEF Gains
  <2>8. OnePlace' /\ WasMade'
    BY <1>0, <2>7, GainsStaysOne, ArePlaces DEF OnceInv, Taken
  <2>9. OnceInQueue'
    <3> SUFFICES ASSUME NEW n \in Machines, NEW a, NEW b, Precedes(queue'[n], a, b)
                 PROVE  Name(a.input) # Name(b.input)
      BY DEF OnceInQueue
    <3>1. CASE Precedes(queue[n], a, b)
      BY <1>0, <3>1, SeqMembers DEF OnceInv, OnceInQueue, Types, QueueOK
    <3>2. CASE n = m /\ a \in Members(queue[m]) /\ b = cap
      <4>1. a.input \in At(<<"queue", m>>)
        BY <3>2, AtIs
      <4> QED
        BY <1>f, <2>2, <3>2, <4>1
    <3> QED
      BY <2>1, <2>3, <3>1, <3>2
  <2> QED
    BY <1>g, <1>h, <2>8, <2>9 DEF OnceInv
<1>3. CASE Dropping
  <2>1. \A n \in Machines : /\ At(<<"queue", n>>)' = At(<<"queue", n>>)
                            /\ At(<<"acted", n>>)' = At(<<"acted", n>>)
    BY <1>3, AtStays DEF Dropping
  <2>2. \A p \in Places : Loses(p)
    <3>1. ASSUME NEW p \in Places, NEW n \in Machines, p = <<"queue", n>> \/ p = <<"acted", n>>
          PROVE  Loses(p)
      BY <2>1, <3>1 DEF Loses
    <3> QED
      BY <1>a, <1>b, <1>e, <3>1, PlacesAre
  <2>3. OnePlace' /\ WasMade'
    BY <1>0, <2>2, LosesStaysOne DEF OnceInv, Taken
  <2>4. OnceInQueue'
    BY <1>3 DEF Dropping, OnceInv, OnceInQueue
  <2> QED
    BY <1>g, <1>h, <2>3, <2>4 DEF OnceInv
<1> QED
  BY <1>1, <1>2, <1>3 DEF Taken, Outcome

-----------------------------------------------------------------------------
(* What the steps do with inputs.                                           *)

\* Nothing, or they drop some.
Quiet ==
    /\ queue' = queue /\ acted' = acted /\ pressed' = pressed /\ injecting' = injecting
    /\ seq' = seq /\ last' = last /\ network' \subseteq network
    /\ \A m \in Machines : sending'[m] = sending[m] \/ sending'[m] = None
    /\ Fewer(wire', wire)

\* The sender task casts a move as a datagram, or appends a key to a wire.
SenderDone(m) ==
    /\ sending[m] # None /\ sending' = [sending EXCEPT ![m] = None]
    /\ UNCHANGED <<control, queue, last, injecting>>
Casting(m) ==
    /\ SenderDone(m) /\ wire' = wire /\ sending[m].event.input.kind = "move"
    /\ \E to \in Machines \ {m} : network' = network \cup {[to |-> to, event |-> sending[m].event]}
Wiring(m, e) ==
    /\ SenderDone(m) /\ network' = network /\ sending[m].event.input.kind = "key"
    /\ e \in Ends /\ e[2] = m
    /\ wire' = [wire EXCEPT ![e] = Append(@, InputPacket(sending[m].event.input))]

LEMMA SenderSendIs ==
    ASSUME Types, Registered, NEW m \in Machines, SenderSend(m)
    PROVE  Quiet \/ Casting(m) \/ \E e \in Ends : Wiring(m, e)
<1> DEFINE event == sending[m].event
           chosen == IF Lookup(m, sending[m].target) # None
                        THEN {Lookup(m, sending[m].target)} ELSE Connected(m)
<1>1. SenderDone(m)
  BY DEF SenderSend, SenderDone
<1>2. \A n \in Machines : sending'[n] = sending[n] \/ sending'[n] = None
  BY <1>1 DEF SenderDone, Types, SendingOK
<1>3. CASE network' = network /\ wire' = wire
  BY <1>1, <1>2, <1>3, AlikeSelf DEF Quiet, SenderDone, control, Alike
<1>4. ASSUME NEW c \in chosen, event.input.kind = "move", wire' = wire,
             network' = network \cup {[to |-> Far(c, m), event |-> event]}
      PROVE  Casting(m)
  <2>1. c # None /\ \E n \in Machines : c = peers[m][n]
    BY DEF Lookup, Connected
  <2>2. <<c, m>> \in Ends
    BY <2>1 DEF Registered
  <2>3. Far(c, m) \in Machines \ {m}
    BY <2>2, EndsAre
  <2> QED
    BY <1>1, <1>4, <2>3 DEF Casting
<1>5. ASSUME NEW c \in chosen, event.input.kind = "key", network' = network,
             wire' = Offer(wire, m, {c}, InputPacket(event.input)), wire' # wire
      PROVE  \E e \in Ends : Wiring(m, e)
  <2> DEFINE p == InputPacket(event.input)
  <2>1. wire = [e \in Ends |-> wire[e]]
    BY DEF Types, WireOK
  <2>2. PICK e \in Ends : e[2] = m /\ e[1] = c /\ Room(e[1], m)
    <3>1. CASE \A e \in Ends : ~(e[2] = m /\ e[1] = c /\ Room(e[1], m))
      <4>1. wire' = [e \in Ends |-> wire[e]]
        BY <1>5, <3>1 DEF Offer
      <4> QED
        BY <1>5, <2>1, <4>1
    <3> QED
      BY <3>1
  <2>3. ASSUME NEW f \in Ends, f[2] = m, f[1] = c PROVE f = e
    <3>1. f = <<f[1], f[2]>> /\ e = <<e[1], e[2]>>
      BY EndsAre
    <3> HIDE DEF chosen
    <3> QED
      BY <2>2, <2>3, <3>1
  <2>4. \A f \in Ends : wire'[f] = IF f = e THEN Append(wire[e], p) ELSE wire[f]
    <3> HIDE DEF p, chosen
    <3> QED
      BY <1>5, <2>2, <2>3 DEF Offer, p
  <2>5. wire' = [wire EXCEPT ![e] = Append(@, p)]
    <3>1. wire' = [f \in Ends |-> wire'[f]]
      BY <1>5 DEF Offer
    <3> HIDE DEF p
    <3> QED
      BY <2>1, <2>4, <3>1
  <2> QED
    BY <1>1, <1>5, <2>2, <2>5 DEF Wiring
<1> QED
  BY <1>3, <1>4, <1>5 DEF SenderSend

\* Control packets, connections and lost datagrams.
LEMMA BreakoutQuiet == ASSUME Types, NEW m \in Machines, Breakout(m) PROVE Quiet
<1>1. wire \in WireType
  BY DEF Types, WireOK, WireType
<1>2. Fewer(wire', wire)
  BY <1>1, OfferAlike, AlikeSelf DEF Breakout, Alike, Controls
<1> QED
  BY <1>2 DEF Breakout, Quiet, streams

LEMMA LinkQuiet ==
    ASSUME Types, NEW c \in Conns, Open(c) \/ Break(c) PROVE Quiet
<1>1. Fewer(wire', wire)
  <2>1. CASE wire' = wire
    BY <2>1, AlikeSelf DEF Alike
  <2>2. CASE wire' = [e \in Ends |-> IF e[1] = c THEN <<Packet("Handshake")>> ELSE wire[e]]
    <3> DEFINE s == <<Packet("Handshake")>>
    <3>1. Carried(s) = {} /\ \A p, q : ~InputsPrecede(s, p, q)
      <4>1. Packet("Handshake").type # "Input" /\ DOMAIN s = {1} /\ s[1] = Packet("Handshake")
        BY DEF Packet
      <4> HIDE DEF s
      <4> QED
        BY <4>1 DEF Carried, Members, InputsPrecede, Precedes
    <3>2. \A e \in Ends : wire'[e] = s \/ wire'[e] = wire[e]
      BY <2>2
    <3> HIDE DEF s
    <3> QED
      BY <3>1, <3>2 DEF Fewer
  <2> QED
    BY <2>1, <2>2 DEF Open, Break
<1> QED
  BY <1>1 DEF Open, Break, Quiet, streams, control

LEMMA ReaderQuiet ==
    ASSUME Types, NEW c, NEW m, <<c, m>> \in Ends,
           ReaderError(c, m) \/ Register(c, m) \/ EnterScreen(c, m) \/ Return(c, m)
    PROVE  Quiet
<1>1. Fewer(wire', wire)
  <2>1. CASE ReaderError(c, m)
    <3>1. \A e \in Ends : wire'[e] = <<>> \/ wire'[e] = wire[e]
      BY <2>1 DEF ReaderError, Types, WireOK
    <3>2. Carried(<<>>) = {} /\ \A p, q : ~InputsPrecede(<<>>, p, q)
      BY SeqEmpty DEF Carried, InputsPrecede
    <3> QED
      BY <3>1, <3>2 DEF Fewer
  <2>2. CASE ~ReaderError(c, m)
    <3>1. Arrived(c, m) # <<>>
      BY <2>2 DEF Register, EnterScreen, Return, Receives
    <3>2. Fewer(Rest(c, m), wire) /\ Rest(c, m) \in WireType
      BY <3>1, RestIs DEF Types
    <3>3. wire' = Rest(c, m) \/ wire' = Offer(Rest(c, m), m, {c}, Packet("HandshakeAck"))
      BY <2>2 DEF Register, EnterScreen, Return
    <3> QED
      BY <3>2, <3>3, OfferAlike, FewerStill DEF Controls, Alike
  <2> QED
    BY <2>1, <2>2
<1> QED
  BY <1>1 DEF ReaderError, Register, EnterScreen, Return, Quiet, streams, control

LEMMA StepsAre ==
    ASSUME Types, Registered, [Next]_vars
    PROVE  \/ Quiet
           \/ \E m \in Machines : \/ SenderRead(m) \/ Casting(m) \/ UdpInject(m)
                                  \/ \E e \in Ends : Wiring(m, e)
                                  \/ \E d \in network : UdpReceive(m, d)
                                  \/ \E kind \in Kinds : Press(m, kind)
           \/ \E c, m : <<c, m>> \in Ends /\ Input(c, m)
<1>1. CASE UNCHANGED vars
  BY <1>1, AlikeSelf DEF vars, control, links, streams, Quiet, Alike
<1>2. ASSUME NEW d \in network, UdpLose(d) PROVE Quiet
  BY <1>2, AlikeSelf DEF UdpLose, control, Quiet, Alike
<1>3. ASSUME NEW e \in Ends, Reader(e[1], e[2])
      PROVE  Quiet \/ \E c, m : <<c, m>> \in Ends /\ Input(c, m)
  <2>1. <<e[1], e[2]>> \in Ends
    BY EndsAre
  <2> QED
    BY <1>3, <2>1, ReaderQuiet DEF Reader
<1>4. ASSUME NEW m \in Machines, SenderSend(m)
      PROVE  Quiet \/ Casting(m) \/ \E e \in Ends : Wiring(m, e)
  BY <1>4, SenderSendIs
<1> QED
  BY <1>1, <1>2, <1>3, <1>4, BreakoutQuiet, LinkQuiet DEF Next, User, SenderTask, UdpTask

LEMMA QuietLoses ==
    ASSUME Quiet PROVE \A p \in Places : Loses(p)
<1>1. ASSUME NEW m \in Machines
      PROVE  Loses(<<"queue", m>>) /\ Loses(<<"acted", m>>) /\ Loses(<<"injecting", m>>)
  BY AtStays DEF Quiet, Loses
<1>2. ASSUME NEW m \in Machines PROVE Loses(<<"sending", m>>)
  BY AtIs, AtIsNext DEF Quiet, Loses
<1>3. ASSUME NEW e \in Ends PROVE Loses(<<"wire", e>>)
  BY AtIs, AtIsNext DEF Quiet, Loses, Fewer
<1>4. ASSUME NEW d \in [to : Machines, event : Events] PROVE Loses(<<"network", d>>)
  <2>1. Live(d)' => Live(d)
    BY DEF Quiet, Live
  <2> QED
    BY <2>1, AtIs, AtIsNext DEF Loses
<1> QED
  BY <1>1, <1>2, <1>3, <1>4, PlacesAre

LEMMA QuietOnce == ASSUME OnceInv, Types', Quiet PROVE OnceInv'
<1>1. PressedGrows
  BY DEF OnceInv, Types, CountsOK, Quiet, PressedGrows
<1>2. OnePlace' /\ WasMade'
  BY <1>1, QuietLoses, LosesStaysOne DEF OnceInv
<1>3. OnceInQueue'
  BY DEF OnceInv, OnceInQueue, Quiet
<1>4. OnceOnWire'
  <2> SUFFICES ASSUME NEW e \in Ends, NEW p, NEW q, InputsPrecede(wire'[e], p, q)
               PROVE  Name(p.input) # Name(q.input)
    BY DEF OnceOnWire, InputsPrecede
  <2>1. InputsPrecede(wire[e], p, q)
    BY DEF Quiet, Fewer
  <2> QED
    BY <2>1, SeqMembers DEF OnceInv, OnceOnWire, InputsPrecede, Types, WireOK
<1>5. DatagramsWereMade'
  BY DEF OnceInv, DatagramsWereMade, Quiet
<1> QED
  BY <1>2, <1>3, <1>4, <1>5 DEF OnceInv

\* What is at one place is not at another.
LEMMA OnlyThere ==
    ASSUME OnePlace, NEW src \in Places, NEW x \in At(src), NEW p \in Places, p # src
    PROVE  \A j \in At(p) : Name(j) # Name(x)
BY DEF OnePlace

\* At places that lose nothing or keep what they had, an input that was at
\* another one is not now.
LEMMA StillNotThere ==
    ASSUME OnePlace, NEW src \in Places, NEW x \in At(src), NEW p \in Places, p # src, Loses(p)
    PROVE  \A j \in At(p)' : Name(j) # Name(x)
BY OnlyThere DEF Loses

LEMMA SenderReadOnce ==
    ASSUME OnceInv, Types', NEW m \in Machines, SenderRead(m) PROVE OnceInv'
<1> DEFINE src == <<"queue", m>>
           dst == <<"sending", m>>
           h == Head(queue[m])
<1>0. Types /\ OnePlace /\ src \in Places /\ dst \in Places
  BY ArePlaces DEF OnceInv
<1>1. /\ queue[m] \in Seq(Events) /\ h \in Events
      /\ Members(queue[m]) = {h} \cup Members(Tail(queue[m]))
      /\ \A a, b : Precedes(Tail(queue[m]), a, b) => Precedes(queue[m], a, b)
      /\ \A b \in Members(Tail(queue[m])) : Precedes(queue[m], h, b)
  BY <1>0, SeqTail DEF SenderRead, Types, QueueOK
<1>2. \A n \in Machines : queue'[n] = IF n = m THEN Tail(queue[m]) ELSE queue[n]
  BY <1>0 DEF SenderRead, Types, QueueOK
<1>3. /\ \A n \in Machines \ {m} : sending'[n] = sending[n]
      /\ sending'[m] = None \/ sending'[m].event = h
  BY <1>0 DEF SenderRead, Types, SendingOK
<1>4. /\ acted' = acted /\ pressed' = pressed /\ injecting' = injecting /\ wire' = wire
      /\ network' = network /\ last' = last
  BY DEF SenderRead, control
<1>5. h.input \in At(src) /\ h.input \in Inputs
  BY <1>1, AtIs DEF Events
<1>6. Loses(src) /\ \A j \in At(src)' : Name(j) # Name(h.input)
  <2>1. \A b \in Members(Tail(queue[m])) : b \in Members(queue[m]) /\ Name(h.input) # Name(b.input)
    BY <1>1 DEF OnceInv, OnceInQueue
  <2> QED
    BY <1>2, <2>1, AtIs, AtIsNext DEF Loses
<1>7. ASSUME NEW p \in Places, p # src, p # dst PROVE Loses(p)
  <2>1. ASSUME NEW n \in Machines, p = <<"queue", n>> \/ p = <<"sending", n>> PROVE At(p)' = At(p)
    BY <1>2, <1>3, <1>7, <2>1, AtStays
  <2>2. ASSUME NEW n \in Machines, p = <<"injecting", n>> \/ p = <<"acted", n>> PROVE At(p)' = At(p)
    BY <1>4, <2>2, AtStays
  <2>3. ASSUME NEW e \in Ends, p = <<"wire", e>> PROVE At(p)' = At(p)
    BY <1>4, <2>3, AtIs, AtIsNext
  <2>4. ASSUME NEW d \in [to : Machines, event : Events], p = <<"network", d>> PROVE At(p)' = At(p)
    BY <1>4, <2>4, AtStays DEF Live
  <2> QED
    BY <2>1, <2>2, <2>3, <2>4, PlacesAre DEF Loses
<1>8. \A i \in At(dst)' : Name(i) = Name(h.input)
  BY <1>3, AtIsNext
<1>9. Gains(dst, Name(h.input))
  <2>1. ASSUME NEW p \in Places \ {dst}
        PROVE  Loses(p) /\ \A j \in At(p)' : Name(j) # Name(h.input)
    <3> HIDE DEF src, dst, h
    <3> QED
      BY <1>0, <1>5, <1>6, <1>7, StillNotThere
  <2> QED
    BY <1>8, <2>1 DEF Gains
<1>10. PressedGrows /\ h.input.n <= pressed'[h.input.from]
  BY <1>0, <1>4, <1>5 DEF OnceInv, WasMade, PressedGrows, Types, CountsOK
<1>11. OnePlace' /\ WasMade'
  <2> HIDE DEF src, dst, h
  <2> QED
    BY <1>0, <1>5, <1>9, <1>10, GainsStaysOne DEF OnceInv
<1>12. OnceInQueue'
  <2> SUFFICES ASSUME NEW n \in Machines, NEW a, NEW b, Precedes(queue'[n], a, b)
               PROVE  Name(a.input) # Name(b.input)
    BY DEF OnceInQueue
  <2>1. Precedes(queue[n], a, b)
    BY <1>1, <1>2
  <2> QED
    BY <1>0, <2>1, SeqMembers DEF OnceInv, OnceInQueue, Types, QueueOK
<1>13. OnceOnWire' /\ DatagramsWereMade'
  BY <1>4 DEF OnceInv, OnceOnWire, DatagramsWereMade
<1> QED
  BY <1>11, <1>12, <1>13 DEF OnceInv

LEMMA CastingOnce ==
    ASSUME OnceInv, Types', NEW m \in Machines, Casting(m) PROVE OnceInv'
<1> DEFINE src == <<"sending", m>>
           x == sending[m].event.input
<1>1. PICK d \in [to : Machines, event : Events] :
         d.event = sending[m].event /\ network' = network \cup {d}
  <2>1. sending[m].event \in Events
    BY DEF OnceInv, Types, SendingOK, Casting, SenderDone
  <2>2. PICK to \in Machines : network' = network \cup {[to |-> to, event |-> sending[m].event]}
    BY DEF Casting
  <2> QED
    BY <2>1, <2>2
<1> DEFINE dst == <<"network", d>>
<1>0. Types /\ OnePlace /\ src \in Places /\ dst \in Places /\ x \in Inputs /\ x \in At(src)
  <2>1. sending[m].event \in Events /\ sending[m] # None
    BY DEF OnceInv, Types, SendingOK, Casting, SenderDone
  <2>2. src \in Places /\ dst \in Places
    BY ArePlaces
  <2>3. x \in At(src)
    BY <2>1, AtIs
  <2> QED
    BY <2>1, <2>2, <2>3 DEF OnceInv, Events
<1>2. \A n \in Machines : sending'[n] = IF n = m THEN None ELSE sending[n]
  BY <1>0 DEF Casting, SenderDone, Types, SendingOK
<1>3. /\ acted' = acted /\ pressed' = pressed /\ injecting' = injecting /\ wire' = wire
      /\ queue' = queue /\ last' = last
  BY DEF Casting, SenderDone, control
<1>4. ASSUME NEW p \in Places, p # dst PROVE Loses(p)
  <2>1. ASSUME NEW n \in Machines, p \in {<<"queue", n>>, <<"injecting", n>>, <<"acted", n>>}
        PROVE  Loses(p)
    BY <1>3, <2>1, AtStays DEF Loses
  <2>2. ASSUME NEW n \in Machines, p = <<"sending", n>> PROVE Loses(p)
    BY <1>2, <2>2, AtIs, AtIsNext DEF Loses
  <2>3. ASSUME NEW e \in Ends, p = <<"wire", e>> PROVE Loses(p)
    BY <1>3, <2>3, AtIs, AtIsNext DEF Loses
  <2>4. ASSUME NEW f \in [to : Machines, event : Events], p = <<"network", f>> PROVE Loses(p)
    <3>1. f # d
      BY <1>4, <2>4
    <3>2. Live(f)' = Live(f)
      BY <1>1, <1>3, <3>1 DEF Live
    <3> QED
      BY <2>4, <3>2, AtStays DEF Loses
  <2> QED
    BY <2>1, <2>2, <2>3, <2>4, PlacesAre
<1>5. \A j \in At(src)' : Name(j) # Name(x)
  BY <1>2, AtIsNext
<1>6. \A i \in At(dst)' : Name(i) = Name(x)
  BY <1>1, AtNetwork
<1>7. Gains(dst, Name(x))
  <2>1. ASSUME NEW p \in Places \ {dst} PROVE Loses(p) /\ \A j \in At(p)' : Name(j) # Name(x)
    <3> HIDE DEF src, dst, x
    <3> QED
      BY <1>0, <1>4, <1>5, StillNotThere
  <2> QED
    BY <1>6, <2>1 DEF Gains
<1>8. PressedGrows /\ x.n <= pressed'[x.from]
  BY <1>0, <1>3 DEF OnceInv, WasMade, PressedGrows, Types, CountsOK
<1>9. OnePlace' /\ WasMade'
  <2> HIDE DEF src, dst, x
  <2> QED
    BY <1>0, <1>7, <1>8, GainsStaysOne DEF OnceInv
<1>10. OnceInQueue' /\ OnceOnWire' /\ DatagramsWereMade'
  BY <1>1, <1>3, <1>8 DEF OnceInv, OnceInQueue, OnceOnWire, DatagramsWereMade
<1> QED
  BY <1>9, <1>10 DEF OnceInv

LEMMA WiringOnce ==
    ASSUME OnceInv, Types', NEW m \in Machines, NEW e \in Ends, Wiring(m, e) PROVE OnceInv'
<1> DEFINE src == <<"sending", m>>
           dst == <<"wire", e>>
           x == sending[m].event.input
           p0 == InputPacket(x)
<1>0. Types /\ OnePlace /\ src \in Places /\ dst \in Places /\ x \in Inputs /\ x \in At(src)
  <2>1. sending[m].event \in Events /\ sending[m] # None
    BY DEF OnceInv, Types, SendingOK, Wiring, SenderDone
  <2> QED
    BY <2>1, ArePlaces, InHand DEF OnceInv, Events
<1>1. \A n \in Machines : sending'[n] = IF n = m THEN None ELSE sending[n]
  BY <1>0 DEF Wiring, SenderDone, Types, SendingOK
<1>2. \A f \in Ends : wire'[f] = IF f = e THEN Append(wire[e], p0) ELSE wire[f]
  BY <1>0 DEF Wiring, Types, WireOK
<1>3. /\ acted' = acted /\ pressed' = pressed /\ injecting' = injecting /\ network' = network
      /\ queue' = queue /\ last' = last
  BY DEF Wiring, SenderDone, control
<1>4. /\ p0 \in Packets /\ p0.type = "Input" /\ p0.input = x
      /\ Members(Append(wire[e], p0)) = Members(wire[e]) \cup {p0}
      /\ \A a, b : Precedes(Append(wire[e], p0), a, b)
                      => Precedes(wire[e], a, b) \/ (a \in Members(wire[e]) /\ b = p0)
  <2>1. p0 \in Packets /\ p0.type = "Input" /\ p0.input = x
    BY <1>0, PacketTypes DEF InputPacket
  <2> HIDE DEF p0
  <2> QED
    BY <1>0, <2>1, SeqAppend DEF Types, WireOK
<1>5. ASSUME NEW p \in Places, p # dst PROVE Loses(p)
  <2>1. ASSUME NEW n \in Machines, p \in {<<"queue", n>>, <<"injecting", n>>, <<"acted", n>>}
        PROVE  Loses(p)
    BY <1>3, <2>1, AtStays DEF Loses
  <2>2. ASSUME NEW n \in Machines, p = <<"sending", n>> PROVE Loses(p)
    BY <1>1, <2>2, AtIs, AtIsNext DEF Loses
  <2>3. ASSUME NEW f \in Ends, p = <<"wire", f>> PROVE Loses(p)
    <3>1. wire'[f] = wire[f]
      BY <1>2, <1>5, <2>3
    <3> QED
      BY <2>3, <3>1, AtIs, AtIsNext DEF Loses
  <2>4. ASSUME NEW d \in [to : Machines, event : Events], p = <<"network", d>> PROVE Loses(p)
    BY <1>3, <2>4, AtStays DEF Live, Loses
  <2> QED
    BY <2>1, <2>2, <2>3, <2>4, PlacesAre
<1>6. \A j \in At(src)' : Name(j) # Name(x)
  BY <1>1, AtIsNext
<1>7. \A i \in At(dst)' : Name(i) = Name(x) \/ \E j \in At(dst) : Name(j) = Name(i)
  <2>1. \A i \in Carried(wire'[e]) : i = x \/ i \in Carried(wire[e])
    BY <1>2, <1>4 DEF Carried
  <2> QED
    BY <2>1, AtIs, AtIsNext
<1>8. Gains(dst, Name(x))
  <2>1. ASSUME NEW p \in Places \ {dst} PROVE Loses(p) /\ \A j \in At(p)' : Name(j) # Name(x)
    <3> HIDE DEF src, dst, x
    <3> QED
      BY <1>0, <1>5, <1>6, StillNotThere
  <2> QED
    BY <1>7, <2>1 DEF Gains
<1>9. PressedGrows /\ x.n <= pressed'[x.from]
  BY <1>0, <1>3 DEF OnceInv, WasMade, PressedGrows, Types, CountsOK
<1>10. OnePlace' /\ WasMade'
  <2> HIDE DEF src, dst, x
  <2> QED
    BY <1>0, <1>8, <1>9, GainsStaysOne DEF OnceInv
<1>11. OnceOnWire'
  <2> SUFFICES ASSUME NEW f \in Ends, NEW a, NEW b, InputsPrecede(wire'[f], a, b)
               PROVE  Name(a.input) # Name(b.input)
    BY DEF OnceOnWire, InputsPrecede
  <2>1. CASE Precedes(wire[f], a, b)
    BY <1>0, <2>1, SeqMembers DEF OnceInv, OnceOnWire, InputsPrecede, Types, WireOK
  <2>2. CASE f = e /\ a \in Members(wire[e]) /\ b = p0
    <3>1. a.input \in At(dst)
      BY <2>2, AtIs DEF Carried, InputsPrecede
    <3> QED
      BY <1>0, <1>4, <2>2, <3>1, OnlyThere
  <2> QED
    BY <1>2, <1>4, <2>1, <2>2 DEF InputsPrecede
<1>12. OnceInQueue' /\ DatagramsWereMade'
  BY <1>3 DEF OnceInv, OnceInQueue, DatagramsWereMade
<1> QED
  BY <1>10, <1>11, <1>12 DEF OnceInv

LEMMA UdpReceiveOnce ==
    ASSUME OnceInv, Types', NEW m \in Machines, NEW d \in network, UdpReceive(m, d)
    PROVE  OnceInv'
<1> DEFINE src == <<"network", d>>
           dst == <<"injecting", m>>
           x == d.event.input
<1>0. /\ Types /\ OnePlace /\ src \in Places /\ dst \in Places /\ x \in Inputs /\ x \in At(src)
      /\ d.event.seq \in Nat /\ d \in [to : Machines, event : Events]
  <2>1. d \in [to : Machines, event : Events]
    BY DEF OnceInv, Types, UdpOK
  <2>2. d.to \in Machines /\ d.event.seq \in Nat /\ x \in Inputs
    BY <2>1 DEF Events
  <2>3. Live(d)
    BY DEF UdpReceive, Live
  <2> QED
    BY <2>1, <2>2, <2>3, ArePlaces, AtNetwork DEF OnceInv
<1>1. /\ \A n \in Machines \ {m} : injecting'[n] = injecting[n]
      /\ injecting'[m] = x \/ injecting'[m] = None
  BY <1>0 DEF UdpReceive, Types, UdpOK
<1>2. /\ acted' = acted /\ pressed' = pressed /\ sending' = sending /\ network' = network
      /\ queue' = queue /\ wire' = wire
  BY DEF UdpReceive, control
<1>3. /\ d.to = m /\ last[m] < d.event.seq /\ last[m] \in Nat
      /\ \A n \in Machines : last'[n] = IF n = m THEN d.event.seq ELSE last[n]
  BY <1>0 DEF UdpReceive, Types, UdpOK
<1>4. ASSUME NEW p \in Places, p # dst PROVE Loses(p)
  <2>1. ASSUME NEW n \in Machines, p \in {<<"queue", n>>, <<"sending", n>>, <<"acted", n>>}
        PROVE  Loses(p)
    BY <1>2, <2>1, AtStays DEF Loses
  <2>2. ASSUME NEW n \in Machines, p = <<"injecting", n>> PROVE Loses(p)
    BY <1>1, <1>4, <2>2, AtStays DEF Loses
  <2>3. ASSUME NEW e \in Ends, p = <<"wire", e>> PROVE Loses(p)
    BY <1>2, <2>3, AtIs, AtIsNext DEF Loses
  <2>4. ASSUME NEW f \in [to : Machines, event : Events], p = <<"network", f>> PROVE Loses(p)
    <3>1. f.event.seq \in Nat /\ f.to \in Machines
      BY DEF Events
    <3>2. Live(f)' => Live(f)
      BY <1>0, <1>2, <1>3, <3>1 DEF Live
    <3> QED
      BY <2>4, <3>2, AtIs, AtIsNext DEF Loses
  <2> QED
    BY <2>1, <2>2, <2>3, <2>4, PlacesAre
<1>5. \A j \in At(src)' : Name(j) # Name(x)
  <2>1. ~Live(d)'
    BY <1>0, <1>3 DEF Live
  <2> QED
    BY <2>1, AtIsNext
<1>6. \A i \in At(dst)' : Name(i) = Name(x)
  BY <1>1, AtIsNext
<1>7. Gains(dst, Name(x))
  <2>1. ASSUME NEW p \in Places \ {dst} PROVE Loses(p) /\ \A j \in At(p)' : Name(j) # Name(x)
    <3> HIDE DEF src, dst, x
    <3> QED
      BY <1>0, <1>4, <1>5, StillNotThere
  <2> QED
    BY <1>6, <2>1 DEF Gains
<1>8. PressedGrows /\ x.n <= pressed'[x.from]
  BY <1>0, <1>2 DEF OnceInv, WasMade, PressedGrows, Types, CountsOK
<1>9. OnePlace' /\ WasMade'
  <2> HIDE DEF src, dst, x
  <2> QED
    BY <1>0, <1>7, <1>8, GainsStaysOne DEF OnceInv
<1>10. OnceInQueue' /\ OnceOnWire' /\ DatagramsWereMade'
  BY <1>2 DEF OnceInv, OnceInQueue, OnceOnWire, DatagramsWereMade
<1> QED
  BY <1>9, <1>10 DEF OnceInv

\* Where an input that a hook sees comes from: its user, the UDP receiver, or
\* the head of a wire.
LEMMA PressTakes ==
    ASSUME OnceInv, NEW m \in Machines, NEW kind \in Kinds, Press(m, kind),
           NEW i, i = [from |-> m, n |-> pressed[m] + 1, kind |-> kind, relayed |-> FALSE]
    PROVE  /\ i \in Inputs /\ Taken(m, i, wire) /\ Nowhere(Name(i), wire)
           /\ Alike(wire', wire) /\ SeqGrows
<1>0. Types /\ OnePlace /\ WasMade /\ pressed[m] \in Nat
  BY DEF OnceInv, Types, CountsOK
<1>1. i \in Inputs
  BY <1>0 DEF Inputs
<1>2. Outcome(m, i) /\ Alike(wire', wire) /\ SeqGrows
  BY <1>0, HookOutcome DEF Press, Types, WireOK, WireType
<1>3. PressedGrows /\ i.n <= pressed'[i.from]
  <2>1. \A n \in Machines : pressed'[n] = IF n = m THEN pressed[m] + 1 ELSE pressed[n]
    BY <1>0 DEF Press, Types, CountsOK
  <2>2. pressed' \in [Machines -> Nat]
    BY <1>0 DEF Press, Types, CountsOK
  <2> QED
    BY <1>0, <2>1, <2>2 DEF PressedGrows, Types, CountsOK
<1>4. Taken(m, i, wire)
  BY <1>2, <1>3, AlikeSelf DEF Press, Taken, Alike
<1>5. ASSUME NEW p \in Places, NEW j \in At(p) PROVE Name(j) # Name(i)
  <2>1. j \in Inputs /\ j.n <= pressed[j.from]
    BY <1>0, InputAt DEF WasMade
  <2>2. Name(j) = Name(i) => j.n = i.n /\ j.from = i.from
    BY NameTells
  <2> QED
    BY <1>0, <2>1, <2>2 DEF Inputs
<1>6. Nowhere(Name(i), wire)
  <2>1. \A n \in Machines : injecting'[n] # None => injecting'[n] \in At(<<"injecting", n>>)
    <3>1. injecting' = injecting
      BY DEF Press
    <3> QED
      BY <3>1, InHand
  <2>2. \A e \in Ends : \A j \in Carried(wire[e]) : j \in At(<<"wire", e>>)
    BY AtIs
  <2> QED
    BY <1>5, <2>1, <2>2, ArePlaces DEF Nowhere
<1> QED
  BY <1>1, <1>2, <1>4, <1>6

LEMMA UdpInjectTakes ==
    ASSUME OnceInv, NEW m \in Machines, UdpInject(m), NEW i, i = injecting[m]
    PROVE  /\ i \in Inputs /\ i # None /\ Taken(m, i, wire) /\ Nowhere(Name(i), wire)
           /\ Alike(wire', wire) /\ SeqGrows
<1> DEFINE src == <<"injecting", m>>
<1>0. Types /\ OnePlace /\ WasMade /\ src \in Places
  BY ArePlaces DEF OnceInv
<1>1. i \in Inputs /\ i # None /\ i \in At(src)
  BY <1>0, AtIs DEF UdpInject, Types, UdpOK
<1>2. Outcome(m, i) /\ Alike(wire', wire) /\ SeqGrows
  BY <1>0, HookOutcome DEF UdpInject, Types, WireOK, WireType
<1>3. PressedGrows /\ i.n <= pressed'[i.from]
  BY <1>0, <1>1 DEF UdpInject, PressedGrows, Types, CountsOK, WasMade
<1>4. \A n \in Machines : injecting'[n] = IF n = m THEN None ELSE injecting[n]
  BY <1>0 DEF UdpInject, Types, UdpOK
<1>5. Taken(m, i, wire)
  BY <1>2, <1>3, <1>4, AlikeSelf DEF UdpInject, Taken, Alike
<1>6. ASSUME NEW p \in Places, p # src, NEW j \in At(p) PROVE Name(j) # Name(i)
  BY <1>0, <1>1, <1>6, OnlyThere
<1>7. Nowhere(Name(i), wire)
  <2>1. \A n \in Machines : injecting'[n] # None =>
           <<"injecting", n>> # src /\ injecting'[n] \in At(<<"injecting", n>>)
    BY <1>4, AtIs
  <2>2. \A e \in Ends : \A j \in Carried(wire[e]) : j \in At(<<"wire", e>>) /\ <<"wire", e>> # src
    BY AtIs
  <2> HIDE DEF src
  <2>3. ASSUME NEW p \in Places, \A n \in Machines : p # <<"injecting", n>>
        PROVE  p # src
    BY <2>3 DEF src
  <2> QED
    BY <1>6, <2>1, <2>2, <2>3, ArePlaces DEF Nowhere
<1> QED
  BY <1>1, <1>2, <1>5, <1>7

LEMMA InputTakes ==
    ASSUME OnceInv, NEW c, NEW m, <<c, m>> \in Ends, Input(c, m),
           NEW i, i = Head(Arrived(c, m)).input
    PROVE  LET f == <<c, Far(c, m)>> IN
           /\ m \in Machines /\ f \in Ends /\ i \in Inputs /\ i \in Carried(wire[f])
           /\ Taken(m, i, Rest(c, m)) /\ Nowhere(Name(i), Rest(c, m))
           /\ Carried(wire[f]) = {i} \cup Carried(Rest(c, m)[f])
           /\ Alike(wire', Rest(c, m)) /\ SeqGrows
           /\ \A p \in Members(Rest(c, m)[f]) : Precedes(wire[f], Head(wire[f]), p)
           /\ Head(wire[f]) \in Members(wire[f]) /\ Head(wire[f]).type = "Input"
           /\ Head(wire[f]).input = i
           /\ Members(Rest(c, m)[f]) \subseteq Members(wire[f])
<1> DEFINE f == <<c, Far(c, m)>>
           src == <<"wire", f>>
           w == Rest(c, m)
           h == Head(wire[f])
<1>0. Types /\ OnePlace /\ WasMade
  BY DEF OnceInv
<1>1. /\ Arrived(c, m) = wire[f] /\ wire[f] # <<>> /\ h.type = "Input" /\ h.input = i
      /\ m \in Machines /\ f \in Ends /\ wire[f] \in Seq(Packets) /\ w \in WireType
      /\ Fewer(w, wire) /\ \A e \in Ends : w[e] = IF e = f THEN Tail(wire[f]) ELSE wire[e]
  <2>1. Arrived(c, m) = wire[f] /\ wire[f] # <<>> /\ h.type = "Input" /\ h.input = i
    BY DEF Input, Receives, Arrived
  <2>2. m \in Machines
    BY EndsAre
  <2> QED
    BY <1>0, <2>1, <2>2, RestIs DEF Types
<1>2. /\ h \in Packets /\ Members(wire[f]) = {h} \cup Members(w[f])
      /\ \A p \in Members(w[f]) : Precedes(wire[f], h, p)
  BY <1>1, SeqTail
<1>3. i \in Inputs /\ i \in Carried(wire[f]) /\ Carried(wire[f]) = {i} \cup Carried(w[f])
  <2>1. Carried(wire[f]) = {i} \cup Carried(w[f])
    BY <1>1, <1>2 DEF Carried
  <2> QED
    BY <1>1, <1>2, <2>1, PacketTypes
<1>4. Outcome(m, i) /\ Alike(wire', w) /\ SeqGrows
  BY <1>0, <1>1, HookOutcome DEF Input, Arrived
<1>5. src \in Places /\ i \in At(src)
  BY <1>1, <1>3, ArePlaces, AtIs
<1>6. PressedGrows /\ i.n <= pressed'[i.from]
  BY <1>0, <1>3, <1>5 DEF Input, PressedGrows, Types, CountsOK, WasMade
<1>7. Taken(m, i, w)
  BY <1>1, <1>4, <1>6 DEF Input, Taken, Alike
<1>8. ASSUME NEW p \in Places, p # src, NEW j \in At(p) PROVE Name(j) # Name(i)
  BY <1>0, <1>5, <1>8, OnlyThere
<1>9. ASSUME NEW e \in Ends, NEW j \in Carried(w[e]) PROVE Name(j) # Name(i)
  <2>1. CASE e = f
    <3>1. PICK p \in Members(w[f]) : p.type = "Input" /\ p.input = j
      BY <1>9, <2>1 DEF Carried
    <3> QED
      BY <1>1, <1>2, <3>1 DEF OnceInv, OnceOnWire
  <2>2. CASE e # f
    <3>1. j \in At(<<"wire", e>>) /\ <<"wire", e>> # src
      BY <1>1, <1>9, <2>2, OnWire
    <3> QED
      BY <1>8, <3>1, ArePlaces
  <2> QED
    BY <2>1, <2>2
<1>10. Nowhere(Name(i), w)
  <2>1. \A n \in Machines : injecting'[n] # None =>
           <<"injecting", n>> # src /\ injecting'[n] \in At(<<"injecting", n>>)
    <3>1. injecting' = injecting
      BY DEF Input
    <3> QED
      BY <3>1, InHand
  <2>2. ASSUME NEW p \in Places, \A e \in Ends : p # <<"wire", e>>
        PROVE  p # src
    BY <1>1, <2>2
  <2> HIDE DEF src, w
  <2> QED
    BY <1>8, <1>9, <2>1, <2>2, ArePlaces DEF Nowhere
<1> QED
  BY <1>1, <1>2, <1>3, <1>4, <1>7, <1>10

LEMMA OnceStep == ASSUME OnceInv, Types', Registered, [Next]_vars PROVE OnceInv'
<1>1. ASSUME NEW m \in Machines, NEW kind \in Kinds, Press(m, kind) PROVE OnceInv'
  BY <1>1, PressTakes, HookOnce
<1>2. ASSUME NEW m \in Machines, UdpInject(m) PROVE OnceInv'
  BY <1>2, UdpInjectTakes, HookOnce
<1>3. ASSUME NEW c, NEW m, <<c, m>> \in Ends, Input(c, m) PROVE OnceInv'
  BY <1>3, InputTakes, HookOnce
<1> QED
  BY <1>1, <1>2, <1>3, StepsAre, QuietOnce, SenderReadOnce, CastingOnce, WiringOnce,
     UdpReceiveOnce DEF OnceInv

LEMMA OnceInit == Init => OnceInv
<1> SUFFICES ASSUME Init PROVE OnceInv
  OBVIOUS
<1>1. Types
  BY TypesInit
<1>2. /\ \A m \in Machines : queue[m] = <<>> /\ acted[m] = <<>> /\ sending[m] = None
                             /\ injecting[m] = None
      /\ \A e \in Ends : wire[e] = <<>>
      /\ network = {}
  BY DEF Init
<1>3. \A p \in Places : At(p) = {}
  <2>1. ASSUME NEW m \in Machines
        PROVE  /\ At(<<"queue", m>>) = {} /\ At(<<"sending", m>>) = {}
               /\ At(<<"injecting", m>>) = {} /\ At(<<"acted", m>>) = {}
    BY <1>2, AtIs, SeqEmpty
  <2>2. ASSUME NEW e \in Ends PROVE At(<<"wire", e>>) = {}
    BY <1>2, AtIs, SeqEmpty DEF Carried
  <2>3. ASSUME NEW d PROVE At(<<"network", d>>) = {}
    BY <1>2, AtNetwork DEF Live
  <2> QED
    BY <2>1, <2>2, <2>3, PlacesAre
<1> QED
  BY <1>1, <1>2, <1>3, SeqEmpty
  DEF OnceInv, OnePlace, WasMade, OnceInQueue, OnceOnWire, DatagramsWereMade

-----------------------------------------------------------------------------
(* The abstract routing.                                                    *)

AllSeen == UNION {NamesSeen(m) : m \in Machines}

\* What is in transit and what was seen, input by input.
TransitHolds ==
    \A x : x \in InTransit <=>
        \/ \E m \in Machines : \E v \in Members(queue[m]) : x = Name(v.input)
        \/ \E m \in Machines : sending[m] # None /\ x = Name(sending[m].event.input)
        \/ \E m \in Machines : injecting[m] # None /\ x = Name(injecting[m])
        \/ \E d \in network : x = Name(d.event.input)
        \/ \E e \in Ends : \E i \in Carried(wire[e]) : x = Name(i)
SeenHolds ==
    \A x : x \in AllSeen <=> \E m \in Machines : \E i \in Members(acted[m]) : x = Name(i)

LEMMA TransitIs == TransitHolds
<1> DEFINE Q == UNION {{queue[m][k] : k \in DOMAIN queue[m]} : m \in Machines}
           W(e) == {Name(wire[e][k].input) :
                       k \in {k \in DOMAIN wire[e] : wire[e][k].type = "Input"}}
<1>1. \A v : v \in Q <=> \E m \in Machines : v \in Members(queue[m])
  BY DEF Members
<1>2. \A e, x : x \in W(e) <=> \E i \in Carried(wire[e]) : x = Name(i)
  BY DEF Carried, Members
<1>3. \A x : x \in InTransit <=>
        \/ \E v \in Q : x = Name(v.input)
        \/ \E m \in Machines : sending[m] # None /\ x = Name(sending[m].event.input)
        \/ \E m \in Machines : injecting[m] # None /\ x = Name(injecting[m])
        \/ \E d \in network : x = Name(d.event.input)
        \/ \E e \in Ends : x \in W(e)
  <2> HIDE DEF Q
  <2>1. InTransit = {Name(v.input) : v \in Q}
          \cup {Name(sending[m].event.input) : m \in {m \in Machines : sending[m] # None}}
          \cup {Name(injecting[m]) : m \in {m \in Machines : injecting[m] # None}}
          \cup {Name(d.event.input) : d \in network}
          \cup UNION {W(e) : e \in Ends}
    BY DEF InTransit, Q
  <2> HIDE DEF W
  <2> QED
    BY <2>1
<1> HIDE DEF Q, W
<1> QED
  BY <1>1, <1>2, <1>3 DEF TransitHolds

LEMMA TransitIsNext == TransitHolds'
BY TransitIs, PTL

LEMMA SeenIs == SeenHolds
BY DEF SeenHolds, AllSeen, NamesSeen, Members

LEMMA SeenIsNext == SeenHolds'
BY SeenIs, PTL

\* What a hook's step leaves in transit beside the input that the hook sees.
Remains(x, w) ==
    \/ \E m \in Machines : \E v \in Members(queue[m]) : x = Name(v.input)
    \/ \E m \in Machines : sending[m] # None /\ x = Name(sending[m].event.input)
    \/ \E m \in Machines : injecting'[m] # None /\ x = Name(injecting'[m])
    \/ \E d \in network : x = Name(d.event.input)
    \/ \E e \in Ends : \E i \in Carried(w[e]) : x = Name(i)

LEMMA HookTransit ==
    ASSUME Types, NEW m \in Machines, NEW i \in Inputs, NEW w, Taken(m, i, w), Alike(wire', w)
    PROVE  /\ Acting(m, i) \/ Dropping => \A x : x \in InTransit' <=> Remains(x, w)
           /\ Capturing(m, i) => \A x : x \in InTransit' <=> Remains(x, w) \/ x = Name(i)
           /\ Acting(m, i) => AllSeen' = AllSeen \cup {Name(i)}
           /\ Capturing(m, i) \/ Dropping => AllSeen' = AllSeen
<1>1. /\ sending' = sending /\ network' = network
      /\ \A e \in Ends : Carried(wire'[e]) = Carried(w[e])
  BY DEF Taken, Alike
<1>2. \A x : x \in InTransit' <=>
         \/ \E n \in Machines : \E v \in Members(queue'[n]) : x = Name(v.input)
         \/ \E n \in Machines : sending[n] # None /\ x = Name(sending[n].event.input)
         \/ \E n \in Machines : injecting'[n] # None /\ x = Name(injecting'[n])
         \/ \E d \in network : x = Name(d.event.input)
         \/ \E e \in Ends : \E j \in Carried(w[e]) : x = Name(j)
  BY <1>1, TransitIsNext DEF TransitHolds
<1>3. Acting(m, i) \/ Dropping => \A x : x \in InTransit' <=> Remains(x, w)
  <2>1. Acting(m, i) \/ Dropping => queue' = queue
    BY DEF Acting, Dropping
  <2> QED
    BY <1>2, <2>1 DEF Remains
<1>4. ASSUME Capturing(m, i) PROVE \A x : x \in InTransit' <=> Remains(x, w) \/ x = Name(i)
  <2> DEFINE cap == Captured(m, i)
  <2>1. cap \in Events /\ Name(cap.input) = Name(i)
    BY CapturedType, CapturedName DEF Types
  <2>2. \A n \in Machines : queue'[n] = IF n = m THEN Append(queue[m], cap) ELSE queue[n]
    BY <1>4 DEF Capturing, Types, QueueOK
  <2> HIDE DEF cap
  <2>3. Members(Append(queue[m], cap)) = Members(queue[m]) \cup {cap}
    BY <2>1, SeqAppend DEF Types, QueueOK
  <2>4. \A x : (\E n \in Machines : \E v \in Members(queue'[n]) : x = Name(v.input))
                  <=> (\E n \in Machines : \E v \in Members(queue[n]) : x = Name(v.input))
                         \/ x = Name(i)
    BY <2>1, <2>2, <2>3
  <2> QED
    BY <1>2, <2>4 DEF Remains
<1>5. ASSUME Acting(m, i) PROVE AllSeen' = AllSeen \cup {Name(i)}
  <2>1. \A n \in Machines : acted'[n] = IF n = m THEN Append(acted[m], i) ELSE acted[n]
    BY <1>5 DEF Acting, Types, ActedOK
  <2>2. Members(Append(acted[m], i)) = Members(acted[m]) \cup {i}
    BY SeqAppend DEF Types, ActedOK
  <2>3. \A x : (\E n \in Machines : \E j \in Members(acted'[n]) : x = Name(j))
                  <=> (\E n \in Machines : \E j \in Members(acted[n]) : x = Name(j))
                         \/ x = Name(i)
    BY <2>1, <2>2
  <2>4. \A x : x \in AllSeen' <=> x \in AllSeen \/ x = Name(i)
    BY <2>3, SeenIs, SeenIsNext DEF SeenHolds
  <2> QED
    BY <2>4
<1>6. ASSUME Capturing(m, i) \/ Dropping PROVE AllSeen' = AllSeen
  <2>1. acted' = acted
    BY <1>6 DEF Capturing, Dropping
  <2>2. \A x : x \in AllSeen' <=> x \in AllSeen
    BY <2>1, SeenIs, SeenIsNext DEF SeenHolds
  <2> QED
    BY <2>2
<1> QED
  BY <1>3, <1>4, <1>5, <1>6

\* The variables of the abstract routing.
Flying == InTransit \ AllSeen
Names(s) == [k \in DOMAIN s |-> Name(s[k])]
NamesActed == [m \in Machines |-> Names(acted[m])]

LEMMA NamesAppended ==
    ASSUME NEW s \in Seq(Inputs), NEW i \in Inputs
    PROVE  Names(Append(s, i)) = Append(Names(s), Name(i))
<1>1. /\ Len(s) \in Nat /\ DOMAIN s = 1 .. Len(s) /\ DOMAIN Append(s, i) = 1 .. Len(s) + 1
      /\ \A k \in 1 .. Len(s) : Append(s, i)[k] = s[k]
      /\ Append(s, i)[Len(s) + 1] = i
  BY AppendProperties
<1>2. Names(s) \in Seq({Name(j) : j \in Inputs}) /\ Len(Names(s)) = Len(s)
  <2>1. \A k \in 1 .. Len(s) : s[k] \in Inputs
    BY <1>1
  <2>2. Names(s) \in [1 .. Len(s) -> {Name(j) : j \in Inputs}]
    BY <1>1, <2>1 DEF Names
  <2> QED
    BY <1>1, <2>2
<1>3. /\ DOMAIN Append(Names(s), Name(i)) = 1 .. Len(s) + 1
      /\ Append(Names(s), Name(i)) = [k \in 1 .. Len(s) + 1 |-> Append(Names(s), Name(i))[k]]
      /\ \A k \in 1 .. Len(s) : Append(Names(s), Name(i))[k] = Names(s)[k]
      /\ Append(Names(s), Name(i))[Len(s) + 1] = Name(i)
  <2> DEFINE T == {Name(j) : j \in Inputs}
             t == Names(s)
             y == Name(i)
  <2>1. y \in T /\ t \in Seq(T) /\ Len(t) = Len(s) /\ Len(s) \in Nat
    BY <1>1, <1>2
  <2> HIDE DEF T, t, y
  <2>2. /\ Append(t, y) \in Seq(T) /\ Len(Append(t, y)) = Len(t) + 1
        /\ \A k \in 1 .. Len(t) : Append(t, y)[k] = t[k]
        /\ Append(t, y)[Len(t) + 1] = y
    BY <2>1, AppendProperties
  <2>3. Append(t, y) \in [1 .. Len(Append(t, y)) -> T]
    BY <2>2, LenProperties
  <2>4. /\ DOMAIN Append(t, y) = 1 .. Len(t) + 1
        /\ Append(t, y) = [k \in 1 .. Len(t) + 1 |-> Append(t, y)[k]]
    BY <2>2, <2>3
  <2> QED
    BY <2>1, <2>2, <2>4 DEF t, y
<1>4. \A k \in 1 .. Len(s) + 1 : Names(Append(s, i))[k] = Append(Names(s), Name(i))[k]
  <2> SUFFICES ASSUME NEW k \in 1 .. Len(s) + 1
               PROVE  Names(Append(s, i))[k] = Append(Names(s), Name(i))[k]
    OBVIOUS
  <2>1. Names(Append(s, i))[k] = Name(Append(s, i)[k])
    BY <1>1 DEF Names
  <2>2. CASE k \in 1 .. Len(s)
    BY <1>1, <1>3, <2>1, <2>2 DEF Names
  <2>3. CASE k = Len(s) + 1
    BY <1>1, <1>3, <2>1, <2>3
  <2>4. k \in 1 .. Len(s) \/ k = Len(s) + 1
    BY <1>1
  <2> QED
    BY <2>2, <2>3, <2>4
<1>5. Names(Append(s, i)) = [k \in 1 .. Len(s) + 1 |-> Names(Append(s, i))[k]]
  BY <1>1 DEF Names
<1> QED
  BY <1>3, <1>4, <1>5

\* What the abstract routing is about, in terms of these.
AbstractNext ==
    \/ \E m \in Machines, kind \in Kinds :
          LET x == [from |-> m, n |-> pressed[m] + 1, kind |-> kind] IN
          /\ pressed' = [pressed EXCEPT ![m] = @ + 1]
          /\ \/ NamesActed' = [NamesActed EXCEPT ![m] = Append(@, x)] /\ Flying' = Flying
             \/ Flying' = Flying \cup {x} /\ NamesActed' = NamesActed
             \/ Flying' = Flying /\ NamesActed' = NamesActed
    \/ \E m \in Machines, x \in Flying :
          /\ Flying' = Flying \ {x} /\ NamesActed' = [NamesActed EXCEPT ![m] = Append(@, x)]
          /\ pressed' = pressed
    \/ Flying' \subseteq Flying /\ pressed' = pressed /\ NamesActed' = NamesActed

LEMMA ActingNames ==
    ASSUME Types, NEW m \in Machines, NEW i \in Inputs, Acting(m, i)
    PROVE  NamesActed' = [NamesActed EXCEPT ![m] = Append(@, Name(i))]
<1>1. \A n \in Machines : acted'[n] = IF n = m THEN Append(acted[m], i) ELSE acted[n]
  BY DEF Acting, Types, ActedOK
<1>2. Names(Append(acted[m], i)) = Append(Names(acted[m]), Name(i))
  BY NamesAppended DEF Types, ActedOK
<1>3. NamesActed' = [n \in Machines |-> Names(acted'[n])]
  BY DEF NamesActed, Names
<1> QED
  BY <1>1, <1>2, <1>3 DEF NamesActed

\* Steps in which nothing new flies and nothing acts.
LEMMA LoseAbstract ==
    ASSUME acted' = acted, pressed' = pressed, InTransit' \subseteq InTransit
    PROVE  AbstractNext
<1>1. AllSeen' = AllSeen /\ NamesActed' = NamesActed
  BY DEF AllSeen, NamesSeen, NamesActed, Names
<1> QED
  BY <1>1 DEF AbstractNext, Flying

LEMMA QuietAbstract == ASSUME Quiet PROVE AbstractNext
<1>1. \A x : x \in InTransit' => x \in InTransit
  <2> SUFFICES ASSUME NEW x, x \in InTransit' PROVE x \in InTransit
    OBVIOUS
  <2>1. \A e \in Ends : Carried(wire'[e]) \subseteq Carried(wire[e])
    BY DEF Quiet, Fewer
  <2> QED
    BY <2>1, TransitIs, TransitIsNext DEF Quiet, TransitHolds
<1> QED
  BY <1>1, LoseAbstract DEF Quiet

LEMMA SenderAbstract ==
    ASSUME Types, NEW m \in Machines,
           SenderRead(m) \/ Casting(m) \/ \E e \in Ends : Wiring(m, e)
    PROVE  AbstractNext
<1>1. CASE SenderRead(m)
  <2>1. Head(queue[m]) \in Members(queue[m]) /\ Members(Tail(queue[m])) \subseteq Members(queue[m])
    BY <1>1, SeqTail DEF SenderRead, Types, QueueOK
  <2>2. \A n \in Machines : Members(queue'[n]) \subseteq Members(queue[n])
    BY <1>1, <2>1 DEF SenderRead, Types, QueueOK
  <2>3. ASSUME NEW n \in Machines, sending'[n] # None
        PROVE  \/ sending'[n] = sending[n]
               \/ n = m /\ sending'[m].event = Head(queue[m])
    BY <1>1, <2>3 DEF SenderRead, Types, SendingOK
  <2>4. \A x : x \in InTransit' => x \in InTransit
    <3> SUFFICES ASSUME NEW x, x \in InTransit' PROVE x \in InTransit
      OBVIOUS
    <3>1. injecting' = injecting /\ network' = network /\ wire' = wire
      BY <1>1 DEF SenderRead
    <3>2. CASE \E n \in Machines : \E v \in Members(queue'[n]) : x = Name(v.input)
      BY <2>2, <3>2, TransitIs DEF TransitHolds
    <3>3. CASE \E n \in Machines : sending'[n] # None /\ x = Name(sending'[n].event.input)
      BY <2>1, <2>3, <3>3, TransitIs DEF TransitHolds
    <3> QED
      BY <3>1, <3>2, <3>3, TransitIs, TransitIsNext DEF TransitHolds
  <2> QED
    BY <1>1, <2>4, LoseAbstract DEF SenderRead, control
<1>2. ASSUME Casting(m) \/ \E e \in Ends : Wiring(m, e) PROVE AbstractNext
  <2>1. /\ sending[m] # None /\ sending[m].event.input \in Inputs
        /\ \A n \in Machines : sending'[n] = IF n = m THEN None ELSE sending[n]
        /\ queue' = queue /\ injecting' = injecting /\ acted' = acted /\ pressed' = pressed
    BY <1>2 DEF Casting, Wiring, SenderDone, control, Types, SendingOK, Events
  <2> DEFINE y == sending[m].event.input
  <2>2. \A d \in network' : d \in network \/ d.event.input = y
    BY <1>2 DEF Casting, Wiring
  <2>3. ASSUME NEW e \in Ends, NEW i \in Carried(wire'[e]) PROVE i \in Carried(wire[e]) \/ i = y
    <3>1. CASE wire'[e] = wire[e]
      BY <2>3, <3>1
    <3>2. CASE wire'[e] = Append(wire[e], InputPacket(y))
      <4>1. InputPacket(y) \in Packets /\ InputPacket(y).input = y
        BY <2>1, PacketTypes DEF InputPacket
      <4> DEFINE p0 == InputPacket(y)
      <4> HIDE DEF p0, y
      <4>2. Members(Append(wire[e], p0)) = Members(wire[e]) \cup {p0}
        BY <4>1, SeqAppend DEF Types, WireOK, p0
      <4> QED
        BY <2>3, <3>2, <4>1, <4>2 DEF Carried, p0
    <3> QED
      BY <1>2, <3>1, <3>2 DEF Casting, Wiring, Types, WireOK
  <2>4. \A x : x \in InTransit' => x \in InTransit
    <3> SUFFICES ASSUME NEW x, x \in InTransit' PROVE x \in InTransit
      OBVIOUS
    <3>1. CASE x = Name(y)
      BY <2>1, <3>1, TransitIs DEF TransitHolds
    <3>2. CASE x # Name(y)
      <4> HIDE DEF y
      <4>1. CASE \E n \in Machines : sending'[n] # None /\ x = Name(sending'[n].event.input)
        BY <2>1, <4>1, TransitIs DEF TransitHolds
      <4>2. CASE \E d \in network' : x = Name(d.event.input)
        BY <2>2, <3>2, <4>2, TransitIs DEF TransitHolds
      <4>3. CASE \E e \in Ends : \E i \in Carried(wire'[e]) : x = Name(i)
        BY <2>3, <3>2, <4>3, TransitIs DEF TransitHolds
      <4> QED
        BY <2>1, <4>1, <4>2, <4>3, TransitIs, TransitIsNext DEF TransitHolds
    <3> QED
      BY <3>1, <3>2
  <2> QED
    BY <2>1, <2>4, LoseAbstract
<1> QED
  BY <1>1, <1>2

LEMMA UdpReceiveAbstract ==
    ASSUME Types, NEW m \in Machines, NEW d \in network, UdpReceive(m, d) PROVE AbstractNext
<1>1. \A n \in Machines : injecting'[n] = injecting[n] \/ injecting'[n] = d.event.input
  BY DEF UdpReceive, Types, UdpOK
<1>2. /\ queue' = queue /\ sending' = sending /\ network' = network /\ wire' = wire
      /\ acted' = acted /\ pressed' = pressed
  BY DEF UdpReceive, control
<1>3. \A x : x \in InTransit' => x \in InTransit
  BY <1>1, <1>2, TransitIs, TransitIsNext DEF TransitHolds
<1> QED
  BY <1>2, <1>3, LoseAbstract

\* An input that the hook of a machine sees after it was in transit.
LEMMA TakenAbstract ==
    ASSUME Types, NEW m \in Machines, NEW i \in Inputs, NEW w, Taken(m, i, w), Alike(wire', w),
           Nowhere(Name(i), w), pressed' = pressed,
           \A x : x \in InTransit <=> Remains(x, w) \/ x = Name(i)
    PROVE  AbstractNext
<1>1. Name(i) \notin AllSeen
  <2>1. \A n \in Machines : \A j \in Members(acted[n]) : Name(j) # Name(i)
    BY NowhereIs
  <2> QED
    BY <2>1, SeenIs DEF SeenHolds
<1>2. CASE Acting(m, i)
  <2>1. Name(i) \in Flying
    BY <1>1 DEF Flying
  <2>2. Flying' = Flying \ {Name(i)}
    BY <1>2, HookTransit DEF Flying
  <2>3. NamesActed' = [NamesActed EXCEPT ![m] = Append(@, Name(i))]
    BY <1>2, ActingNames
  <2> QED
    BY <2>1, <2>2, <2>3 DEF AbstractNext
<1>3. CASE Capturing(m, i) \/ Dropping
  <2>1. InTransit' \subseteq InTransit
    BY <1>3, HookTransit
  <2> QED
    BY <1>3, <2>1, LoseAbstract DEF Capturing, Dropping
<1> QED
  BY <1>2, <1>3 DEF Taken, Outcome

LEMMA PressAbstract ==
    ASSUME OnceInv, NEW m \in Machines, NEW kind \in Kinds, Press(m, kind) PROVE AbstractNext
<1>1. PICK i : i = [from |-> m, n |-> pressed[m] + 1, kind |-> kind, relayed |-> FALSE]
  OBVIOUS
<1> DEFINE x == [from |-> m, n |-> pressed[m] + 1, kind |-> kind]
<1>2. Types /\ i \in Inputs /\ Taken(m, i, wire) /\ Nowhere(Name(i), wire) /\ Alike(wire', wire)
  BY <1>1, PressTakes DEF OnceInv
<1>3. Name(i) = x
  BY <1>1 DEF Name
<1>4. \A y : y \in InTransit <=> Remains(y, wire)
  <2>1. injecting' = injecting
    BY DEF Press
  <2> QED
    BY <2>1, TransitIs DEF TransitHolds, Remains
<1>5. Name(i) \notin AllSeen
  <2>1. \A n \in Machines : \A j \in Members(acted[n]) : Name(j) # Name(i)
    BY <1>2, NowhereIs
  <2> QED
    BY <2>1, SeenIs DEF SeenHolds
<1>6. Name(i) \notin InTransit
  <2>1. \A n \in Machines : \A v \in Members(queue[n]) : Name(v.input) # Name(i)
    BY <1>2, NowhereIs
  <2>2. \A n \in Machines : sending[n] # None => Name(sending[n].event.input) # Name(i)
    BY <1>2, NowhereIs
  <2>3. \A n \in Machines : injecting[n] # None => Name(injecting[n]) # Name(i)
    BY <1>2 DEF Nowhere, Press
  <2>4. \A e \in Ends : \A j \in Carried(wire[e]) : Name(j) # Name(i)
    BY <1>2 DEF Nowhere
  <2>5. ASSUME NEW d \in network PROVE Name(d.event.input) # Name(i)
    <3>1. d.event.input.n <= pressed[d.event.input.from]
      BY DEF OnceInv, DatagramsWereMade
    <3>2. pressed[m] \in Nat
      BY <1>2 DEF Types, CountsOK
    <3>3. Name(d.event.input) = Name(i) =>
             d.event.input.n = pressed[m] + 1 /\ d.event.input.from = m
      BY <1>1, NameTells
    <3> QED
      BY <3>1, <3>2, <3>3
  <2> QED
    BY <2>1, <2>2, <2>3, <2>4, <2>5, TransitIs DEF TransitHolds
<1>7. pressed' = [pressed EXCEPT ![m] = @ + 1]
  BY DEF Press
<1>8. CASE Acting(m, i)
  <2>1. Flying' = Flying
    BY <1>2, <1>4, <1>6, <1>8, HookTransit DEF Flying
  <2>2. NamesActed' = [NamesActed EXCEPT ![m] = Append(@, x)]
    BY <1>2, <1>3, <1>8, ActingNames
  <2> QED
    BY <1>7, <2>1, <2>2 DEF AbstractNext
<1>9. CASE Capturing(m, i)
  <2>1. Flying' = Flying \cup {x}
    BY <1>2, <1>3, <1>4, <1>5, <1>9, HookTransit DEF Flying
  <2>2. NamesActed' = NamesActed
    BY <1>9 DEF Capturing, NamesActed, Names
  <2> QED
    BY <1>7, <2>1, <2>2 DEF AbstractNext
<1>10. CASE Dropping
  <2>1. Flying' = Flying
    BY <1>2, <1>4, <1>10, HookTransit DEF Flying
  <2>2. NamesActed' = NamesActed
    BY <1>10 DEF Dropping, NamesActed, Names
  <2> QED
    BY <1>7, <2>1, <2>2 DEF AbstractNext
<1> QED
  BY <1>2, <1>8, <1>9, <1>10 DEF Taken, Outcome

LEMMA StepAbstract == ASSUME OnceInv, Registered, [Next]_vars PROVE AbstractNext
<1>0. Types
  BY DEF OnceInv
<1>1. ASSUME NEW m \in Machines, UdpInject(m) PROVE AbstractNext
  <2>1. PICK i : i = injecting[m]
    OBVIOUS
  <2>2. /\ i \in Inputs /\ i # None /\ Taken(m, i, wire) /\ Nowhere(Name(i), wire)
        /\ Alike(wire', wire)
    BY <1>1, <2>1, UdpInjectTakes
  <2>3. \A n \in Machines : injecting'[n] = IF n = m THEN None ELSE injecting[n]
    BY <1>0, <1>1 DEF UdpInject, Types, UdpOK
  <2>4. \A x : x \in InTransit <=> Remains(x, wire) \/ x = Name(i)
    BY <2>1, <2>2, <2>3, TransitIs DEF TransitHolds, Remains
  <2> QED
    BY <1>0, <1>1, <2>2, <2>4, TakenAbstract DEF UdpInject
<1>2. ASSUME NEW c, NEW m, <<c, m>> \in Ends, Input(c, m) PROVE AbstractNext
  <2> DEFINE f == <<c, Far(c, m)>>
             w == Rest(c, m)
  <2>1. PICK i : i = Head(Arrived(c, m)).input
    OBVIOUS
  <2>2. /\ m \in Machines /\ f \in Ends /\ i \in Inputs /\ Taken(m, i, w) /\ Nowhere(Name(i), w)
        /\ Alike(wire', w) /\ Carried(wire[f]) = {i} \cup Carried(w[f])
    BY <1>2, <2>1, InputTakes
  <2>3. \A e \in Ends \ {f} : w[e] = wire[e]
    BY <1>0 DEF Rest, Types, WireOK
  <2>4. \A x : x \in InTransit <=> Remains(x, w) \/ x = Name(i)
    <3>1. injecting' = injecting
      BY <1>2 DEF Input
    <3>2. \A x : (\E e \in Ends : \E j \in Carried(wire[e]) : x = Name(j))
                    <=> (\E e \in Ends : \E j \in Carried(w[e]) : x = Name(j)) \/ x = Name(i)
      <4> HIDE DEF f, w
      <4> QED
        BY <2>2, <2>3
    <3> HIDE DEF w
    <3> QED
      BY <3>1, <3>2, TransitIs DEF TransitHolds, Remains
  <2> QED
    BY <1>0, <1>2, <2>2, <2>4, TakenAbstract DEF Input
<1> QED
  BY <1>0, <1>1, <1>2, StepsAre, QuietAbstract, SenderAbstract, UdpReceiveAbstract, PressAbstract

LEMMA InitAbstract == Init => Flying = {} /\ NamesActed = [m \in Machines |-> <<>>]
<1> SUFFICES ASSUME Init PROVE Flying = {} /\ NamesActed = [m \in Machines |-> <<>>]
  OBVIOUS
<1>1. InTransit = {}
  <2>1. \A x : x \notin InTransit
    BY TransitIs, SeqEmpty DEF Init, TransitHolds, Carried
  <2> QED
    BY <2>1
<1>2. Names(<<>>) = <<>>
  BY DEF Names
<1> QED
  BY <1>1, <1>2 DEF Init, Flying, NamesActed

\* The invariant of every state, with what SessionProofs has proved.
LEMMA OnceInvHolds == Spec => [](OnceInv /\ Registered)
<1>1. OnceInv /\ MutualInv /\ MutualInv' /\ [Next]_vars => OnceInv'
  BY OnceStep DEF MutualInv
<1>2. MutualInv => Registered
  BY DEF MutualInv
<1> QED
  BY <1>1, <1>2, OnceInit, MutualInvHolds, PTL DEF Spec

\* No input acts twice, and none acts that no user made: the daemons together
\* implement the abstract routing of inputs.
THEOREM SessionRoutes == Spec => RoutingSpec
<1>1. Init => Routing!Init
  <2> SUFFICES ASSUME Init PROVE Routing!Init
    OBVIOUS
  <2>1. pressed = [m \in Machines |-> 0]
    BY DEF Init
  <2> QED
    BY <2>1, InitAbstract DEF Routing!Init, Flying, AllSeen, NamesActed, Names
<1>2. OnceInv /\ Registered /\ [Next]_vars => Routing!Next
  <2> SUFFICES ASSUME AbstractNext PROVE Routing!Next
    BY StepAbstract
  <2> QED
    BY DEF AbstractNext, Flying, AllSeen, NamesActed, Names, Routing!Next, Routing!Press,
           Routing!Arrive, Routing!Lose, Routing!Acts
<1> QED
  BY <1>1, <1>2, OnceInvHolds, PTL DEF Spec, RoutingSpec, Routing!Spec

-----------------------------------------------------------------------------
(* What is not relayed comes from its user.                                 *)

\* Each way is kept by the step that puts something there.
LEMMA WaysStep ==
    ASSUME OnceInv, Ways, Registered, [Next]_vars PROVE Ways'
<1>0. Types
  BY DEF OnceInv
<1> DEFINE QueueWays == \A m \in Machines : \A v \in Members(queue[m]) : FromTheUser(v.input, m)
           SendingWays == \A m \in Machines : sending[m] # None =>
                             FromTheUser(sending[m].event.input, m)
           NetworkWays == \A d \in network :
                             d.event.input.kind = "move" /\ NotBack(d.event.input, d.to)
           InjectingWays == \A m \in Machines : injecting[m] # None =>
                               injecting[m].kind = "move" /\ NotBack(injecting[m], m)
           WireWays == \A e \in Ends : \A i \in Carried(wire[e]) :
                          i.kind = "key" /\ FromTheUser(i, e[2])
<1>a. QueueWays /\ SendingWays /\ NetworkWays /\ InjectingWays /\ WireWays
  BY DEF Ways
<1>b. ASSUME QueueWays', SendingWays', NetworkWays', InjectingWays', WireWays' PROVE Ways'
  BY <1>b DEF Ways
<1>c. Fewer(wire', wire) => WireWays'
  BY <1>a DEF Fewer
<1> HIDE DEF QueueWays, SendingWays, NetworkWays, InjectingWays, WireWays
<1>1. CASE Quiet
  <2>1. QueueWays' /\ SendingWays' /\ NetworkWays' /\ InjectingWays'
    BY <1>a, <1>1 DEF Quiet, QueueWays, SendingWays, NetworkWays, InjectingWays
  <2> QED
    BY <1>1, <1>b, <1>c, <2>1 DEF Quiet
<1>2. ASSUME NEW m \in Machines, SenderRead(m) PROVE Ways'
  <2>1. Head(queue[m]) \in Members(queue[m]) /\ Members(Tail(queue[m])) \subseteq Members(queue[m])
    BY <1>0, <1>2, SeqTail DEF SenderRead, Types, QueueOK
  <2>2. \A n \in Machines : Members(queue'[n]) \subseteq Members(queue[n])
    BY <1>0, <1>2, <2>1 DEF SenderRead, Types, QueueOK
  <2>3. QueueWays'
    BY <1>a, <2>2 DEF QueueWays
  <2>4. \A n \in Machines : \/ sending'[n] = sending[n] \/ sending'[n] = None
                            \/ n = m /\ sending'[m].event = Head(queue[m])
    BY <1>0, <1>2 DEF SenderRead, Types, SendingOK
  <2>5. SendingWays'
    BY <1>a, <2>1, <2>4 DEF SendingWays, QueueWays
  <2>6. network' = network /\ injecting' = injecting /\ wire' = wire
    BY <1>2 DEF SenderRead
  <2>7. NetworkWays' /\ InjectingWays' /\ WireWays'
    BY <1>a, <2>6 DEF NetworkWays, InjectingWays, WireWays
  <2> QED
    BY <1>b, <2>3, <2>5, <2>7
<1>3. ASSUME NEW m \in Machines, Casting(m) PROVE Ways'
  <2>1. QueueWays' /\ SendingWays' /\ InjectingWays' /\ WireWays'
    BY <1>0, <1>3, <1>a
    DEF Casting, SenderDone, QueueWays, SendingWays, InjectingWays, WireWays, Types, SendingOK
  <2>2. FromTheUser(sending[m].event.input, m) /\ sending[m].event.input.kind = "move"
    BY <1>3, <1>a DEF Casting, SenderDone, SendingWays
  <2>3. PICK d : /\ network' = network \cup {d} /\ d.to \in Machines \ {m}
                 /\ d.event = sending[m].event
    <3>1. PICK to \in Machines \ {m} :
             network' = network \cup {[to |-> to, event |-> sending[m].event]}
      BY <1>3 DEF Casting
    <3> DEFINE d == [to |-> to, event |-> sending[m].event]
    <3>2. network' = network \cup {d} /\ d.to \in Machines \ {m} /\ d.event = sending[m].event
      BY <3>1
    <3> HIDE DEF d
    <3> QED
      BY <3>2
  <2>4. NetworkWays'
    BY <1>a, <2>2, <2>3 DEF NetworkWays, FromTheUser, NotBack
  <2> QED
    BY <1>b, <2>1, <2>4
<1>4. ASSUME NEW m \in Machines, NEW e \in Ends, Wiring(m, e) PROVE Ways'
  <2>1. QueueWays' /\ SendingWays' /\ NetworkWays' /\ InjectingWays'
    BY <1>0, <1>4, <1>a
    DEF Wiring, SenderDone, QueueWays, SendingWays, NetworkWays, InjectingWays, Types, SendingOK
  <2> DEFINE y == sending[m].event.input
             p0 == InputPacket(y)
  <2>2. FromTheUser(y, m) /\ y.kind = "key" /\ e[2] = m /\ y \in Inputs
    BY <1>0, <1>4, <1>a DEF Wiring, SenderDone, SendingWays, Types, SendingOK, Events
  <2>3. p0 \in Packets /\ p0.input = y
    BY <2>2, PacketTypes DEF InputPacket
  <2>4. \A f \in Ends : wire'[f] = IF f = e THEN Append(wire[e], p0) ELSE wire[f]
    BY <1>0, <1>4 DEF Wiring, Types, WireOK
  <2> HIDE DEF p0
  <2>5. Members(Append(wire[e], p0)) = Members(wire[e]) \cup {p0}
    BY <1>0, <2>3, SeqAppend DEF Types, WireOK
  <2>6. \A f \in Ends : \A i \in Carried(wire'[f]) : i \in Carried(wire[f]) \/ (f = e /\ i = y)
    BY <2>3, <2>4, <2>5 DEF Carried
  <2>7. WireWays'
    BY <1>a, <2>2, <2>6 DEF WireWays
  <2> QED
    BY <1>b, <2>1, <2>7
<1>5. ASSUME NEW m \in Machines, NEW d \in network, UdpReceive(m, d) PROVE Ways'
  <2>1. QueueWays' /\ SendingWays' /\ NetworkWays' /\ WireWays'
    BY <1>5, <1>a DEF UdpReceive, QueueWays, SendingWays, NetworkWays, WireWays
  <2>2. \A n \in Machines : \/ injecting'[n] = injecting[n]
                            \/ n = m /\ injecting'[m] = d.event.input
    BY <1>0, <1>5 DEF UdpReceive, Types, UdpOK
  <2>3. d.event.input.kind = "move" /\ NotBack(d.event.input, m)
    BY <1>5, <1>a DEF UdpReceive, NetworkWays
  <2>4. InjectingWays'
    BY <1>a, <2>2, <2>3 DEF InjectingWays
  <2> QED
    BY <1>b, <2>1, <2>4
<1>6. ASSUME NEW m \in Machines, NEW i \in Inputs, NEW w, Taken(m, i, w) PROVE Ways'
  <2>1. WireWays'
    <3>1. Fewer(wire', wire)
      BY <1>6, FewerStill DEF Taken
    <3> QED
      BY <1>c, <3>1
  <2>2. SendingWays' /\ NetworkWays' /\ InjectingWays'
    BY <1>6, <1>a DEF Taken, SendingWays, NetworkWays, InjectingWays
  <2>3. QueueWays'
    <3>1. CASE queue' = queue
      BY <1>a, <3>1 DEF QueueWays
    <3>2. CASE Capturing(m, i)
      <4> DEFINE cap == Captured(m, i)
      <4>1. cap \in Events /\ FromTheUser(cap.input, m)
        BY <1>0, CapturedType DEF Types, FromTheUser, Captured, Inputs
      <4>2. \A n \in Machines : queue'[n] = IF n = m THEN Append(queue[m], cap) ELSE queue[n]
        BY <1>0, <3>2 DEF Capturing, Types, QueueOK
      <4> HIDE DEF cap
      <4>3. Members(Append(queue[m], cap)) = Members(queue[m]) \cup {cap}
        BY <1>0, <4>1, SeqAppend DEF Types, QueueOK
      <4> QED
        BY <1>a, <4>1, <4>2, <4>3 DEF QueueWays
    <3> QED
      BY <1>6, <3>1, <3>2 DEF Taken, Outcome, Acting, Dropping
  <2> QED
    BY <1>b, <2>1, <2>2, <2>3
<1>7. ASSUME NEW m \in Machines, NEW kind \in Kinds, Press(m, kind) PROVE Ways'
  BY <1>6, <1>7, PressTakes
<1>8. ASSUME NEW m \in Machines, UdpInject(m) PROVE Ways'
  BY <1>6, <1>8, UdpInjectTakes
<1>9. ASSUME NEW c, NEW m, <<c, m>> \in Ends, Input(c, m) PROVE Ways'
  BY <1>6, <1>9, InputTakes
<1> QED
  BY <1>0, <1>1, <1>2, <1>3, <1>4, <1>5, <1>7, <1>8, <1>9, StepsAre

-----------------------------------------------------------------------------
(* The moves of a user are in order.                                        *)

MovesInv == MovesNumbered /\ MovesAhead /\ MovesActed /\ ActedInOrder("move")

\* Everything was made before.
LEMMA AllWereMade ==
    ASSUME OnceInv, NEW m \in Machines
    PROVE  /\ pressed[m] \in Nat
           /\ \A i \in Members(acted[m]) \cup ({injecting[m]} \ {None}) :
                 i \in Inputs /\ i.n \in Nat /\ i.n <= pressed[i.from]
           /\ \A v \in Members(queue[m]) \cup {s.event : s \in {sending[m]} \ {None}}
                          \cup {d.event : d \in network} :
                 /\ v \in Events /\ v.seq \in Nat /\ v.input \in Inputs /\ v.input.n \in Nat
                 /\ v.input.n <= pressed[v.input.from]
           /\ \A e \in Ends : \A i \in Carried(wire[e]) :
                 i \in Inputs /\ i.n \in Nat /\ i.n <= pressed[i.from]
<1>0. Types /\ pressed[m] \in Nat
  BY DEF OnceInv, Types, CountsOK
<1>1. \A p \in Places : \A i \in At(p) : i \in Inputs /\ i.n \in Nat /\ i.n <= pressed[i.from]
  BY <1>0, InputAt DEF OnceInv, WasMade, Inputs
<1>2. /\ Members(queue[m]) \subseteq Events
      /\ sending[m] # None => sending[m].event \in Events
      /\ \A d \in network : d.event \in Events
  BY <1>0, SeqMembers DEF Types, QueueOK, SendingOK, UdpOK
<1>3. \A v \in Events : v.seq \in Nat /\ v.input \in Inputs /\ v.input.n \in Nat
  BY DEF Events, Inputs
<1>4. /\ \A i \in Members(acted[m]) : i \in At(<<"acted", m>>)
      /\ \A i \in {injecting[m]} \ {None} : i \in At(<<"injecting", m>>)
      /\ \A v \in Members(queue[m]) : v.input \in At(<<"queue", m>>)
      /\ sending[m] # None => sending[m].event.input \in At(<<"sending", m>>)
      /\ \A e \in Ends : \A i \in Carried(wire[e]) : i \in At(<<"wire", e>>)
  BY AtIs
<1>5. \A d \in network : d.event.input.n <= pressed[d.event.input.from]
  BY DEF OnceInv, DatagramsWereMade
<1>6. \A i \in Members(acted[m]) \cup ({injecting[m]} \ {None}) :
         i \in Inputs /\ i.n \in Nat /\ i.n <= pressed[i.from]
  BY <1>1, <1>4, ArePlaces
<1>7. \A v \in Members(queue[m]) \cup {s.event : s \in {sending[m]} \ {None}}
                   \cup {d.event : d \in network} :
         v \in Events /\ v.input.n <= pressed[v.input.from]
  BY <1>1, <1>2, <1>4, <1>5, ArePlaces
<1>8. \A e \in Ends : \A i \in Carried(wire[e]) :
         i \in Inputs /\ i.n \in Nat /\ i.n <= pressed[i.from]
  BY <1>1, <1>4, ArePlaces
<1> QED
  BY <1>0, <1>3, <1>6, <1>7, <1>8

LEMMA MovesWereMade ==
    ASSUME OnceInv, NEW p \in Machines, NEW v \in Moves(p)
    PROVE  /\ Own(v.input, p, "move") /\ v \in Events /\ v.seq \in Nat /\ v.input.n \in Nat
           /\ v.input.n <= pressed[p]
BY AllWereMade DEF Moves, Own

\* The steps after which a user has no more moves on their way than before.
MovesLess == \A p \in Machines : Moves(p)' \subseteq Moves(p)

LEMMA MovesKept ==
    ASSUME OnceInv, MovesInv, MovesLess, seq' = seq, last' = last, acted' = acted,
           \A m \in Machines : injecting'[m] = injecting[m] \/ injecting'[m] = None
    PROVE  MovesInv'
<1>1. MovesNumbered'
  BY DEF MovesInv, MovesNumbered, MovesLess
<1>2. MovesAhead'
  BY DEF MovesInv, MovesAhead, MovesLess
<1>3. MovesActed' /\ ActedInOrder("move")'
  BY DEF MovesInv, MovesActed, ActedInOrder
<1> QED
  BY <1>1, <1>2, <1>3 DEF MovesInv

LEMMA QuietMoves == ASSUME Quiet PROVE MovesLess
<1> SUFFICES ASSUME NEW p \in Machines, NEW v \in Moves(p)' PROVE v \in Moves(p)
  BY DEF MovesLess
<1>1. /\ queue'[p] = queue[p] /\ network' \subseteq network
      /\ sending'[p] = sending[p] \/ sending'[p] = None
  BY DEF Quiet
<1> QED
  BY <1>1 DEF Moves

LEMMA SenderMoves ==
    ASSUME Types, Ways, NEW m \in Machines,
           SenderRead(m) \/ Casting(m) \/ \E e \in Ends : Wiring(m, e)
    PROVE  MovesLess
<1> SUFFICES ASSUME NEW p \in Machines, NEW v \in Moves(p)' PROVE v \in Moves(p)
  BY DEF MovesLess
<1>0. /\ Own(v.input, p, "move")
      /\ \/ v \in Members(queue'[p])
         \/ sending'[p] # None /\ v = sending'[p].event
         \/ \E d \in network' : v = d.event
  BY DEF Moves
<1>1. CASE SenderRead(m)
  <2>1. Head(queue[m]) \in Members(queue[m]) /\ Members(Tail(queue[m])) \subseteq Members(queue[m])
    BY <1>1, SeqTail DEF SenderRead, Types, QueueOK
  <2>2. Members(queue'[p]) \subseteq Members(queue[p])
    BY <1>1, <2>1 DEF SenderRead, Types, QueueOK
  <2>3. \/ sending'[p] = sending[p] \/ sending'[p] = None
        \/ p = m /\ sending'[p].event = Head(queue[m])
    BY <1>1 DEF SenderRead, Types, SendingOK
  <2>4. network' = network
    BY <1>1 DEF SenderRead
  <2> QED
    BY <1>0, <2>1, <2>2, <2>3, <2>4 DEF Moves
<1>2. ASSUME Casting(m) \/ \E e \in Ends : Wiring(m, e) PROVE v \in Moves(p)
  <2>1. sending[m] # None /\ queue' = queue /\ (sending'[p] = sending[p] \/ sending'[p] = None)
    BY <1>2 DEF Casting, Wiring, SenderDone, Types, SendingOK
  <2>2. \A d \in network' : d \in network \/ d.event = sending[m].event
    BY <1>2 DEF Casting, Wiring
  <2>3. CASE \E d \in network' \ network : v = d.event
    <3>1. v = sending[m].event /\ p = m
      BY <1>0, <2>1, <2>2, <2>3 DEF Ways, FromTheUser, Own
    <3> QED
      BY <1>0, <2>1, <3>1 DEF Moves
  <2> QED
    BY <1>0, <2>1, <2>3 DEF Moves
<1> QED
  BY <1>1, <1>2

LEMMA UdpReceiveMoves ==
    ASSUME OnceInv, Ways, MovesInv, NEW m \in Machines, NEW d \in network, UdpReceive(m, d)
    PROVE  MovesInv'
<1>0. /\ Types /\ queue' = queue /\ sending' = sending /\ network' = network /\ seq' = seq
      /\ acted' = acted
  BY DEF OnceInv, UdpReceive, control
<1>1. \A p \in Machines : Moves(p)' = Moves(p)
  BY <1>0 DEF Moves
<1>2. /\ \A n \in Machines : last'[n] = IF n = m THEN d.event.seq ELSE last[n]
      /\ last[m] \in Nat /\ d.event.seq \in Nat /\ last[m] < d.event.seq
      /\ \A n \in Machines : injecting'[n] = IF n = m /\ injecting'[m] # None
                                               THEN d.event.input ELSE injecting[n]
      /\ injecting[m] = None
  BY <1>0 DEF UdpReceive, Types, UdpOK, Events
<1>3. NotBack(d.event.input, m) /\ d.event.input.kind = "move"
  BY DEF Ways, UdpReceive
<1>4. \A p \in Machines : Own(d.event.input, p, "move") => p # m /\ d.event \in Moves(p)
  BY <1>3 DEF Own, NotBack, Moves
<1>5. MovesNumbered'
  BY <1>0, <1>1 DEF MovesInv, MovesNumbered
<1>6. MovesAhead'
  <2> SUFFICES ASSUME NEW p \in Machines, NEW n \in Machines \ {p}, NEW v \in Moves(p),
                      v.seq > last'[n],
                      NEW i \in Members(acted[n]) \cup ({injecting'[n]} \ {None}),
                      Own(i, p, "move")
               PROVE  i.n < v.input.n
    BY <1>0, <1>1 DEF MovesAhead
  <2>0. v.seq \in Nat
    BY MovesWereMade
  <2>1. v.seq > last[n]
    BY <1>2, <2>0
  <2>2. CASE i \in Members(acted[n]) \cup ({injecting[n]} \ {None})
    BY <2>1, <2>2 DEF MovesInv, MovesAhead
  <2>3. CASE n = m /\ i = d.event.input
    <3>1. d.event \in Moves(p) /\ d.event.seq < v.seq
      BY <1>2, <1>4, <2>3
    <3> QED
      BY <2>3, <3>1 DEF MovesInv, MovesNumbered
  <2> QED
    BY <1>2, <2>2, <2>3
<1>7. MovesActed'
  <2> SUFFICES ASSUME NEW p \in Machines, NEW n \in Machines, NEW i \in Members(acted[n]),
                      Own(i, p, "move"), injecting'[n] # None, Own(injecting'[n], p, "move")
               PROVE  i.n < injecting'[n].n
    BY <1>0 DEF MovesActed
  <2>1. CASE injecting'[n] = injecting[n]
    BY <2>1 DEF MovesInv, MovesActed
  <2>2. CASE n = m /\ injecting'[n] = d.event.input
    BY <1>2, <1>4, <2>2 DEF MovesInv, MovesAhead
  <2> QED
    BY <1>2, <2>1, <2>2
<1>8. ActedInOrder("move")'
  BY <1>0 DEF MovesInv, ActedInOrder
<1> QED
  BY <1>5, <1>6, <1>7, <1>8 DEF MovesInv

\* The hook of a machine sees its own user's next input, or one that does not
\* come back from another machine.
UsersNext(m, i) == i.from = m /\ ~i.relayed /\ i.n = pressed[m] + 1

LEMMA CapturedOwn ==
    ASSUME NEW m \in Machines, NEW p \in Machines, NEW i \in Inputs, NEW kind
    PROVE  /\ Own(Captured(m, i).input, p, kind) <=> p = m /\ Own(i, m, kind)
           /\ i.kind = "move" => Captured(m, i).seq = seq[m]
           /\ Captured(m, i).input.n = i.n
           /\ NotBack(i, m) => ~Own(i, m, kind)
BY DEF Captured, Own, Inputs, NotBack

\* What a hook's step adds to the moves on their way.
LEMMA HookMovesOnTheirWay ==
    ASSUME Types, NEW m \in Machines, NEW i \in Inputs, NEW w, Taken(m, i, w),
           NEW p \in Machines, NEW v \in Moves(p)'
    PROVE  \/ v \in Moves(p)
           \/ p = m /\ Capturing(m, i) /\ v = Captured(m, i) /\ Own(i, m, "move")
<1>0. /\ Own(v.input, p, "move")
      /\ \/ v \in Members(queue'[p])
         \/ sending'[p] # None /\ v = sending'[p].event
         \/ \E d \in network' : v = d.event
  BY DEF Moves
<1>1. sending' = sending /\ network' = network
  BY DEF Taken
<1>2. CASE queue' = queue
  BY <1>0, <1>1, <1>2 DEF Moves
<1>3. CASE Capturing(m, i)
  <2> DEFINE cap == Captured(m, i)
  <2>1. cap \in Events /\ (Own(cap.input, p, "move") => p = m /\ Own(i, m, "move"))
    BY CapturedType, CapturedOwn DEF Types
  <2>2. \A n \in Machines : queue'[n] = IF n = m THEN Append(queue[m], cap) ELSE queue[n]
    BY <1>3 DEF Capturing, Types, QueueOK
  <2> HIDE DEF cap
  <2>3. Members(Append(queue[m], cap)) = Members(queue[m]) \cup {cap}
    BY <2>1, SeqAppend DEF Types, QueueOK
  <2>4. v \in Members(queue'[p]) => v \in Members(queue[p]) \/ v = cap
    BY <2>2, <2>3
  <2>5. v \in Moves(p) \/ v = cap
    BY <1>0, <1>1, <2>4 DEF Moves
  <2> QED
    BY <1>0, <1>3, <2>1, <2>5 DEF cap
<1> QED
  BY <1>2, <1>3 DEF Taken, Outcome, Acting, Dropping

\* What a hook's step adds to what acted.
LEMMA HookActed ==
    ASSUME Types, NEW m \in Machines, NEW i \in Inputs, NEW w, Taken(m, i, w)
    PROVE  /\ \A n \in Machines : \A a \in Members(acted'[n]) :
                 a \in Members(acted[n]) \/ (n = m /\ a = i)
           /\ \A n \in Machines : \A a, b : Precedes(acted'[n], a, b) =>
                 \/ Precedes(acted[n], a, b) /\ a \in Members(acted[n]) /\ b \in Members(acted[n])
                 \/ n = m /\ a \in Members(acted[m]) /\ b = i
<1>0. \A n \in Machines : acted[n] \in Seq(Inputs)
  BY DEF Types, ActedOK
<1>1. CASE acted' = acted
  BY <1>0, <1>1, SeqMembers
<1>2. CASE Acting(m, i)
  <2>1. \A n \in Machines : acted'[n] = IF n = m THEN Append(acted[m], i) ELSE acted[n]
    BY <1>2 DEF Acting, Types, ActedOK
  <2>2. /\ Members(Append(acted[m], i)) = Members(acted[m]) \cup {i}
        /\ \A a, b : Precedes(Append(acted[m], i), a, b)
                        => Precedes(acted[m], a, b) \/ (a \in Members(acted[m]) /\ b = i)
    BY <1>0, SeqAppend
  <2> QED
    BY <1>0, <2>1, <2>2, SeqMembers
<1> QED
  BY <1>1, <1>2 DEF Taken, Outcome, Capturing, Dropping

LEMMA HookMoves ==
    ASSUME OnceInv, Ways, MovesInv, NEW m \in Machines, NEW i \in Inputs, NEW w, Taken(m, i, w),
           SeqGrows, Types',
           \/ UsersNext(m, i)
           \/ i.kind = "move" /\ NotBack(i, m) /\ i = injecting[m] /\ i # None /\ injecting'[m] = None
           \/ i.kind = "key" /\ NotBack(i, m)
    PROVE  MovesInv'
<1>0. Types
  BY DEF OnceInv
<1> DEFINE cap == Captured(m, i)
<1>1. ASSUME NEW p \in Machines, NEW v \in Moves(p)'
      PROVE  \/ v \in Moves(p)
             \/ /\ p = m /\ Capturing(m, i) /\ v = cap /\ UsersNext(m, i) /\ i.kind = "move"
                /\ v.seq = seq[m] /\ v.input.n = pressed[m] + 1 /\ seq'[m] = seq[m] + 1
  <2>1. CASE v \in Moves(p)
    BY <2>1
  <2>2. CASE p = m /\ Capturing(m, i) /\ v = cap /\ Own(i, m, "move")
    <3>1. UsersNext(m, i) /\ i.kind = "move"
      BY <2>2 DEF Own, NotBack
    <3>2. v.seq = seq[m] /\ v.input.n = i.n
      BY <2>2, <3>1, CapturedOwn
    <3>3. seq'[m] = seq[m] + 1
      BY <1>0, <2>2, <3>1 DEF Capturing, Types, CountsOK
    <3> QED
      BY <2>2, <3>1, <3>2, <3>3 DEF UsersNext
  <2> QED
    BY <1>0, <2>1, <2>2, HookMovesOnTheirWay
<1>2. \A p \in Machines : seq[p] \in Nat /\ seq'[p] \in Nat /\ seq[p] <= seq'[p] /\ pressed[p] \in Nat
  BY <1>0 DEF SeqGrows, Types, CountsOK
<1>3. ASSUME NEW p \in Machines, NEW v \in Moves(p)
      PROVE  v.seq \in Nat /\ v.input.n \in Nat /\ v.input.n <= pressed[p] /\ v.seq < seq[p]
  BY MovesWereMade DEF MovesInv, MovesNumbered
<1> HIDE DEF cap
<1>4. MovesNumbered'
  <2> SUFFICES ASSUME NEW p \in Machines, NEW v \in Moves(p)'
               PROVE  /\ v.seq < seq'[p]
                      /\ \A u \in Moves(p)' : v.seq < u.seq => v.input.n < u.input.n
    BY DEF MovesNumbered
  <2>1. v.seq < seq'[p]
    BY <1>1, <1>2, <1>3
  <2>2. ASSUME NEW u \in Moves(p)', v.seq < u.seq PROVE v.input.n < u.input.n
    <3>1. CASE v \in Moves(p) /\ u \in Moves(p)
      BY <2>2, <3>1 DEF MovesInv, MovesNumbered
    <3>2. CASE v \in Moves(p) /\ u \notin Moves(p)
      BY <1>1, <1>2, <1>3, <3>2
    <3>3. CASE v \notin Moves(p)
      BY <1>1, <1>2, <1>3, <2>2, <3>3
    <3> QED
      BY <3>1, <3>2, <3>3
  <2> QED
    BY <2>1, <2>2
<1>5. \A n \in Machines : \A a \in Members(acted'[n]) : a \in Members(acted[n]) \/ (n = m /\ a = i)
  BY <1>0, HookActed
<1>6. last' = last /\ \A n \in Machines : injecting'[n] = injecting[n] \/ injecting'[n] = None
  BY DEF Taken
\* What acts is new there only if it is a move of another machine's user.
<1>7. ASSUME NEW p \in Machines \ {m}, Own(i, p, "move")
      PROVE  i = injecting[m] /\ i # None /\ injecting'[m] = None
  BY <1>7 DEF Own, UsersNext
<1>8. MovesAhead'
  <2> SUFFICES ASSUME NEW p \in Machines, NEW n \in Machines \ {p}, NEW v \in Moves(p)',
                      v.seq > last[n],
                      NEW a \in Members(acted'[n]) \cup ({injecting'[n]} \ {None}),
                      Own(a, p, "move")
               PROVE  a.n < v.input.n
    BY <1>6 DEF MovesAhead
  <2>1. a \in Members(acted[n]) \cup ({injecting[n]} \ {None})
    BY <1>5, <1>6, <1>7
  <2>2. CASE v \in Moves(p)
    BY <2>1, <2>2 DEF MovesInv, MovesAhead
  <2>3. CASE v \notin Moves(p)
    <3>1. v.input.n = pressed[p] + 1
      BY <1>1, <2>3
    <3>2. a.n \in Nat /\ a.n <= pressed[p]
      BY <2>1, AllWereMade DEF Own
    <3> QED
      BY <1>2, <3>1, <3>2
  <2> QED
    BY <2>2, <2>3
<1>9. MovesActed'
  <2> SUFFICES ASSUME NEW p \in Machines, NEW n \in Machines, NEW a \in Members(acted'[n]),
                      Own(a, p, "move"), injecting'[n] # None, Own(injecting'[n], p, "move")
               PROVE  a.n < injecting'[n].n
    BY DEF MovesActed
  <2>1. injecting'[n] = injecting[n] /\ injecting[n] # None
    BY <1>6
  <2>2. NotBack(injecting[n], n)
    BY <2>1 DEF Ways
  <2>3. p # n
    BY <2>1, <2>2 DEF NotBack, Own
  <2>4. a \in Members(acted[n])
    BY <1>5, <1>7, <2>3
  <2> QED
    BY <2>1, <2>4 DEF MovesInv, MovesActed
<1>10. ActedInOrder("move")'
  <2> SUFFICES ASSUME NEW p \in Machines, NEW n \in Machines, NEW a, NEW b,
                      Precedes(acted'[n], a, b), Own(a, p, "move"), Own(b, p, "move")
               PROVE  a.n < b.n
    BY DEF ActedInOrder
  <2>1. CASE Precedes(acted[n], a, b) /\ a \in Members(acted[n]) /\ b \in Members(acted[n])
    BY <2>1 DEF MovesInv, ActedInOrder
  <2>2. CASE n = m /\ a \in Members(acted[m]) /\ b = i
    <3>1. CASE p = m
      <4>1. i.n = pressed[m] + 1
        BY <2>2, <3>1 DEF Own, NotBack, UsersNext
      <4>2. a.n \in Nat /\ a.n <= pressed[m]
        BY <2>2, <3>1, AllWereMade DEF Own
      <4> QED
        BY <1>2, <2>2, <4>1, <4>2
    <3>2. CASE p # m
      <4>1. i = injecting[m] /\ i # None
        BY <1>7, <2>2, <3>2
      <4> QED
        BY <2>2, <4>1 DEF MovesInv, MovesActed
    <3> QED
      BY <3>1, <3>2
  <2> QED
    BY <1>0, <2>1, <2>2, HookActed
<1> QED
  BY <1>4, <1>8, <1>9, <1>10 DEF MovesInv

LEMMA MovesStep ==
    ASSUME OnceInv, Types', Ways, Registered, MovesInv, [Next]_vars PROVE MovesInv'
<1>0. Types
  BY DEF OnceInv
<1>1. CASE Quiet
  BY <1>1, QuietMoves, MovesKept DEF Quiet
<1>2. ASSUME NEW m \in Machines, SenderRead(m) \/ Casting(m) \/ \E e \in Ends : Wiring(m, e)
      PROVE  MovesInv'
  <2>1. seq' = seq /\ last' = last /\ acted' = acted /\ injecting' = injecting
    BY <1>2 DEF SenderRead, Casting, Wiring, SenderDone, control
  <2> QED
    BY <1>0, <1>2, <2>1, SenderMoves, MovesKept
<1>3. ASSUME NEW m \in Machines, NEW kind \in Kinds, Press(m, kind) PROVE MovesInv'
  <2>1. PICK i : i = [from |-> m, n |-> pressed[m] + 1, kind |-> kind, relayed |-> FALSE]
    OBVIOUS
  <2>2. UsersNext(m, i)
    BY <2>1 DEF UsersNext
  <2> QED
    BY <1>3, <2>1, <2>2, PressTakes, HookMoves
<1>4. ASSUME NEW m \in Machines, UdpInject(m) PROVE MovesInv'
  <2>1. PICK i : i = injecting[m]
    OBVIOUS
  <2>2. i \in Inputs /\ i # None /\ Taken(m, i, wire) /\ SeqGrows
    BY <1>4, <2>1, UdpInjectTakes
  <2>3. injecting'[m] = None
    BY <1>0, <1>4 DEF UdpInject, Types, UdpOK
  <2>4. i.kind = "move" /\ NotBack(i, m)
    BY <2>1, <2>2 DEF Ways
  <2> QED
    BY <2>1, <2>2, <2>3, <2>4, HookMoves
<1>5. ASSUME NEW c, NEW m, <<c, m>> \in Ends, Input(c, m) PROVE MovesInv'
  <2>1. PICK i : i = Head(Arrived(c, m)).input
    OBVIOUS
  <2> DEFINE f == <<c, Far(c, m)>>
  <2>2. /\ m \in Machines /\ f \in Ends /\ i \in Inputs /\ i \in Carried(wire[f])
        /\ Taken(m, i, Rest(c, m)) /\ SeqGrows
    BY <1>5, <2>1, InputTakes
  <2>3. i.kind = "key" /\ FromTheUser(i, f[2]) /\ f[2] # m
    BY <1>5, <2>2, EndsAre DEF Ways
  <2>4. NotBack(i, m)
    BY <2>3 DEF FromTheUser, NotBack
  <2> QED
    BY <2>2, <2>3, <2>4, HookMoves
<1> QED
  BY <1>0, <1>1, <1>2, <1>3, <1>4, <1>5, StepsAre, UdpReceiveMoves

LEMMA OrderInit == Init => Ways /\ MovesInv
<1> SUFFICES ASSUME Init PROVE Ways /\ MovesInv
  OBVIOUS
<1>1. /\ \A m \in Machines : Members(queue[m]) = {} /\ Members(acted[m]) = {}
      /\ \A m \in Machines : sending[m] = None /\ injecting[m] = None
      /\ \A e \in Ends : Carried(wire[e]) = {}
      /\ network = {}
  BY SeqEmpty DEF Init, Carried
<1>2. \A p \in Machines : Moves(p) = {}
  BY <1>1 DEF Moves
<1>3. Ways
  BY <1>1 DEF Ways
<1>4. MovesInv
  BY <1>1, <1>2 DEF MovesInv, MovesNumbered, MovesAhead, MovesActed, ActedInOrder
<1> QED
  BY <1>3, <1>4

LEMMA MovesInvHolds == Spec => [](OnceInv /\ Registered /\ Ways /\ MovesInv)
<1>1. OnceInv /\ Registered /\ Ways /\ MovesInv /\ OnceInv' /\ [Next]_vars => Ways' /\ MovesInv'
  BY WaysStep, MovesStep DEF OnceInv
<1> QED
  BY <1>1, OrderInit, OnceInvHolds, PTL DEF Spec

\* The moves of one user that act on one machine, however many connections and
\* whatever the network does with their datagrams, do so in order.
THEOREM MovesActInOrder == Spec => []ActedInOrder("move")
BY MovesInvHolds, PTL DEF MovesInv

-----------------------------------------------------------------------------
(* The keys of a user are in order, where one connection carries them.      *)

\* Each two machines have one connection at most.  With two, a machine that
\* registers the second one sends its next keys there, and they may overtake.
SingleLinks ==
    \A c, d \in Conns : {Dialer[c], Listener[c]} = {Dialer[d], Listener[d]} => c = d

KeysInv ==
    KeysQueued /\ KeysOnWire /\ KeysSent /\ KeysArrived /\ KeysActed /\ ActedInOrder("key")

LEMMA SingleEnds ==
    ASSUME SingleLinks, NEW e \in Ends, NEW f \in Ends, e[2] = f[2],
           Far(e[1], e[2]) = Far(f[1], f[2])
    PROVE  e = f
<1>1. ASSUME NEW g \in Ends
      PROVE  g[1] \in Conns /\ {Dialer[g[1]], Listener[g[1]]} = {g[2], Far(g[1], g[2])}
  BY SessionAssumption DEF Ends, Far
<1>2. e[1] = f[1]
  BY <1>1 DEF SingleLinks
<1>3. \E c, m : e = <<c, m>>
  BY DEF Ends
<1>4. \E c, m : f = <<c, m>>
  BY DEF Ends
<1> QED
  BY <1>2, <1>3, <1>4

LEMMA BehindAre ==
    \A p, j : j \in Behind(p) <=>
        /\ Own(j, p, "key")
        /\ \/ \E v \in Members(queue[p]) : j = v.input
           \/ sending[p] # None /\ j = sending[p].event.input
BY DEF Behind

LEMMA BehindAreNext ==
    \A p, j : j \in Behind(p)' <=>
        /\ Own(j, p, "key")
        /\ \/ \E v \in Members(queue'[p]) : j = v.input
           \/ sending'[p] # None /\ j = sending'[p].event.input
BY DEF Behind

\* Keys leave the sender tasks and the wires, and none comes.
LEMMA KeysKept ==
    ASSUME Types, KeysInv, KeysQueued', \A p \in Machines : Behind(p)' \subseteq Behind(p),
           acted' = acted, Fewer(wire', wire)
    PROVE  KeysInv'
<1>0. \A e \in Ends : e[2] \in Machines
  BY EndsAre
<1>1. KeysOnWire'
  <2> SUFFICES ASSUME NEW e \in Ends, NEW k, NEW l, InputsPrecede(wire'[e], k, l),
                      Own(k.input, e[2], "key"), Own(l.input, e[2], "key")
               PROVE  k.input.n < l.input.n
    BY DEF KeysOnWire
  <2>1. InputsPrecede(wire[e], k, l)
    BY DEF Fewer
  <2>2. k \in Members(wire[e]) /\ l \in Members(wire[e])
    BY <2>1, SeqMembers DEF InputsPrecede, Types, WireOK
  <2> QED
    BY <2>1, <2>2 DEF KeysInv, KeysOnWire
<1>2. KeysSent' /\ KeysArrived'
  BY <1>0 DEF KeysInv, KeysSent, KeysArrived, Fewer
<1>3. KeysActed' /\ ActedInOrder("key")'
  BY DEF KeysInv, KeysActed, ActedInOrder
<1> QED
  BY <1>1, <1>2, <1>3 DEF KeysInv

LEMMA QuietKeys == ASSUME Types, KeysInv, Quiet PROVE KeysInv'
<1>1. KeysQueued'
  BY DEF KeysInv, KeysQueued, Quiet
<1>2. \A p \in Machines : Behind(p)' \subseteq Behind(p)
  BY BehindAre, BehindAreNext DEF Quiet
<1> QED
  BY <1>1, <1>2, KeysKept DEF Quiet

LEMMA SenderReadKeys ==
    ASSUME Types, KeysInv, NEW m \in Machines, SenderRead(m) PROVE KeysInv'
<1> DEFINE h == Head(queue[m])
           t == Tail(queue[m])
<1>1. /\ Members(queue[m]) = {h} \cup Members(t)
      /\ \A a, b : Precedes(t, a, b) => Precedes(queue[m], a, b)
      /\ \A b \in Members(t) : Precedes(queue[m], h, b)
  BY SeqTail DEF SenderRead, Types, QueueOK
<1>2. \A n \in Machines : queue'[n] = IF n = m THEN t ELSE queue[n]
  BY DEF SenderRead, Types, QueueOK
<1>3. /\ \A n \in Machines \ {m} : sending'[n] = sending[n]
      /\ sending'[m] = None \/ sending'[m].event = h
  BY DEF SenderRead, Types, SendingOK
<1> HIDE DEF h, t
<1>4. KeysQueued'
  <2> SUFFICES ASSUME NEW p \in Machines
               PROVE  /\ \A v, w \in Members(queue'[p]) :
                            /\ Precedes(queue'[p], v, w)
                            /\ Own(v.input, p, "key") /\ Own(w.input, p, "key")
                            => v.input.n < w.input.n
                      /\ sending'[p] # None /\ Own(sending'[p].event.input, p, "key") =>
                            \A v \in Members(queue'[p]) :
                               Own(v.input, p, "key") => sending'[p].event.input.n < v.input.n
    BY DEF KeysQueued
  <2>1. CASE p # m
    BY <1>2, <1>3, <2>1 DEF KeysInv, KeysQueued
  <2>2. CASE p = m
    BY <1>1, <1>2, <1>3, <2>2 DEF KeysInv, KeysQueued
  <2> QED
    BY <2>1, <2>2
<1>5. ASSUME NEW p \in Machines, NEW j \in Behind(p)' PROVE j \in Behind(p)
  <2>1. CASE p = m
    BY <1>1, <1>2, <1>3, <2>1, BehindAre, BehindAreNext
  <2>2. CASE p # m
    BY <1>2, <1>3, <2>2, BehindAre, BehindAreNext
  <2> QED
    BY <2>1, <2>2
<1> QED
  BY <1>4, <1>5, AlikeSelf, KeysKept DEF SenderRead, control, Alike

LEMMA SenderDoneKeys ==
    ASSUME Types, KeysInv, NEW m \in Machines, SenderDone(m)
    PROVE  /\ KeysQueued' /\ \A p \in Machines : Behind(p)' \subseteq Behind(p)
           /\ queue' = queue /\ acted' = acted /\ sending'[m] = None
<1>1. /\ queue' = queue /\ acted' = acted
      /\ \A n \in Machines : sending'[n] = IF n = m THEN None ELSE sending[n]
  BY DEF SenderDone, control, Types, SendingOK
<1>2. KeysQueued'
  BY <1>1 DEF KeysInv, KeysQueued
<1>3. \A p \in Machines : Behind(p)' \subseteq Behind(p)
  BY <1>1, BehindAre, BehindAreNext
<1> QED
  BY <1>1, <1>2, <1>3

LEMMA WiringKeys ==
    ASSUME Types, KeysInv, NEW m \in Machines, NEW e \in Ends, Wiring(m, e) PROVE KeysInv'
<1> DEFINE y == sending[m].event.input
           p0 == InputPacket(y)
<1>1. /\ sending[m] # None /\ y \in Inputs /\ y.kind = "key" /\ e[2] = m
      /\ Far(e[1], m) \in Machines \ {m}
  BY EndsAre DEF Wiring, SenderDone, Types, SendingOK, Events
<1>2. p0 \in Packets /\ p0.input = y /\ p0.type = "Input"
  BY <1>1, PacketTypes DEF InputPacket
<1>3. \A f \in Ends : wire'[f] = IF f = e THEN Append(wire[e], p0) ELSE wire[f]
  BY DEF Wiring, Types, WireOK
<1>4. /\ KeysQueued' /\ \A p \in Machines : Behind(p)' \subseteq Behind(p)
      /\ queue' = queue /\ acted' = acted /\ sending'[m] = None
  BY SenderDoneKeys DEF Wiring
<1>5. Own(y, m, "key") => y \in Behind(m) /\ \A j \in Behind(m)' : y.n < j.n
  BY <1>1, <1>4, BehindAre, BehindAreNext DEF KeysInv, KeysQueued
<1> HIDE DEF p0, y
<1>6. /\ Members(Append(wire[e], p0)) = Members(wire[e]) \cup {p0}
      /\ \A a, b : Precedes(Append(wire[e], p0), a, b)
                      => Precedes(wire[e], a, b) \/ (a \in Members(wire[e]) /\ b = p0)
  BY <1>2, SeqAppend DEF Types, WireOK
<1>7. \A f \in Ends : \A i \in Carried(wire'[f]) : i \in Carried(wire[f]) \/ (f = e /\ i = y)
  BY <1>2, <1>3, <1>6 DEF Carried
<1>8. KeysOnWire'
  <2> SUFFICES ASSUME NEW f \in Ends, NEW k, NEW l, InputsPrecede(wire'[f], k, l),
                      Own(k.input, f[2], "key"), Own(l.input, f[2], "key")
               PROVE  k.input.n < l.input.n
    BY DEF KeysOnWire
  <2>1. CASE Precedes(wire[f], k, l)
    <3>1. k \in Members(wire[f]) /\ l \in Members(wire[f])
      BY <2>1, SeqMembers DEF Types, WireOK
    <3> QED
      BY <2>1, <3>1 DEF KeysInv, KeysOnWire, InputsPrecede
  <2>2. CASE f = e /\ k \in Members(wire[e]) /\ l = p0
    <3>1. k.input \in Carried(wire[e])
      BY <2>2 DEF InputsPrecede, Carried
    <3> QED
      BY <1>1, <1>2, <1>5, <2>2, <3>1 DEF KeysInv, KeysSent
  <2> QED
    BY <1>3, <1>6, <2>1, <2>2 DEF InputsPrecede
<1>9. KeysSent'
  <2> SUFFICES ASSUME NEW f \in Ends, NEW i \in Carried(wire'[f]), NEW j \in Behind(f[2])',
                      Own(i, f[2], "key")
               PROVE  i.n < j.n
    BY DEF KeysSent
  <2>1. CASE i \in Carried(wire[f])
    BY <1>4, <2>1, EndsAre DEF KeysInv, KeysSent
  <2>2. CASE f = e /\ i = y
    BY <1>1, <1>5, <2>2
  <2> QED
    BY <1>7, <2>1, <2>2
<1>10. KeysArrived'
  <2> SUFFICES ASSUME NEW f \in Ends, NEW i \in Members(acted[Far(f[1], f[2])]),
                      NEW j \in Carried(wire'[f]), Own(i, f[2], "key"), Own(j, f[2], "key")
               PROVE  i.n < j.n
    BY <1>4 DEF KeysArrived
  <2>1. CASE j \in Carried(wire[f])
    BY <2>1 DEF KeysInv, KeysArrived
  <2>2. CASE f = e /\ j = y
    BY <1>1, <1>5, <2>2 DEF KeysInv, KeysActed
  <2> QED
    BY <1>7, <2>1, <2>2
<1>11. KeysActed' /\ ActedInOrder("key")'
  BY <1>4 DEF KeysInv, KeysActed, ActedInOrder
<1> QED
  BY <1>4, <1>8, <1>9, <1>10, <1>11 DEF KeysInv

LEMMA CastingKeys ==
    ASSUME Types, KeysInv, NEW m \in Machines, Casting(m) PROVE KeysInv'
BY SenderDoneKeys, KeysKept, AlikeSelf DEF Casting, Alike

LEMMA UdpReceiveKeys ==
    ASSUME Types, KeysInv, NEW m \in Machines, NEW d, UdpReceive(m, d) PROVE KeysInv'
<1>1. queue' = queue /\ sending' = sending /\ acted' = acted /\ wire' = wire
  BY DEF UdpReceive, control
<1>2. KeysQueued' /\ \A p \in Machines : Behind(p)' \subseteq Behind(p)
  BY <1>1, BehindAre, BehindAreNext DEF KeysInv, KeysQueued
<1> QED
  BY <1>1, <1>2, KeysKept, AlikeSelf DEF Alike

LEMMA BehindWereMade ==
    ASSUME OnceInv, NEW p \in Machines, NEW j \in Behind(p)
    PROVE  j.n \in Nat /\ j.n <= pressed[p]
BY AllWereMade, BehindAre DEF Own

\* The hook of machine m sees a key from the head of a wire: w are the wires
\* after that.
CameOn(f, m, i, w) ==
    /\ i.kind = "key" /\ FromTheUser(i, f[2]) /\ Far(f[1], f[2]) = m /\ i \in Carried(wire[f])
    /\ \A j \in Carried(w[f]) : Own(i, f[2], "key") /\ Own(j, f[2], "key") => i.n < j.n

\* What a hook's step adds to the keys at the sender task.
LEMMA HookBehind ==
    ASSUME Types, NEW m \in Machines, NEW i \in Inputs, NEW w, Taken(m, i, w),
           NEW p \in Machines, NEW j \in Behind(p)'
    PROVE  j \in Behind(p) \/ (p = m /\ j.n = i.n /\ Own(i, m, "key"))
<1>1. sending' = sending
  BY DEF Taken
<1>2. CASE queue' = queue
  BY <1>1, <1>2, BehindAre, BehindAreNext
<1>3. CASE Capturing(m, i)
  <2> DEFINE cap == Captured(m, i)
  <2>1. cap \in Events /\ cap.input.n = i.n
        /\ (Own(cap.input, p, "key") => p = m /\ Own(i, m, "key"))
    BY CapturedType, CapturedOwn DEF Types
  <2>2. \A n \in Machines : queue'[n] = IF n = m THEN Append(queue[m], cap) ELSE queue[n]
    BY <1>3 DEF Capturing, Types, QueueOK
  <2> HIDE DEF cap
  <2>3. Members(Append(queue[m], cap)) = Members(queue[m]) \cup {cap}
    BY <2>1, SeqAppend DEF Types, QueueOK
  <2> QED
    BY <1>1, <2>1, <2>2, <2>3, BehindAre, BehindAreNext
<1> QED
  BY <1>2, <1>3 DEF Taken, Outcome, Acting, Dropping

LEMMA HookQueuedKeys ==
    ASSUME OnceInv, KeysInv, NEW m \in Machines, NEW i \in Inputs, NEW w, Taken(m, i, w),
           Own(i, m, "key") => UsersNext(m, i)
    PROVE  KeysQueued'
<1>0. Types /\ sending' = sending
  BY DEF OnceInv, Taken
<1>1. CASE queue' = queue
  BY <1>0, <1>1 DEF KeysInv, KeysQueued
<1>2. CASE Capturing(m, i)
  <2> DEFINE cap == Captured(m, i)
  <2>1. cap \in Events /\ cap.input.n = i.n /\ (Own(cap.input, m, "key") => Own(i, m, "key"))
    BY <1>0, CapturedType, CapturedOwn DEF Types
  <2>2. \A n \in Machines : queue'[n] = IF n = m THEN Append(queue[m], cap) ELSE queue[n]
    BY <1>0, <1>2 DEF Capturing, Types, QueueOK
  <2> HIDE DEF cap
  <2>3. /\ Members(Append(queue[m], cap)) = Members(queue[m]) \cup {cap}
        /\ \A a, b : Precedes(Append(queue[m], cap), a, b)
                        => Precedes(queue[m], a, b) \/ (a \in Members(queue[m]) /\ b = cap)
    BY <1>0, <2>1, SeqAppend DEF Types, QueueOK
  <2>4. Own(cap.input, m, "key") => cap.input.n = pressed[m] + 1 /\ pressed[m] \in Nat
    BY <1>0, <2>1 DEF UsersNext, Types, CountsOK
  <2>5. \A j \in Behind(m) : j.n \in Nat /\ j.n <= pressed[m]
    BY BehindWereMade
  <2>6. \A v : v \in Members(queue[m]) \/ (sending[m] # None /\ v = sending[m].event)
                 => (Own(v.input, m, "key") => v.input \in Behind(m))
    BY BehindAre
  <2> SUFFICES ASSUME NEW p \in Machines
               PROVE  /\ \A v, u \in Members(queue'[p]) :
                            /\ Precedes(queue'[p], v, u)
                            /\ Own(v.input, p, "key") /\ Own(u.input, p, "key")
                            => v.input.n < u.input.n
                      /\ sending'[p] # None /\ Own(sending'[p].event.input, p, "key") =>
                            \A v \in Members(queue'[p]) :
                               Own(v.input, p, "key") => sending'[p].event.input.n < v.input.n
    BY DEF KeysQueued
  <2>7. CASE p # m
    BY <1>0, <2>2, <2>7 DEF KeysInv, KeysQueued
  <2>8. CASE p = m
    <3>1. ASSUME NEW v, NEW u, Precedes(queue'[m], v, u),
                 Own(v.input, m, "key"), Own(u.input, m, "key")
          PROVE  v.input.n < u.input.n
      <4>1. CASE Precedes(queue[m], v, u)
        <5>1. v \in Members(queue[m]) /\ u \in Members(queue[m])
          BY <1>0, <4>1, SeqMembers DEF Types, QueueOK
        <5> QED
          BY <3>1, <4>1, <5>1 DEF KeysInv, KeysQueued
      <4>2. CASE v \in Members(queue[m]) /\ u = cap
        BY <2>4, <2>5, <2>6, <3>1, <4>2
      <4> QED
        BY <2>2, <2>3, <3>1, <4>1, <4>2
    <3>2. ASSUME NEW v \in Members(queue'[m]), sending[m] # None, Own(v.input, m, "key"),
                 Own(sending[m].event.input, m, "key")
          PROVE  sending[m].event.input.n < v.input.n
      <4>1. CASE v \in Members(queue[m])
        BY <3>2, <4>1 DEF KeysInv, KeysQueued
      <4>2. CASE v = cap
        BY <2>4, <2>5, <2>6, <3>2, <4>2
      <4> QED
        BY <2>2, <2>3, <4>1, <4>2
    <3> QED
      BY <1>0, <2>8, <3>1, <3>2
  <2> QED
    BY <2>7, <2>8
<1> QED
  BY <1>1, <1>2 DEF Taken, Outcome, Acting, Dropping

LEMMA HookKeys ==
    ASSUME SingleLinks, OnceInv, KeysInv, NEW m \in Machines, NEW i \in Inputs, NEW w,
           Taken(m, i, w),
           \/ UsersNext(m, i)
           \/ i.kind = "move" /\ NotBack(i, m)
           \/ \E f \in Ends : CameOn(f, m, i, w)
    PROVE  KeysInv'
<1>0. /\ Types /\ Fewer(wire', w) /\ Fewer(w, wire) /\ Fewer(wire', wire)
      /\ \A n \in Machines : pressed[n] \in Nat
  BY FewerStill DEF OnceInv, Types, CountsOK, Taken
<1>e. \A f \in Ends : f[2] \in Machines /\ Far(f[1], f[2]) \in Machines \ {f[2]}
  BY EndsAre
\* A key of this machine's user is new, one of another machine's came from there.
<1>1. Own(i, m, "key") => UsersNext(m, i)
  BY <1>e DEF Own, NotBack, CameOn, FromTheUser
<1>2. ASSUME NEW p \in Machines \ {m}, Own(i, p, "key")
      PROVE  \E f \in Ends : CameOn(f, m, i, w) /\ f[2] = p
  BY <1>2 DEF Own, UsersNext, CameOn, FromTheUser
<1>3. ASSUME NEW p \in Machines, NEW j \in Behind(p)'
      PROVE  j \in Behind(p) \/ (p = m /\ j.n = pressed[m] + 1)
  BY <1>0, <1>1, HookBehind DEF UsersNext
<1>4. ASSUME NEW n \in Machines, NEW a \in Members(acted[n])
      PROVE  a.n \in Nat /\ a.n <= pressed[a.from]
  BY AllWereMade
<1>5. KeysQueued'
  BY <1>1, HookQueuedKeys
<1>6. KeysOnWire'
  <2> SUFFICES ASSUME NEW e \in Ends, NEW k, NEW l, InputsPrecede(wire'[e], k, l),
                      Own(k.input, e[2], "key"), Own(l.input, e[2], "key")
               PROVE  k.input.n < l.input.n
    BY DEF KeysOnWire
  <2>1. InputsPrecede(wire[e], k, l)
    BY <1>0 DEF Fewer
  <2>2. k \in Members(wire[e]) /\ l \in Members(wire[e])
    BY <1>0, <2>1, SeqMembers DEF InputsPrecede, Types, WireOK
  <2> QED
    BY <2>1, <2>2 DEF KeysInv, KeysOnWire
<1>7. KeysSent'
  <2> SUFFICES ASSUME NEW e \in Ends, NEW a \in Carried(wire'[e]), NEW j \in Behind(e[2])',
                      Own(a, e[2], "key")
               PROVE  a.n < j.n
    BY DEF KeysSent
  <2>1. a \in Carried(wire[e])
    BY <1>0 DEF Fewer
  <2>2. CASE j \in Behind(e[2])
    BY <2>1, <2>2 DEF KeysInv, KeysSent
  <2>3. CASE e[2] = m /\ j.n = pressed[m] + 1
    <3>1. a.n \in Nat /\ a.n <= pressed[m]
      BY <2>1, <2>3, AllWereMade DEF Own
    <3> QED
      BY <1>0, <2>3, <3>1
  <2> QED
    BY <1>e, <1>3, <2>2, <2>3
<1>8. KeysArrived'
  <2> SUFFICES ASSUME NEW e \in Ends, NEW a \in Members(acted'[Far(e[1], e[2])]),
                      NEW j \in Carried(wire'[e]), Own(a, e[2], "key"), Own(j, e[2], "key")
               PROVE  a.n < j.n
    BY DEF KeysArrived
  <2>1. CASE a \in Members(acted[Far(e[1], e[2])])
    BY <1>0, <2>1 DEF KeysInv, KeysArrived, Fewer
  <2>2. CASE Far(e[1], e[2]) = m /\ a = i
    <3>1. PICK f \in Ends : CameOn(f, m, i, w) /\ f[2] = e[2]
      BY <1>e, <1>2, <2>2
    <3>2. e = f
      BY <2>2, <3>1, SingleEnds DEF CameOn
    <3>3. j \in Carried(w[e])
      BY <1>0 DEF Fewer
    <3> QED
      BY <2>2, <3>1, <3>2, <3>3 DEF CameOn
  <2> QED
    BY <1>0, <1>e, <2>1, <2>2, HookActed
<1>9. KeysActed'
  <2> SUFFICES ASSUME NEW p \in Machines, NEW n \in Machines \ {p}, NEW a \in Members(acted'[n]),
                      NEW j \in Behind(p)', Own(a, p, "key")
               PROVE  a.n < j.n
    BY DEF KeysActed
  <2>1. CASE a \in Members(acted[n]) /\ j \in Behind(p)
    BY <2>1 DEF KeysInv, KeysActed
  <2>2. CASE a \in Members(acted[n]) /\ p = m /\ j.n = pressed[m] + 1
    BY <1>0, <1>4, <2>2 DEF Own
  <2>3. CASE n = m /\ a = i
    <3>1. PICK f \in Ends : CameOn(f, m, i, w) /\ f[2] = p
      BY <1>2, <2>3
    <3>2. j \in Behind(p)
      BY <1>3, <2>3
    <3> QED
      BY <2>3, <3>1, <3>2 DEF CameOn, KeysInv, KeysSent
  <2>4. a \in Members(acted[n]) \/ (n = m /\ a = i)
    BY <1>0, HookActed
  <2> QED
    BY <1>3, <2>1, <2>2, <2>3, <2>4
<1>10. ActedInOrder("key")'
  <2> SUFFICES ASSUME NEW p \in Machines, NEW n \in Machines, NEW a, NEW b,
                      Precedes(acted'[n], a, b), Own(a, p, "key"), Own(b, p, "key")
               PROVE  a.n < b.n
    BY DEF ActedInOrder
  <2>1. CASE Precedes(acted[n], a, b) /\ a \in Members(acted[n]) /\ b \in Members(acted[n])
    BY <2>1 DEF KeysInv, ActedInOrder
  <2>2. CASE n = m /\ a \in Members(acted[m]) /\ b = i
    <3>1. CASE p = m
      BY <1>0, <1>1, <1>4, <2>2, <3>1 DEF Own, UsersNext
    <3>2. CASE p # m
      <4>1. PICK f \in Ends : CameOn(f, m, i, w) /\ f[2] = p
        BY <1>2, <2>2, <3>2
      <4> QED
        BY <2>2, <4>1 DEF CameOn, KeysInv, KeysArrived
    <3> QED
      BY <3>1, <3>2
  <2> QED
    BY <1>0, <2>1, <2>2, HookActed
<1> QED
  BY <1>5, <1>6, <1>7, <1>8, <1>9, <1>10 DEF KeysInv

\* A key that is the head of its wire is the earliest one there.
LEMMA InputCame ==
    ASSUME OnceInv, Ways, KeysInv, NEW c, NEW m, <<c, m>> \in Ends, Input(c, m),
           NEW i, i = Head(Arrived(c, m)).input
    PROVE  \E f \in Ends : CameOn(f, m, i, Rest(c, m))
<1> DEFINE f == <<c, Far(c, m)>>
           w == Rest(c, m)
           h == Head(wire[f])
<1>1. /\ f \in Ends /\ i \in Carried(wire[f]) /\ h \in Members(wire[f]) /\ h.type = "Input"
      /\ h.input = i /\ Members(w[f]) \subseteq Members(wire[f])
      /\ \A p \in Members(w[f]) : Precedes(wire[f], h, p)
  BY InputTakes
<1>2. Far(f[1], f[2]) = m
  BY EndsAre, SessionAssumption DEF Ends, Far
<1>3. i.kind = "key" /\ FromTheUser(i, f[2])
  BY <1>1 DEF Ways
<1> HIDE DEF w, h, f
<1>4. ASSUME NEW j \in Carried(w[f]), Own(i, f[2], "key"), Own(j, f[2], "key") PROVE i.n < j.n
  <2>1. PICK p \in Members(w[f]) : p.type = "Input" /\ p.input = j
    BY DEF Carried
  <2> QED
    BY <1>1, <1>4, <2>1 DEF KeysInv, KeysOnWire, InputsPrecede
<1> QED
  BY <1>1, <1>2, <1>3, <1>4 DEF CameOn, w

LEMMA KeysStep ==
    ASSUME SingleLinks, OnceInv, Ways, Registered, KeysInv, [Next]_vars PROVE KeysInv'
<1>0. Types
  BY DEF OnceInv
<1>1. ASSUME NEW m \in Machines, NEW kind \in Kinds, Press(m, kind) PROVE KeysInv'
  <2>1. PICK i : i = [from |-> m, n |-> pressed[m] + 1, kind |-> kind, relayed |-> FALSE]
    OBVIOUS
  <2>2. UsersNext(m, i)
    BY <2>1 DEF UsersNext
  <2> QED
    BY <1>1, <2>1, <2>2, PressTakes, HookKeys
<1>2. ASSUME NEW m \in Machines, UdpInject(m) PROVE KeysInv'
  <2>1. PICK i : i = injecting[m]
    OBVIOUS
  <2>2. i \in Inputs /\ i # None /\ Taken(m, i, wire)
    BY <1>2, <2>1, UdpInjectTakes
  <2>3. i.kind = "move" /\ NotBack(i, m)
    BY <2>1, <2>2 DEF Ways
  <2> QED
    BY <2>2, <2>3, HookKeys
<1>3. ASSUME NEW c, NEW m, <<c, m>> \in Ends, Input(c, m) PROVE KeysInv'
  <2>1. PICK i : i = Head(Arrived(c, m)).input
    OBVIOUS
  <2>2. m \in Machines /\ i \in Inputs /\ Taken(m, i, Rest(c, m))
    BY <1>3, <2>1, InputTakes
  <2>3. \E f \in Ends : CameOn(f, m, i, Rest(c, m))
    BY <1>3, <2>1, InputCame
  <2> QED
    BY <2>2, <2>3, HookKeys
<1> QED
  BY <1>0, <1>1, <1>2, <1>3, StepsAre, QuietKeys, SenderReadKeys, CastingKeys, WiringKeys,
     UdpReceiveKeys

LEMMA KeysInit == Init => KeysInv
<1> SUFFICES ASSUME Init PROVE KeysInv
  OBVIOUS
<1>1. /\ \A m \in Machines : Members(queue[m]) = {} /\ Members(acted[m]) = {}
      /\ \A m \in Machines : sending[m] = None
      /\ \A e \in Ends : Members(wire[e]) = {} /\ Carried(wire[e]) = {}
      /\ \A e \in Ends : e[2] \in Machines
  BY SeqEmpty, EndsAre DEF Init, Carried
<1>2. \A p \in Machines : Behind(p) = {}
  BY <1>1, BehindAre
<1> QED
  BY <1>1, <1>2 DEF KeysInv, KeysQueued, KeysOnWire, KeysSent, KeysArrived, KeysActed, ActedInOrder

\* The order of what acted, told of inputs, is the order of its places.
LEMMA OrderOfPlaces ==
    ASSUME Types, ActedInOrder("move"), ActedInOrder("key") PROVE ActInOrder
<1> SUFFICES ASSUME NEW m \in Machines, NEW j \in DOMAIN acted[m], NEW k \in DOMAIN acted[m],
                    j < k, acted[m][j].from = acted[m][k].from,
                    acted[m][j].kind = acted[m][k].kind,
                    ~acted[m][j].relayed, ~acted[m][k].relayed
             PROVE  acted[m][j].n < acted[m][k].n
  BY DEF ActInOrder
<1>1. acted[m][j] \in Inputs /\ acted[m][k] \in Inputs
  BY DEF Types, ActedOK
<1>2. acted[m][j].from \in Machines /\ acted[m][j].kind \in {"move", "key"}
  BY <1>1 DEF Inputs, Kinds
<1>3. /\ acted[m][j] \in Members(acted[m]) /\ acted[m][k] \in Members(acted[m])
      /\ Precedes(acted[m], acted[m][j], acted[m][k])
  BY DEF Members, Precedes
<1> QED
  BY <1>2, <1>3 DEF ActedInOrder, Own

\* The inputs of one user that act on one machine do so in the order in which
\* they were made, if no two machines have more than one connection: a key
\* that is on a wire cannot be overtaken on another one.
THEOREM InputsActInOrder == SingleLinks => (Spec => []ActInOrder)
<1>1. SingleLinks /\ Init => SingleLinks /\ KeysInv
  BY KeysInit
<1>2. OnceInv /\ Registered /\ Ways /\ SingleLinks /\ KeysInv /\ [Next]_vars
         => (SingleLinks /\ KeysInv)'
  BY KeysStep DEF SingleLinks
<1>3. OnceInv /\ MovesInv /\ KeysInv => ActInOrder
  BY OrderOfPlaces DEF OnceInv, MovesInv, KeysInv
<1> QED
  BY <1>1, <1>2, <1>3, MovesInvHolds, PTL DEF Spec
=============================================================================
