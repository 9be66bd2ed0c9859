------------------------------- MODULE Daemon -------------------------------
(***************************************************************************)
(* One kvm-daemon process at the granularity of its locks: the tasks of    *)
(* kvm-daemon/src/main.rs and the input hook, which share three mutexes,   *)
(*                                                                         *)
(*   "state"     state_mgr     the StateManager (SessionState)             *)
(*   "injector"  injector      the OS input injector and its cursor        *)
(*   "peers"     active_peers  the map from peer ids to connections        *)
(*                                                                         *)
(* The tasks are the reader of each TCP connection, the UDP receiver and   *)
(* the sender of captured events.  They wait for a mutex (lock().await)    *)
(* and each wait, each critical section and each release is a step of its  *)
(* own, so that every other task and the hook can run in between.  The     *)
(* hook runs on an OS thread, never waits (try_lock, try_send), and is one *)
(* step, except that its second try_lock of "state", after a breakout that *)
(* missed the lock, is a step of its own.                                  *)
(*                                                                         *)
(* The other daemons are the environment: a reader may receive any packet  *)
(* a daemon sends, or an error, at any time; the user may do anything.     *)
(***************************************************************************)
EXTENDS Integers, Sequences, SessionState

CONSTANTS
    Peers,       \* the ids of the other daemons
    Neighbors,   \* the peers given by --right-peer and --left-peer
    Conns,       \* the TCP connections this daemon ever has, one reader each
    RemoteOf,    \* [Conns -> Peers], the id the far end announces
    EventCap,    \* capacity of the captured-event channel (1000 in the code)
    ChanCap,     \* capacity of a connection's packet channel (100 in the code)
    LowestCount, \* where the system stops to count shows: 0 on macOS; Windows
                 \* does not stop, for TLC it is a bound
    MaxSkipped   \* bound on the shows that are skipped, for TLC

Udp    == "udp"
Sender == "sender"
Tasks  == Conns \cup {Udp, Sender}
Mutexes == {"state", "injector", "peers"}

\* The name under which a machine records whoever controls it: a literal in
\* the EnterScreen handler, not the controller's peer id.
RemotePeerLabel == "remote-peer"

ASSUME DaemonAssumption ==
    /\ None \notin Peers /\ None \notin Tasks
    /\ Udp \notin Conns /\ Sender \notin Conns
    /\ Neighbors \subseteq Peers
    /\ RemoteOf \in [Conns -> Peers]
    /\ EventCap \in Nat \ {0} /\ ChanCap \in Nat \ {0}
    /\ LowestCount \in Int /\ LowestCount <= 0 /\ MaxSkipped \in Nat

Events == {"move", "discrete"}    \* MouseMoveDelta, and every other InputEvent
Packets == {"Handshake", "HandshakeAck", "EnterScreen", "LeaveScreen",
            "PreemptTakeover", "Input"}

VARIABLES
    session,     \* the StateManager's current_state
    cursor,      \* the system's count of hides less shows: hidden above 0
    skipped,     \* history: the breakouts that could not show the cursor
    holder,      \* [Mutexes -> Tasks or None]
    pc,          \* [Tasks -> the point at which the task is]
    peers,       \* active_peers: [Peers -> Conns or None]
    registered,  \* [Conns -> Peers or None], the reader's current_registered_peer
    chan,        \* [Conns -> Seq(Packets)], the connection's mpsc channel
    writer,      \* [Conns -> {"up", "down"}], the connection's writer task
    queue,       \* Seq(Events), the captured-event channel
    sending,     \* what the sender task holds: event, target, chosen connection
    hook,        \* "idle", or "retry" between the two try_locks of "state"
    exiting,     \* a message waits in the shutdown channel
    running      \* the process has not exited

vars == <<session, cursor, skipped, holder, pc, peers, registered, chan, writer, queue,
          sending, hook, exiting, running>>

-----------------------------------------------------------------------------
(* Program points.  A name "X.m" waits for mutex m while handling X.        *)

ReaderPoints == {"unopened", "recv", "Input.injector", "Input.hold",
                 "Handshake.peers", "Handshake.reply", "Ack.peers", "Ack.hold",
                 "Enter.injector", "Enter.state", "Enter.hold",
                 "Return.state", "Return.injector", "Return.hold",
                 "Gone.peers", "Gone.hold", "dead"}
UdpPoints    == {"recv", "Delta.state", "Delta.read", "Delta.injector",
                 "Delta.hold", "dead"}
SenderPoints == {"recv", "Send.state", "Send.read", "Send.peers", "Send.send"}

\* The points at which a task holds a mutex, and those at which it waits for
\* one.  "Enter.state" and "Return.injector" are in both: a second lock is
\* awaited while the first is held.
HoldPoints ==
    [m \in Mutexes |->
        CASE m = "state"    -> {"Delta.read", "Send.read", "Enter.hold",
                                "Return.injector", "Return.hold"}
          [] m = "injector" -> {"Input.hold", "Delta.hold", "Enter.state",
                                "Enter.hold", "Return.hold"}
          [] m = "peers"    -> {"Handshake.reply", "Ack.hold", "Gone.hold",
                                "Send.send"}]
WaitPoints ==
    [m \in Mutexes |->
        CASE m = "state"    -> {"Delta.state", "Send.state", "Enter.state",
                                "Return.state"}
          [] m = "injector" -> {"Input.injector", "Delta.injector",
                                "Enter.injector", "Return.injector"}
          [] m = "peers"    -> {"Handshake.peers", "Ack.peers", "Gone.peers",
                                "Send.peers"}]

Free(m) == holder[m] = None

At(t, point) == pc[t] = point
Goto(t, point) == pc' = [pc EXCEPT ![t] = point]

Lock(t, m) == Free(m) /\ holder' = [holder EXCEPT ![m] = t]
Unlock(ms) == holder' = [m \in Mutexes |-> IF m \in ms THEN None ELSE holder[m]]

-----------------------------------------------------------------------------
(* Packet channels.                                                         *)

Lookup(id) == IF id \in Peers THEN peers[id] ELSE None
Connected == {peers[p] : p \in Peers} \ {None}

Room(c) == writer[c] = "up" /\ Len(chan[c]) < ChanCap

\* An awaited send ends when there is room, or with an error once the
\* writer, which owns the receiving half, is gone.
SendEnds(c) == writer[c] = "down" \/ Len(chan[c]) < ChanCap

\* Variant: an unbounded channel.
OfferUnbounded(cs, packet) ==
    [c \in Conns |-> IF c \in cs /\ writer[c] = "up" THEN Append(chan[c], packet)
                                                   ELSE chan[c]]

\* The channels after the packet was offered to each connection of cs; one
\* without room is left as it is (try_send) or has no receiver any more.
Offer(cs, packet) ==
    [c \in Conns |-> IF c \in cs /\ Room(c) THEN Append(chan[c], packet)
                                            ELSE chan[c]]

-----------------------------------------------------------------------------
(* The input hook.  A call that changes nothing (the state is busy, or the  *)
(* machine is LocalActive and no edge with a neighbor was hit) returns      *)
(* false, and the event reaches the local applications: it is a stutter.    *)

\* hide_cursor and show_cursor are counted by the system.
Shown == IF cursor > LowestCount THEN cursor - 1 ELSE cursor

\* Variant: the hook reaches the injector without its lock.
HideWithoutLock == cursor' = cursor + 1

\* What try_lock on the injector lets the hook do to the cursor.
TryHide == cursor' = IF Free("injector") THEN cursor + 1 ELSE cursor
TryShow == cursor' = IF Free("injector") THEN Shown ELSE cursor

\* What try_lock on the peer map lets the hook send.
TrySend(cs, packet) == chan' = IF Free("peers") THEN Offer(cs, packet) ELSE chan

HookForward(event) ==
    /\ IsControllingRemote(session)
    /\ queue' = IF Len(queue) < EventCap THEN Append(queue, event) ELSE queue
    /\ UNCHANGED <<session, cursor, chan>>

HookPreempt ==
    /\ IsRemoteControlled(session)
    /\ session' = handle_physical_input_detected(session)
    /\ TryShow
    /\ TrySend({Lookup(session.peer)}, "PreemptTakeover")
    /\ UNCHANGED queue

HookJump(target) ==
    /\ IsLocalActive(session)
    /\ session' = start_controlling_remote(target)
    /\ TryHide
    /\ TrySend({Lookup(target)}, "EnterScreen")
    /\ UNCHANGED queue

\* Steps 2 to 4 of the callback, for an event that is no hotkey.
HookInput(event) ==
    /\ hook = "idle"
    /\ Free("state")
    /\ \/ HookForward(event)
       \/ HookPreempt
       \/ event = "move" /\ \E target \in Neighbors : HookJump(target)
    /\ UNCHANGED <<skipped, holder, pc, peers, registered, writer, sending,
                   hook, exiting, running>>

HookBreakout ==
    /\ hook = "idle"
    /\ Free("state")
    /\ session' = return_to_local(session)
    /\ TryShow
    /\ \/ UNCHANGED skipped /\ (IsControllingRemote(session) => Free("injector"))
       \/ /\ IsControllingRemote(session) /\ ~Free("injector")
          /\ skipped < MaxSkipped /\ skipped' = skipped + 1
    /\ TrySend(Connected, "LeaveScreen")
    /\ UNCHANGED <<holder, pc, peers, registered, writer, queue, sending, hook,
                   exiting, running>>

\* A breakout that finds the state locked falls through to the second
\* try_lock, where it is an ordinary key press.
HookBreakoutBusy ==
    /\ hook = "idle"
    /\ ~Free("state")
    /\ hook' = "retry"
    /\ UNCHANGED <<session, cursor, skipped, holder, pc, peers, registered, chan,
                   writer, queue, sending, exiting, running>>

HookRetry ==
    /\ hook = "retry"
    /\ hook' = "idle"
    /\ \/ Free("state") /\ (HookForward("discrete") \/ HookPreempt)
       \/ /\ ~Free("state") \/ IsLocalActive(session)
          /\ UNCHANGED <<session, cursor, chan, queue>>
    /\ UNCHANGED <<skipped, holder, pc, peers, registered, writer, sending,
                   exiting, running>>

HookExit ==
    /\ hook = "idle"
    /\ TryShow
    /\ TrySend(Connected, "LeaveScreen")
    /\ exiting' = TRUE
    /\ UNCHANGED <<session, skipped, holder, pc, peers, registered, writer, queue,
                   sending, hook, running>>

\* main() leaves its select! (on the shutdown channel or on Ctrl+C), stops
\* the capture and ends the process, at once and whatever its tasks are doing:
\* all that is left is the cursor, as the operating system has it.
NoMemory ==
    [session |-> LocalActive,
     holder  |-> [m \in Mutexes |-> None],
     pc      |-> [t \in Tasks |-> IF t \in Conns THEN "unopened" ELSE "recv"],
     peers   |-> [p \in Peers |-> None],
     registered |-> [c \in Conns |-> None],
     chan    |-> [c \in Conns |-> <<>>],
     writer  |-> [c \in Conns |-> "down"],
     queue   |-> <<>>,
     sending |-> [event |-> None, target |-> None, conn |-> None],
     hook    |-> "idle",
     exiting |-> FALSE]

MainExit ==
    /\ TryShow
    /\ running' = FALSE
    /\ session' = NoMemory.session
    /\ holder' = NoMemory.holder /\ pc' = NoMemory.pc
    /\ peers' = NoMemory.peers /\ registered' = NoMemory.registered
    /\ chan' = NoMemory.chan /\ writer' = NoMemory.writer
    /\ queue' = NoMemory.queue /\ sending' = NoMemory.sending
    /\ hook' = NoMemory.hook /\ exiting' = NoMemory.exiting
    /\ UNCHANGED skipped

-----------------------------------------------------------------------------
(* The reader task of a connection.                                         *)

\* A connection is accepted or established: its channel starts with the
\* handshake, and its writer and reader tasks start.
Open(c) ==
    /\ At(c, "unopened")
    /\ Goto(c, "recv")
    /\ chan' = [chan EXCEPT ![c] = <<"Handshake">>]
    /\ writer' = [writer EXCEPT ![c] = "up"]
    /\ UNCHANGED <<session, cursor, skipped, holder, peers, registered, queue, sending,
                   hook, exiting, running>>

\* Where each packet sends the reader.  All other control messages are
\* ignored by the loop, which is a stutter.
Handler ==
    [packet \in Packets |->
        CASE packet = "Input"           -> "Input.injector"
          [] packet = "Handshake"       -> "Handshake.peers"
          [] packet = "HandshakeAck"    -> "Ack.peers"
          [] packet = "EnterScreen"     -> "Enter.injector"
          [] packet = "LeaveScreen"     -> "Return.state"
          [] packet = "PreemptTakeover" -> "Return.state"]

Receive(c, packet) ==
    /\ At(c, "recv")
    /\ Goto(c, Handler[packet])
    /\ UNCHANGED <<session, cursor, skipped, holder, peers, registered, chan, writer,
                   queue, sending, hook, exiting, running>>

\* Variant: a lost connection keeps its entry.
ReceiveErrorKeepsEntry(c) ==
    /\ At(c, "recv")
    /\ Goto(c, "dead")
    /\ UNCHANGED <<session, cursor, skipped, holder, peers, registered, chan, writer,
                   queue, sending, hook, exiting, running>>

\* recv_packet fails: end of stream, I/O, decryption or decoding error.
ReceiveError(c) ==
    /\ At(c, "recv")
    /\ Goto(c, IF registered[c] = None THEN "dead" ELSE "Gone.peers")
    /\ UNCHANGED <<session, cursor, skipped, holder, peers, registered, chan, writer,
                   queue, sending, hook, exiting, running>>

\* Waiting for the injector, to inject an Input or for EnterScreen, whose
\* handler moves and shows the cursor and then keeps the injector while it
\* waits for the state.
ReaderLockInjector(c) ==
    /\ Lock(c, "injector")
    /\ \/ /\ At(c, "Input.injector")
          /\ Goto(c, "Input.hold")
          /\ UNCHANGED cursor
       \/ /\ At(c, "Enter.injector")
          /\ Goto(c, "Enter.state")
          /\ cursor' = Shown
       \/ /\ At(c, "Return.injector")
          /\ Goto(c, "Return.hold")
          /\ cursor' = Shown
    /\ UNCHANGED <<session, skipped, peers, registered, chan, writer, queue,
                   sending, hook, exiting, running>>

\* Waiting for the state, to enter RemoteControlled with the injector held,
\* or to return to local control and then wait for the injector.
ReaderLockState(c) ==
    /\ Lock(c, "state")
    /\ \/ /\ At(c, "Enter.state")
          /\ Goto(c, "Enter.hold")
          /\ session' = enter_remote_controlled(RemotePeerLabel)
       \/ /\ At(c, "Return.state")
          /\ Goto(c, "Return.injector")
          /\ session' = return_to_local(session)
    /\ UNCHANGED <<cursor, skipped, peers, registered, chan, writer, queue, sending,
                   hook, exiting, running>>

\* Variant: only a handshake enters the connection into the map.
ReaderLockPeersHandshakeOnly(c) ==
    /\ Lock(c, "peers")
    /\ \/ /\ At(c, "Handshake.peers") \/ At(c, "Ack.peers")
          /\ Goto(c, IF At(c, "Ack.peers") THEN "Ack.hold" ELSE "Handshake.reply")
          /\ peers' = IF At(c, "Ack.peers") THEN peers ELSE [peers EXCEPT ![RemoteOf[c]] = c]
          /\ registered' = [registered EXCEPT ![c] = RemoteOf[c]]
       \/ /\ At(c, "Gone.peers")
          /\ Goto(c, "Gone.hold")
          /\ peers' = [peers EXCEPT ![registered[c]] = None]
          /\ UNCHANGED registered
    /\ UNCHANGED <<session, cursor, skipped, chan, writer, queue, sending, hook,
                   exiting, running>>

\* Waiting for the peer map: a handshake or its acknowledgement registers
\* the connection under the id it carries, replacing any other connection;
\* a lost connection removes the id, whichever connection it leads to now.
ReaderLockPeers(c) ==
    /\ Lock(c, "peers")
    /\ \/ /\ At(c, "Handshake.peers") \/ At(c, "Ack.peers")
          /\ Goto(c, IF At(c, "Ack.peers") THEN "Ack.hold" ELSE "Handshake.reply")
          /\ peers' = [peers EXCEPT ![RemoteOf[c]] = c]
          /\ registered' = [registered EXCEPT ![c] = RemoteOf[c]]
       \/ /\ At(c, "Gone.peers")
          /\ Goto(c, "Gone.hold")
          /\ peers' = [peers EXCEPT ![registered[c]] = None]
          /\ UNCHANGED registered
    /\ UNCHANGED <<session, cursor, skipped, chan, writer, queue, sending, hook,
                   exiting, running>>

\* The reply to a handshake is awaited with the peer map locked.
HandshakeReply(c) ==
    /\ At(c, "Handshake.reply")
    /\ SendEnds(c)
    /\ chan' = Offer({c}, "HandshakeAck")
    /\ Unlock({"peers"})
    /\ Goto(c, "recv")
    /\ UNCHANGED <<session, cursor, skipped, peers, registered, writer, queue, sending,
                   hook, exiting, running>>

\* Variant: the handler of LeaveScreen keeps the injector.
ReaderUnlockLeak(c) ==
    /\ \/ At(c, "Input.hold") /\ Unlock({"injector"}) /\ Goto(c, "recv")
       \/ At(c, "Ack.hold") /\ Unlock({"peers"}) /\ Goto(c, "recv")
       \/ At(c, "Enter.hold") /\ Unlock({"state", "injector"}) /\ Goto(c, "recv")
       \/ At(c, "Return.hold") /\ Unlock({"state"}) /\ Goto(c, "recv")
       \/ At(c, "Gone.hold") /\ Unlock({"peers"}) /\ Goto(c, "dead")
    /\ UNCHANGED <<session, cursor, skipped, peers, registered, chan, writer, queue,
                   sending, hook, exiting, running>>

\* The end of a handler, where its guards are dropped.
ReaderUnlock(c) ==
    /\ \/ At(c, "Input.hold") /\ Unlock({"injector"}) /\ Goto(c, "recv")
       \/ At(c, "Ack.hold") /\ Unlock({"peers"}) /\ Goto(c, "recv")
       \/ At(c, "Enter.hold") /\ Unlock({"state", "injector"}) /\ Goto(c, "recv")
       \/ At(c, "Return.hold") /\ Unlock({"state", "injector"}) /\ Goto(c, "recv")
       \/ At(c, "Gone.hold") /\ Unlock({"peers"}) /\ Goto(c, "dead")
    /\ UNCHANGED <<session, cursor, skipped, peers, registered, chan, writer, queue,
                   sending, hook, exiting, running>>

Reader(c) ==
    \/ Open(c)
    \/ \E packet \in Packets : Receive(c, packet)
    \/ ReceiveError(c)
    \/ ReaderLockInjector(c)
    \/ ReaderLockState(c)
    \/ ReaderLockPeers(c)
    \/ HandshakeReply(c)
    \/ ReaderUnlock(c)

-----------------------------------------------------------------------------
(* The writer task of a connection.                                         *)

WriterSend(c) ==
    /\ writer[c] = "up" /\ chan[c] # <<>>
    /\ chan' = [chan EXCEPT ![c] = Tail(@)]
    /\ UNCHANGED <<session, cursor, skipped, holder, pc, peers, registered, writer,
                   queue, sending, hook, exiting, running>>

\* The writer ends when a packet cannot be sent, or when nobody can give it
\* one any more; what the channel still holds is dropped with it.
WriterEnd(c) ==
    /\ writer[c] = "up"
    /\ \/ chan[c] # <<>>
       \/ At(c, "dead") /\ c \notin Connected
    /\ writer' = [writer EXCEPT ![c] = "down"]
    /\ chan' = [chan EXCEPT ![c] = <<>>]
    /\ UNCHANGED <<session, cursor, skipped, holder, pc, peers, registered, queue,
                   sending, hook, exiting, running>>

-----------------------------------------------------------------------------
(* The UDP receiver: the state is read under its lock, which is released    *)
(* before the injector is awaited.                                          *)

\* recv_delta returned a fresh delta.
UdpReceive ==
    /\ At(Udp, "recv")
    /\ Goto(Udp, "Delta.state")
    /\ UNCHANGED <<session, cursor, skipped, holder, peers, registered, chan, writer,
                   queue, sending, hook, exiting, running>>

\* Any error of recv_delta, one undecodable datagram included, ends the task.
UdpError ==
    /\ At(Udp, "recv")
    /\ Goto(Udp, "dead")
    /\ UNCHANGED <<session, cursor, skipped, holder, peers, registered, chan, writer,
                   queue, sending, hook, exiting, running>>

UdpLock ==
    /\ \/ At(Udp, "Delta.state") /\ Lock(Udp, "state") /\ Goto(Udp, "Delta.read")
       \/ At(Udp, "Delta.injector") /\ Lock(Udp, "injector") /\ Goto(Udp, "Delta.hold")
    /\ UNCHANGED <<session, cursor, skipped, peers, registered, chan, writer, queue,
                   sending, hook, exiting, running>>

\* Variant: the state stays locked while the injector is awaited.
UdpUnlockLate ==
    /\ \/ /\ At(Udp, "Delta.read") /\ IsRemoteControlled(session)
          /\ Goto(Udp, "Delta.injector")
          /\ UNCHANGED holder
       \/ /\ At(Udp, "Delta.read") /\ ~IsRemoteControlled(session)
          /\ Unlock({"state"})
          /\ Goto(Udp, "recv")
       \/ At(Udp, "Delta.hold") /\ Unlock({"state", "injector"}) /\ Goto(Udp, "recv")
    /\ UNCHANGED <<session, cursor, skipped, peers, registered, chan, writer, queue,
                   sending, hook, exiting, running>>

UdpUnlock ==
    /\ \/ /\ At(Udp, "Delta.read")
          /\ Unlock({"state"})
          /\ Goto(Udp, IF IsRemoteControlled(session) THEN "Delta.injector"
                                                      ELSE "recv")
       \/ At(Udp, "Delta.hold") /\ Unlock({"injector"}) /\ Goto(Udp, "recv")
    /\ UNCHANGED <<session, cursor, skipped, peers, registered, chan, writer, queue,
                   sending, hook, exiting, running>>

-----------------------------------------------------------------------------
(* The sender of captured events: the target is read under the state lock,  *)
(* which is released before the peer map is awaited.                        *)

SenderTake ==
    /\ At(Sender, "recv") /\ queue # <<>>
    /\ queue' = Tail(queue)
    /\ sending' = [sending EXCEPT !.event = Head(queue)]
    /\ Goto(Sender, "Send.state")
    /\ UNCHANGED <<session, cursor, skipped, holder, peers, registered, chan, writer,
                   hook, exiting, running>>

SenderLockState ==
    /\ At(Sender, "Send.state") /\ Lock(Sender, "state")
    /\ Goto(Sender, "Send.read")
    /\ UNCHANGED <<session, cursor, skipped, peers, registered, chan, writer, queue,
                   sending, hook, exiting, running>>

\* Variant: the state is unlocked on one of the two paths only.
SenderReadLeak ==
    /\ At(Sender, "Send.read")
    /\ \/ /\ IsControllingRemote(session)
          /\ Unlock({"state"})
          /\ sending' = [sending EXCEPT !.target = session.peer]
          /\ Goto(Sender, "Send.peers")
       \/ /\ ~IsControllingRemote(session)
          /\ sending' = [sending EXCEPT !.event = None]
          /\ Goto(Sender, "recv")
          /\ UNCHANGED holder
    /\ UNCHANGED <<session, cursor, skipped, peers, registered, chan, writer, queue,
                   hook, exiting, running>>

SenderRead ==
    /\ At(Sender, "Send.read")
    /\ Unlock({"state"})
    /\ \/ /\ IsControllingRemote(session)
          /\ sending' = [sending EXCEPT !.target = session.peer]
          /\ Goto(Sender, "Send.peers")
       \/ /\ ~IsControllingRemote(session)
          /\ sending' = [sending EXCEPT !.event = None]
          /\ Goto(Sender, "recv")
    /\ UNCHANGED <<session, cursor, skipped, peers, registered, chan, writer, queue,
                   hook, exiting, running>>

\* Variant: the connection is looked up, and used after the map was unlocked.
SenderLookupUnlocked ==
    /\ At(Sender, "Send.peers") /\ Free("peers")
    /\ \E c \in IF Lookup(sending.target) # None THEN {Lookup(sending.target)}
                ELSE IF Connected # {} THEN Connected
                ELSE {None} :
          sending' = [sending EXCEPT !.conn = c]
    /\ Goto(Sender, "Send.send")
    /\ UNCHANGED <<session, cursor, skipped, holder, peers, registered, chan, writer,
                   queue, hook, exiting, running>>

\* The target's connection, or the first of the map if the target has none.
SenderLockPeers ==
    /\ At(Sender, "Send.peers") /\ Lock(Sender, "peers")
    /\ \E c \in IF Lookup(sending.target) # None THEN {Lookup(sending.target)}
                ELSE IF Connected # {} THEN Connected
                ELSE {None} :
          sending' = [sending EXCEPT !.conn = c]
    /\ Goto(Sender, "Send.send")
    /\ UNCHANGED <<session, cursor, skipped, peers, registered, chan, writer, queue,
                   hook, exiting, running>>

\* A mouse move leaves by UDP at once; any other event awaits room in the
\* connection's channel, with the peer map locked.
SenderSend ==
    /\ At(Sender, "Send.send")
    /\ \/ /\ sending.conn # None /\ sending.event = "discrete"
          /\ SendEnds(sending.conn)
          /\ chan' = Offer({sending.conn}, "Input")
       \/ /\ sending.conn = None \/ sending.event = "move"
          /\ UNCHANGED chan
    /\ Unlock({"peers"})
    /\ Goto(Sender, "recv")
    /\ sending' = [event |-> None, target |-> None, conn |-> None]
    /\ UNCHANGED <<session, cursor, skipped, peers, registered, writer, queue, hook,
                   exiting, running>>

-----------------------------------------------------------------------------
Init ==
    /\ session = NoMemory.session
    /\ cursor = 0 /\ skipped = 0
    /\ holder = NoMemory.holder /\ pc = NoMemory.pc
    /\ peers = NoMemory.peers /\ registered = NoMemory.registered
    /\ chan = NoMemory.chan /\ writer = NoMemory.writer
    /\ queue = NoMemory.queue /\ sending = NoMemory.sending
    /\ hook = NoMemory.hook /\ exiting = NoMemory.exiting
    /\ running = TRUE

Hook ==
    \/ \E event \in Events : HookInput(event)
    \/ HookBreakout
    \/ HookBreakoutBusy
    \/ HookRetry
    \/ HookExit

UdpTask == UdpReceive \/ UdpError \/ UdpLock \/ UdpUnlock
SenderTask ==
    SenderTake \/ SenderLockState \/ SenderRead \/ SenderLockPeers \/ SenderSend

Next ==
    /\ running
    /\ \/ Hook
       \/ MainExit
       \/ \E c \in Conns : Reader(c) \/ WriterSend(c) \/ WriterEnd(c)
       \/ UdpTask
       \/ SenderTask

Spec == Init /\ [][Next]_vars

\* Fairness.  Each task keeps running: the executor polls it, its mutexes and
\* its channels serve those who wait in order, so that a step which is enabled
\* again and again is taken; and a connection accepts packets or fails.
\* Nothing is assumed of the user, of the far ends, or of what arrives.
ReaderStep(c) ==
    \/ ReaderLockInjector(c)
    \/ ReaderLockState(c)
    \/ ReaderLockPeers(c)
    \/ HandshakeReply(c)
    \/ ReaderUnlock(c)

Fairness ==
    /\ \A c \in Conns : /\ SF_vars(running /\ ReaderStep(c))
                         /\ WF_vars(running /\ (WriterSend(c) \/ WriterEnd(c)))
    /\ SF_vars(running /\ (UdpLock \/ UdpUnlock))
    /\ SF_vars(running /\ SenderTask)

FairSpec == Spec /\ Fairness

-----------------------------------------------------------------------------
(* Properties.                                                              *)

\* Every variable has its type.
TypeOK ==
    /\ session \in SessionStates(Neighbors, {RemotePeerLabel})
    /\ cursor \in Int /\ skipped \in Nat
    /\ holder \in [Mutexes -> Tasks \cup {None}]
    /\ pc \in [Tasks -> ReaderPoints \cup UdpPoints \cup SenderPoints]
    /\ \A c \in Conns : pc[c] \in ReaderPoints
    /\ pc[Udp] \in UdpPoints /\ pc[Sender] \in SenderPoints
    /\ peers \in [Peers -> Conns \cup {None}]
    /\ registered \in [Conns -> Peers \cup {None}]
    /\ chan \in [Conns -> Seq(Packets)]
    /\ \A c \in Conns : Len(chan[c]) <= ChanCap
    /\ writer \in [Conns -> {"up", "down"}]
    /\ queue \in Seq(Events) /\ Len(queue) <= EventCap
    /\ sending \in [event : Events \cup {None}, target : Neighbors \cup {None},
                    conn : Conns \cup {None}]
    /\ hook \in {"idle", "retry"}
    /\ exiting \in BOOLEAN /\ running \in BOOLEAN

\* A mutex is held exactly by the task that is between its lock and the end
\* of the guard's scope: no handler leaves one behind, none runs unlocked.  Rust
\* sees to that; here it says that the tables of points are those of the code.
LockInv ==
    \A m \in Mutexes, t \in Tasks : holder[m] = t <=> pc[t] \in HoldPoints[m]

\* t waits for no mutex, or for one that is free.
Advances(t) == \A m \in Mutexes : pc[t] \in WaitPoints[m] => Free(m)

\* t waits for a mutex that u holds.
BlockedBy(t, u) == \E m \in Mutexes : pc[t] \in WaitPoints[m] /\ holder[m] = u

\* The reader of an EnterScreen holds the injector and waits for the state;
\* the reader of a LeaveScreen or a PreemptTakeover, on another connection,
\* holds the state and waits for the injector.
EnterReturnCycle(t, u) == At(t, "Enter.state") /\ At(u, "Return.injector")

\* The three mutexes are taken in an order that lets their holders go on, or
\* at worst wait for a holder that can; the only exception is the opposite
\* order in which EnterScreen and LeaveScreen lock the state and the injector.
DeadlockShape ==
    \A m \in Mutexes : holder[m] # None =>
        \/ Advances(holder[m])
        \/ \E u \in Tasks : BlockedBy(holder[m], u) /\ Advances(u)
        \/ \E t, u \in Conns : t # u /\ EnterReturnCycle(t, u)

\* With one connection that exception never happens, as it needs a second
\* reader.  (One peer is enough for two of them, if both ends are started with
\* --connect-peer.)
HoldersAdvance ==
    \A m \in Mutexes : holder[m] # None =>
        \/ Advances(holder[m])
        \/ \E u \in Tasks : BlockedBy(holder[m], u) /\ Advances(u)

\* active_peers leads to live connections only: an entry's reader is running,
\* knows under which id it is registered, and the far end has that id.
EntriesAlive ==
    \A p \in Peers : peers[p] # None =>
        /\ registered[peers[p]] = p
        /\ RemoteOf[peers[p]] = p
        /\ pc[peers[p]] \notin {"unopened", "Gone.hold", "dead"}

\* The connection the sender task chose is still in active_peers when the
\* captured event is put into its channel.
ChosenStillConnected ==
    At(Sender, "Send.send") /\ sending.conn # None => sending.conn \in Connected

\* A registered connection that is not lost can be missing from active_peers,
\* with or without another one in its place, only once another connection to
\* the same peer has been lost: both had announced one id.
MissingEntryExplained ==
    \A c \in Conns :
        registered[c] # None /\ pc[c] \notin {"Gone.hold", "dead"}
            => \/ peers[registered[c]] # None
               \/ \E d \in Conns \ {c} : /\ registered[d] = registered[c]
                                         /\ pc[d] \in {"Gone.hold", "dead"}

\* Hides and shows match.  The cursor is hidden once while this machine controls
\* another one, and until the reader that ended the control has the injector;
\* beyond that only as often as a breakout found the injector locked.  So while
\* another machine controls this one the cursor it moves is visible, unless a
\* breakout left it hidden: one show then takes back one of two hides.
HidesAreUndone ==
    running => cursor <= skipped + IF \/ IsControllingRemote(session)
                                      \/ \E c \in Conns : At(c, "Return.injector")
                                   THEN 1 ELSE 0

\* A task that took a packet or an event to handle gets to the end of its
\* handler, unless the process exits first.
IdlePoints == {"unopened", "recv", "dead"}
HandlersFinish ==
    \A t \in Tasks : pc[t] \notin IdlePoints ~> (pc[t] \in IdlePoints \/ ~running)

\* Two readers never wait for each other: they are independent tasks.
IndependentReaders == \A t, u \in Conns : ~EnterReturnCycle(t, u)

\* The breakout returns control at any time: once the hook is done with the
\* key press that asked for it, the machine is in local control.
BreakoutReturns ==
    [][hook = "retry" /\ hook' = "idle" => IsLocalActive(session')]_vars

\* A machine that takes control back from its controller tells it so, at least
\* when nothing is in the way: the peer map is free and no channel is full.
PreemptNotifies ==
    [][HookPreempt /\ running' /\ Free("peers") /\ Connected # {}
                   /\ (\A c \in Connected : Room(c))
       => \E c \in Connected : chan'[c] = Append(chan[c], "PreemptTakeover")]_vars
=============================================================================
