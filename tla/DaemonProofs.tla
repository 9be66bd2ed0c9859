---------------------------- MODULE DaemonProofs ----------------------------
(***************************************************************************)
(* What the lock discipline of Daemon guarantees for any number of peers   *)
(* and connections and any channel capacities.                             *)
(***************************************************************************)
EXTENDS Daemon, TLAPS

\* Which packets a full, a dead or a live channel holds after an offer.
LEMMA OfferType ==
    ASSUME DaemonAssumption, TypeOK, NEW cs, NEW packet \in Packets
    PROVE  /\ Offer(cs, packet) \in [Conns -> Seq(Packets)]
           /\ \A c \in Conns : Len(Offer(cs, packet)[c]) <= ChanCap
<1>1. \A c \in Conns : chan[c] \in Seq(Packets) /\ Len(chan[c]) <= ChanCap
  BY DEF TypeOK
<1>2. \A c \in Conns : Room(c) =>
          /\ Append(chan[c], packet) \in Seq(Packets)
          /\ Len(Append(chan[c], packet)) <= ChanCap
  BY <1>1 DEF Room, DaemonAssumption
<1> QED
  BY <1>1, <1>2 DEF Offer

\* The connections in the peer map are connections.
LEMMA LookupType ==
    ASSUME TypeOK, NEW id
    PROVE  Lookup(id) \in Conns \cup {None} /\ Connected \subseteq Conns
BY DEF TypeOK, Lookup, Connected

\* The parts of TypeOK about the mutexes and the program points, and how each
\* kind of step keeps them.
HolderType == holder \in [Mutexes -> Tasks \cup {None}]
PointType ==
    /\ pc \in [Tasks -> ReaderPoints \cup UdpPoints \cup SenderPoints]
    /\ \A c \in Conns : pc[c] \in ReaderPoints
    /\ pc[Udp] \in UdpPoints /\ pc[Sender] \in SenderPoints

LEMMA LockType ==
    ASSUME HolderType, NEW t \in Tasks, NEW m \in Mutexes, Lock(t, m)
    PROVE  HolderType'
BY DEF HolderType, Lock

LEMMA UnlockType ==
    ASSUME HolderType, NEW ms, Unlock(ms)
    PROVE  HolderType'
BY DEF HolderType, Unlock

LEMMA ReaderGoto ==
    ASSUME DaemonAssumption, PointType, NEW c \in Conns,
           NEW point \in ReaderPoints, Goto(c, point)
    PROVE  PointType'
BY DEF DaemonAssumption, PointType, Goto, Tasks

LEMMA UdpGoto ==
    ASSUME DaemonAssumption, PointType, NEW point \in UdpPoints, Goto(Udp, point)
    PROVE  PointType'
<1>1. Udp # Sender
  BY DEF Udp, Sender
<1> QED
  BY <1>1 DEF DaemonAssumption, PointType, Goto, Tasks

LEMMA SenderGoto ==
    ASSUME DaemonAssumption, PointType, NEW point \in SenderPoints, Goto(Sender, point)
    PROVE  PointType'
<1>1. Udp # Sender
  BY DEF Udp, Sender
<1> QED
  BY <1>1 DEF DaemonAssumption, PointType, Goto, Tasks

\* A process without memory has the right types, whatever its cursor.
LEMMA NoMemoryType ==
    ASSUME DaemonAssumption
    PROVE  /\ NoMemory.session \in SessionStates(Neighbors, {RemotePeerLabel})
           /\ NoMemory.holder \in [Mutexes -> Tasks \cup {None}]
           /\ NoMemory.pc \in [Tasks -> ReaderPoints \cup UdpPoints \cup SenderPoints]
           /\ \A c \in Conns : NoMemory.pc[c] \in ReaderPoints
           /\ NoMemory.pc[Udp] \in UdpPoints /\ NoMemory.pc[Sender] \in SenderPoints
           /\ NoMemory.peers \in [Peers -> Conns \cup {None}]
           /\ NoMemory.registered \in [Conns -> Peers \cup {None}]
           /\ NoMemory.chan \in [Conns -> Seq(Packets)]
           /\ \A c \in Conns : Len(NoMemory.chan[c]) <= ChanCap
           /\ NoMemory.writer \in [Conns -> {"up", "down"}]
           /\ NoMemory.queue \in Seq(Events) /\ Len(NoMemory.queue) <= EventCap
           /\ NoMemory.sending \in [event : Events \cup {None},
                                    target : Neighbors \cup {None},
                                    conn : Conns \cup {None}]
           /\ NoMemory.hook \in {"idle", "retry"} /\ NoMemory.exiting \in BOOLEAN
BY DEF NoMemory, SessionStates, Tasks, ReaderPoints, UdpPoints, SenderPoints,
       DaemonAssumption

\* The type invariant is inductive.
THEOREM TypeCorrect == Spec => []TypeOK
<1>1. Init => TypeOK
  BY DaemonAssumption, LookupType
  DEF Init, NoMemory, TypeOK, SessionStates, LocalActive, Tasks, Udp, Sender,
      ReaderPoints, UdpPoints, SenderPoints, DaemonAssumption, Mutexes
<1>2. TypeOK /\ [Next]_vars => TypeOK'
  <2> SUFFICES ASSUME TypeOK, [Next]_vars PROVE TypeOK'
    OBVIOUS
  <2> USE DaemonAssumption
  <2>a. Shown \in Int /\ cursor + 1 \in Int /\ skipped + 1 \in Nat
    BY DEF Shown, TypeOK
  <2>1. CASE \E event \in Events : HookInput(event)
    <3>1. PICK event \in Events : HookInput(event)
      BY <2>1
    <3>2. CASE HookForward(event)
      BY <3>1, <3>2 DEF HookInput, HookForward, TypeOK, DaemonAssumption
    <3>3. CASE HookPreempt
      BY <2>a, <3>1, <3>3, OfferType
      DEF HookInput, HookPreempt, TypeOK, TryShow, TrySend, Packets,
          handle_physical_input_detected, SessionStates
    <3>4. ASSUME NEW target \in Neighbors, HookJump(target) PROVE TypeOK'
      <4>1. session' \in SessionStates(Neighbors, {RemotePeerLabel})
        BY <3>4 DEF HookJump, start_controlling_remote, SessionStates
      <4>2. chan' \in [Conns -> Seq(Packets)] /\ \A c \in Conns : Len(chan'[c]) <= ChanCap
        BY <3>4, OfferType DEF HookJump, TrySend, TypeOK, Packets
      <4> QED
        BY <2>a, <3>1, <3>4, <4>1, <4>2 DEF HookInput, HookJump, TypeOK, TryHide
    <3> QED
      BY <3>1, <3>2, <3>3, <3>4 DEF HookInput
  <2>2. CASE HookBreakout
    BY <2>a, <2>2, OfferType
    DEF HookBreakout, TypeOK, TryShow, TrySend, Packets, return_to_local, SessionStates
  <2>3. CASE HookBreakoutBusy
    BY <2>3 DEF HookBreakoutBusy, TypeOK
  <2>4. CASE HookRetry
    <3>1. CASE HookForward("discrete")
      BY <2>4, <3>1 DEF HookRetry, HookForward, Events, TypeOK, DaemonAssumption
    <3>2. CASE HookPreempt
      BY <2>a, <2>4, <3>2, OfferType
      DEF HookRetry, HookPreempt, TypeOK, TryShow, TrySend, Packets,
          handle_physical_input_detected, SessionStates
    <3>3. CASE UNCHANGED <<session, cursor, chan, queue>>
      BY <2>4, <3>3 DEF HookRetry, TypeOK
    <3> QED
      BY <2>4, <3>1, <3>2, <3>3 DEF HookRetry
  <2>5. CASE HookExit
    BY <2>a, <2>5, OfferType DEF HookExit, TypeOK, TryShow, TrySend, Packets
  <2>6. CASE MainExit
    BY <2>a, <2>6, NoMemoryType DEF MainExit, TryShow, TypeOK
  <2>7. ASSUME NEW c \in Conns, Open(c) PROVE TypeOK'
    BY <2>7 DEF Open, TypeOK, Goto, Tasks, ReaderPoints, Packets, DaemonAssumption
  <2>8. ASSUME NEW c \in Conns, NEW packet \in Packets, Receive(c, packet)
        PROVE  TypeOK'
    BY <2>8 DEF Receive, Handler, TypeOK, Goto, Tasks, ReaderPoints, Packets, DaemonAssumption
  <2>9. ASSUME NEW c \in Conns, ReceiveError(c) PROVE TypeOK'
    BY <2>9 DEF ReceiveError, TypeOK, Goto, Tasks, ReaderPoints, DaemonAssumption
  <2>10. ASSUME NEW c \in Conns, ReaderLockInjector(c) PROVE TypeOK'
    <3>1. HolderType'
      BY <2>10, LockType DEF ReaderLockInjector, HolderType, TypeOK, Tasks, Mutexes
    <3>2. PointType'
      BY <2>10, ReaderGoto DEF ReaderLockInjector, PointType, TypeOK, ReaderPoints
    <3> QED
      BY <2>a, <2>10, <3>1, <3>2 DEF ReaderLockInjector, TypeOK, HolderType, PointType
  <2>11. ASSUME NEW c \in Conns, ReaderLockState(c) PROVE TypeOK'
    <3>1. HolderType'
      BY <2>11, LockType DEF ReaderLockState, HolderType, TypeOK, Tasks, Mutexes
    <3>2. PointType'
      BY <2>11, ReaderGoto DEF ReaderLockState, PointType, TypeOK, ReaderPoints
    <3> QED
      BY <2>11, <3>1, <3>2
      DEF ReaderLockState, TypeOK, HolderType, PointType, SessionStates,
          enter_remote_controlled, return_to_local
  <2>12. ASSUME NEW c \in Conns, ReaderLockPeers(c) PROVE TypeOK'
    <3>1. HolderType'
      BY <2>12, LockType DEF ReaderLockPeers, HolderType, TypeOK, Tasks, Mutexes
    <3>2. PointType'
      BY <2>12, ReaderGoto DEF ReaderLockPeers, PointType, TypeOK, ReaderPoints
    <3>3. peers' \in [Peers -> Conns \cup {None}]
      BY <2>12 DEF ReaderLockPeers, TypeOK
    <3>4. registered' \in [Conns -> Peers \cup {None}]
      <4>1. RemoteOf[c] \in Peers
        BY DEF DaemonAssumption
      <4> QED
        BY <2>12, <4>1 DEF ReaderLockPeers, TypeOK
    <3> QED
      BY <2>12, <3>1, <3>2, <3>3, <3>4 DEF ReaderLockPeers, TypeOK, HolderType, PointType
  <2>13. ASSUME NEW c \in Conns, HandshakeReply(c) PROVE TypeOK'
    BY <2>13, OfferType
    DEF HandshakeReply, TypeOK, Unlock, Goto, Tasks, ReaderPoints, Packets, DaemonAssumption
  <2>14. ASSUME NEW c \in Conns, ReaderUnlock(c) PROVE TypeOK'
    <3>1. HolderType'
      BY <2>14, UnlockType DEF ReaderUnlock, HolderType, TypeOK
    <3>2. PointType'
      BY <2>14, ReaderGoto DEF ReaderUnlock, PointType, TypeOK, ReaderPoints
    <3> QED
      BY <2>14, <3>1, <3>2 DEF ReaderUnlock, TypeOK, HolderType, PointType
  <2>15. ASSUME NEW c \in Conns, WriterSend(c) PROVE TypeOK'
    BY <2>15 DEF WriterSend, TypeOK, DaemonAssumption
  <2>16. ASSUME NEW c \in Conns, WriterEnd(c) PROVE TypeOK'
    BY <2>16 DEF WriterEnd, TypeOK, DaemonAssumption
  <2>17. CASE UdpTask
    <3>1. HolderType'
      BY <2>17, LockType, UnlockType
      DEF UdpTask, UdpReceive, UdpError, UdpLock, UdpUnlock, HolderType, TypeOK,
          Tasks, Mutexes
    <3>2. PointType'
      BY <2>17, UdpGoto
      DEF UdpTask, UdpReceive, UdpError, UdpLock, UdpUnlock, PointType, TypeOK, UdpPoints
    <3> QED
      BY <2>17, <3>1, <3>2
      DEF UdpTask, UdpReceive, UdpError, UdpLock, UdpUnlock, TypeOK, HolderType, PointType
  <2>18. CASE SenderTake
    <3>1. PointType'
      BY <2>18, SenderGoto DEF SenderTake, PointType, TypeOK, SenderPoints
    <3>2. /\ Head(queue) \in Events /\ Tail(queue) \in Seq(Events)
          /\ Len(Tail(queue)) <= EventCap
      BY <2>18 DEF SenderTake, TypeOK
    <3> QED
      BY <2>18, <3>1, <3>2 DEF SenderTake, TypeOK, PointType
  <2>19. CASE SenderLockState
    <3>1. HolderType'
      BY <2>19, LockType DEF SenderLockState, HolderType, TypeOK, Tasks, Mutexes
    <3>2. PointType'
      BY <2>19, SenderGoto DEF SenderLockState, PointType, TypeOK, SenderPoints
    <3> QED
      BY <2>19, <3>1, <3>2 DEF SenderLockState, TypeOK, HolderType, PointType
  <2>20. CASE SenderRead
    <3>1. HolderType'
      BY <2>20, UnlockType DEF SenderRead, HolderType, TypeOK
    <3>2. PointType'
      BY <2>20, SenderGoto DEF SenderRead, PointType, TypeOK, SenderPoints
    <3>3. IsControllingRemote(session) => session.peer \in Neighbors
      BY DEF TypeOK, SessionStates, IsControllingRemote, ControllingRemote,
             LocalActive, RemoteControlled
    <3>4. sending' \in [event : Events \cup {None}, target : Neighbors \cup {None},
                        conn : Conns \cup {None}]
      BY <2>20, <3>3 DEF SenderRead, TypeOK
    <3> QED
      BY <2>20, <3>1, <3>2, <3>4 DEF SenderRead, TypeOK, HolderType, PointType
  <2>21. CASE SenderLockPeers
    <3>1. HolderType'
      BY <2>21, LockType DEF SenderLockPeers, HolderType, TypeOK, Tasks, Mutexes
    <3>2. PointType'
      BY <2>21, SenderGoto DEF SenderLockPeers, PointType, TypeOK, SenderPoints
    <3>3. sending' \in [event : Events \cup {None}, target : Neighbors \cup {None},
                        conn : Conns \cup {None}]
      <4>1. PICK c : sending' = [sending EXCEPT !.conn = c] /\ c \in Conns \cup {None}
        BY <2>21, LookupType DEF SenderLockPeers
      <4> QED
        BY <4>1 DEF TypeOK
    <3> QED
      BY <2>21, <3>1, <3>2, <3>3 DEF SenderLockPeers, TypeOK, HolderType, PointType
  <2>22. CASE SenderSend
    <3>1. HolderType'
      BY <2>22, UnlockType DEF SenderSend, HolderType, TypeOK
    <3>2. PointType'
      BY <2>22, SenderGoto DEF SenderSend, PointType, TypeOK, SenderPoints
    <3>3. chan' \in [Conns -> Seq(Packets)] /\ \A c \in Conns : Len(chan'[c]) <= ChanCap
      <4>1. chan' = chan \/ chan' = Offer({sending.conn}, "Input")
        BY <2>22 DEF SenderSend
      <4>2. "Input" \in Packets
        BY DEF Packets
      <4> QED
        BY <4>1, <4>2, OfferType DEF TypeOK
    <3> QED
      BY <2>22, <3>1, <3>2, <3>3 DEF SenderSend, TypeOK, HolderType, PointType
  <2>23. CASE UNCHANGED vars
    BY <2>23 DEF vars, TypeOK
  <2> QED
    BY <2>1, <2>2, <2>3, <2>4, <2>5, <2>6, <2>7, <2>8, <2>9, <2>10, <2>11,
       <2>12, <2>13, <2>14, <2>15, <2>16, <2>17, <2>18, <2>19, <2>20, <2>21,
       <2>22, <2>23
    DEF Next, Hook, Reader, SenderTask
<1> QED
  BY <1>1, <1>2, PTL DEF Spec
-----------------------------------------------------------------------------
(* Lock ownership.                                                          *)

\* Where each mutex is held, spelled out.
LEMMA HoldPointsAre ==
    /\ HoldPoints["state"] = {"Delta.read", "Send.read", "Enter.hold",
                              "Return.injector", "Return.hold"}
    /\ HoldPoints["injector"] = {"Input.hold", "Delta.hold", "Enter.state",
                                 "Enter.hold", "Return.hold"}
    /\ HoldPoints["peers"] = {"Handshake.reply", "Ack.hold", "Gone.hold", "Send.send"}
BY DEF HoldPoints, Mutexes

\* A task that moves keeps the ownership invariant if, for every mutex, it
\* locks a free one on its way in, unlocks its own on its way out, or does
\* neither and stays on the same side.
LEMMA TaskMoves ==
    ASSUME DaemonAssumption, PointType, LockInv, NEW t \in Tasks, NEW point,
           Goto(t, point),
           \A m \in Mutexes :
              \/ /\ holder[m] = None /\ holder'[m] = t
                 /\ point \in HoldPoints[m]
              \/ /\ holder'[m] = None
                 /\ pc[t] \in HoldPoints[m] /\ point \notin HoldPoints[m]
              \/ /\ holder'[m] = holder[m]
                 /\ pc[t] \in HoldPoints[m] <=> point \in HoldPoints[m]
    PROVE  LockInv'
<1> SUFFICES ASSUME NEW m \in Mutexes, NEW u \in Tasks
             PROVE  holder'[m] = u <=> pc'[u] \in HoldPoints[m]
  BY DEF LockInv
<1>1. /\ None \notin Tasks
      /\ pc' = [pc EXCEPT ![t] = point] /\ pc'[t] = point
      /\ u # t => pc'[u] = pc[u]
  BY DEF DaemonAssumption, PointType, Goto
<1>2. /\ holder[m] = u <=> pc[u] \in HoldPoints[m]
      /\ holder[m] = t <=> pc[t] \in HoldPoints[m]
  BY DEF LockInv
<1> QED
  BY <1>1, <1>2

\* Every action keeps the ownership invariant.
LEMMA LockStep == TypeOK /\ LockInv /\ [Next]_vars => LockInv'
<1> SUFFICES ASSUME TypeOK, LockInv, [Next]_vars PROVE LockInv'
  OBVIOUS
<1> USE DaemonAssumption, HoldPointsAre
<1>a. PointType /\ HolderType
  BY DEF TypeOK, PointType, HolderType
<1>b. Udp \in Tasks /\ Sender \in Tasks /\ \A c \in Conns : c \in Tasks
  BY DEF Tasks
<1>1. CASE UNCHANGED <<holder, pc>>
  BY <1>1 DEF LockInv
<1>2. CASE MainExit
  <2>1. \A t \in Tasks : pc'[t] \in {"unopened", "recv"}
    BY <1>2 DEF MainExit, NoMemory
  <2>2. \A m \in Mutexes : holder'[m] = None
    BY <1>2 DEF MainExit, NoMemory
  <2> QED
    BY <2>1, <2>2 DEF LockInv, Mutexes, DaemonAssumption
<1>3. ASSUME NEW c \in Conns, Open(c) PROVE LockInv'
  BY <1>3, <1>a, <1>b, TaskMoves DEF Open, At, Mutexes
<1>4. ASSUME NEW c \in Conns, NEW packet \in Packets, Receive(c, packet)
      PROVE  LockInv'
  <2>1. Handler[packet] \in {"Input.injector", "Handshake.peers", "Ack.peers",
                             "Enter.injector", "Return.state"}
    BY DEF Handler, Packets
  <2> QED
    BY <1>4, <1>a, <1>b, <2>1, TaskMoves DEF Receive, At, Mutexes
<1>5. ASSUME NEW c \in Conns, ReceiveError(c) PROVE LockInv'
  BY <1>5, <1>a, <1>b, TaskMoves DEF ReceiveError, At, Mutexes
<1>6. ASSUME NEW c \in Conns, ReaderLockInjector(c) PROVE LockInv'
  BY <1>6, <1>a, <1>b, TaskMoves
  DEF ReaderLockInjector, At, Lock, Free, Mutexes, HolderType
<1>7. ASSUME NEW c \in Conns, ReaderLockState(c) PROVE LockInv'
  BY <1>7, <1>a, <1>b, TaskMoves
  DEF ReaderLockState, At, Lock, Free, Mutexes, HolderType
<1>8. ASSUME NEW c \in Conns, ReaderLockPeers(c) PROVE LockInv'
  BY <1>8, <1>a, <1>b, TaskMoves
  DEF ReaderLockPeers, At, Lock, Free, Mutexes, HolderType
<1>9. ASSUME NEW c \in Conns, HandshakeReply(c) PROVE LockInv'
  BY <1>9, <1>a, <1>b, TaskMoves DEF HandshakeReply, At, Unlock, Mutexes, HolderType
<1>10. ASSUME NEW c \in Conns, ReaderUnlock(c) PROVE LockInv'
  BY <1>10, <1>a, <1>b, TaskMoves DEF ReaderUnlock, At, Unlock, Mutexes, HolderType
<1>11. CASE UdpTask
  BY <1>11, <1>a, <1>b, TaskMoves
  DEF UdpTask, UdpReceive, UdpError, UdpLock, UdpUnlock, At, Lock, Free, Unlock,
      Mutexes, HolderType
<1>12. CASE SenderTask
  BY <1>12, <1>a, <1>b, TaskMoves
  DEF SenderTask, SenderTake, SenderLockState, SenderRead, SenderLockPeers,
      SenderSend, At, Lock, Free, Unlock, Mutexes, HolderType
<1>13. CASE Hook
  BY <1>13, <1>1
  DEF Hook, HookInput, HookBreakout, HookBreakoutBusy, HookRetry, HookExit
<1>14. ASSUME NEW c \in Conns, WriterSend(c) \/ WriterEnd(c) PROVE LockInv'
  BY <1>14, <1>1 DEF WriterSend, WriterEnd
<1> QED
  BY <1>1, <1>2, <1>3, <1>4, <1>5, <1>6, <1>7, <1>8, <1>9, <1>10, <1>11,
     <1>12, <1>13, <1>14
  DEF Next, Reader, vars

\* A mutex is held exactly by the task inside its guard's scope.
THEOREM LockOwnership == Spec => []LockInv
<1>1. Init => LockInv
  BY DaemonAssumption, HoldPointsAre
  DEF Init, NoMemory, LockInv, Mutexes, DaemonAssumption
<1> QED
  BY <1>1, LockStep, TypeCorrect, PTL DEF Spec
-----------------------------------------------------------------------------
(* Deadlock.                                                                *)

\* Where each mutex is awaited, spelled out.
LEMMA WaitPointsAre ==
    /\ WaitPoints["state"] = {"Delta.state", "Send.state", "Enter.state", "Return.state"}
    /\ WaitPoints["injector"] = {"Input.injector", "Delta.injector",
                                 "Enter.injector", "Return.injector"}
    /\ WaitPoints["peers"] = {"Handshake.peers", "Ack.peers", "Gone.peers", "Send.peers"}
BY DEF WaitPoints, Mutexes

\* Only a reader of EnterScreen or of LeaveScreen and PreemptTakeover waits
\* for a mutex while it holds another.
LEMMA WaitingHolders ==
    ASSUME DaemonAssumption, TypeOK, LockInv, NEW m \in Mutexes, holder[m] # None,
           ~Advances(holder[m])
    PROVE  /\ holder[m] \in Conns
           /\ \/ /\ m = "injector" /\ At(holder[m], "Enter.state")
                 /\ ~Free("state") /\ BlockedBy(holder[m], holder["state"])
              \/ /\ m = "state" /\ At(holder[m], "Return.injector")
                 /\ ~Free("injector") /\ BlockedBy(holder[m], holder["injector"])
<1> USE HoldPointsAre, WaitPointsAre
<1> DEFINE t == holder[m]
<1>1. t \in Tasks /\ pc[t] \in HoldPoints[m]
  BY DEF TypeOK, LockInv
<1>2. PICK n \in Mutexes : pc[t] \in WaitPoints[n] /\ ~Free(n)
  BY DEF Advances
<1>3. \/ m = "injector" /\ n = "state" /\ pc[t] = "Enter.state"
      \/ m = "state" /\ n = "injector" /\ pc[t] = "Return.injector"
  BY <1>1, <1>2 DEF Mutexes
<1>4. t \in Conns
  BY <1>1, <1>3 DEF TypeOK, Tasks, UdpPoints, SenderPoints
<1> QED
  BY <1>2, <1>3, <1>4 DEF At, BlockedBy

\* The shape of every deadlock follows from the ownership of the mutexes.
LEMMA DeadlockShapeHolds ==
    ASSUME DaemonAssumption, TypeOK, LockInv
    PROVE  DeadlockShape
<1> SUFFICES ASSUME NEW m \in Mutexes, holder[m] # None, ~Advances(holder[m]),
                    \A u \in Tasks : BlockedBy(holder[m], u) => ~Advances(u)
             PROVE  \E t, u \in Conns : t # u /\ EnterReturnCycle(t, u)
  BY DEF DeadlockShape
<1>1. "state" \in Mutexes /\ "injector" \in Mutexes
  BY DEF Mutexes
<1>2. \A n \in Mutexes : holder[n] # None => holder[n] \in Tasks
  BY DEF TypeOK
<1>3. CASE m = "injector"
  <2>1. /\ holder[m] \in Conns /\ At(holder[m], "Enter.state")
        /\ holder["state"] # None /\ ~Advances(holder["state"])
    BY <1>1, <1>2, <1>3, WaitingHolders DEF Free
  <2>2. holder["state"] \in Conns /\ At(holder["state"], "Return.injector")
    BY <1>1, <2>1, WaitingHolders
  <2> QED
    BY <2>1, <2>2 DEF EnterReturnCycle, At
<1>4. CASE m = "state"
  <2>1. /\ holder[m] \in Conns /\ At(holder[m], "Return.injector")
        /\ holder["injector"] # None /\ ~Advances(holder["injector"])
    BY <1>1, <1>2, <1>4, WaitingHolders DEF Free
  <2>2. holder["injector"] \in Conns /\ At(holder["injector"], "Enter.state")
    BY <1>1, <2>1, WaitingHolders
  <2> QED
    BY <2>1, <2>2 DEF EnterReturnCycle, At
<1> QED
  BY <1>3, <1>4, WaitingHolders

\* Whatever the peers and the capacities, the holder of a mutex can go on, or
\* waits for one that can, or two readers are in the cycle of EnterScreen and
\* LeaveScreen (main.rs takes the two locks in opposite orders there).
THEOREM DeadlocksAreEnterReturn == Spec => []DeadlockShape
<1>1. TypeOK /\ LockInv => DeadlockShape
  BY DeadlockShapeHolds, DaemonAssumption
<1> QED
  BY <1>1, TypeCorrect, LockOwnership, PTL

\* With a single connection no two tasks ever wait for each other.
THEOREM OneConnectionNeverDeadlocks ==
    ASSUME \A c, d \in Conns : c = d
    PROVE  Spec => []HoldersAdvance
<1>1. TypeOK /\ LockInv => HoldersAdvance
  BY DeadlockShapeHolds, DaemonAssumption DEF DeadlockShape, HoldersAdvance
<1> QED
  BY <1>1, TypeCorrect, LockOwnership, PTL

-----------------------------------------------------------------------------
(* The cursor.                                                              *)

\* Inductive form: a reader on its way to RemoteControlled has taken back the
\* hide of the control that it ends, and one that waits for the injector to
\* show the cursor keeps the state LocalActive.
CursorInv ==
    /\ HidesAreUndone
    /\ \A c \in Conns : At(c, "Enter.state") => cursor <= skipped
    /\ \A c \in Conns : At(c, "Return.injector") => session = LocalActive

\* While a reader is on its way to RemoteControlled no one else has the injector,
\* and while one waits to show the cursor no one else has the state.
LEMMA LockedOut ==
    ASSUME DaemonAssumption, LockInv, NEW c \in Conns
    PROVE  /\ At(c, "Enter.state") => ~Free("injector")
           /\ At(c, "Return.injector") => ~Free("state")
<1>1. c \in Tasks /\ c # None
  BY DEF Tasks, DaemonAssumption
<1>2. At(c, "Enter.state") => holder["injector"] = c
  BY <1>1, HoldPointsAre DEF At, LockInv, Mutexes
<1>3. At(c, "Return.injector") => holder["state"] = c
  BY <1>1, HoldPointsAre DEF At, LockInv, Mutexes
<1> QED
  BY <1>1, <1>2, <1>3 DEF Free

\* The three sessions differ.
LEMMA SessionsDiffer ==
    /\ ~IsControllingRemote(LocalActive)
    /\ \A p : ~IsControllingRemote(RemoteControlled(p))
BY DEF IsControllingRemote, LocalActive, RemoteControlled

\* A show takes back a hide if there is one.
LEMMA ShownBound ==
    ASSUME DaemonAssumption, TypeOK
    PROVE  /\ Shown \in Int /\ Shown <= cursor
           /\ \A n \in Nat : cursor <= n + 1 => Shown <= n
BY DEF Shown, TypeOK, DaemonAssumption

LEMMA IntegerOrder ==
    \A x \in Int, n \in Nat : x <= n => x <= n + 0 /\ x <= n + 1
OBVIOUS

\* Whether a show is due: once the machine controls another one, and until the
\* reader that ended that has the injector.
Due == IsControllingRemote(session) \/ \E c \in Conns : At(c, "Return.injector")

LEMMA CursorStep == TypeOK /\ LockInv /\ CursorInv /\ [Next]_vars => CursorInv'
<1> SUFFICES ASSUME TypeOK, LockInv, CursorInv, [Next]_vars PROVE CursorInv'
  OBVIOUS
<1> USE DaemonAssumption
<1>a. CASE UNCHANGED vars
  BY <1>a DEF vars, CursorInv, HidesAreUndone, At, IsControllingRemote
<1>b. CASE MainExit
  <2>1. running' = FALSE /\ \A c \in Conns : pc'[c] = "unopened"
    BY <1>b DEF MainExit, NoMemory, Tasks
  <2> QED
    BY <2>1 DEF CursorInv, HidesAreUndone, At
<1> SUFFICES ASSUME running, ~MainExit, Next PROVE CursorInv'
  BY <1>a, <1>b DEF Next
<1>c. /\ cursor \in Int /\ skipped \in Nat
      /\ Shown \in Int /\ Shown <= cursor /\ Shown <= skipped
      /\ cursor <= skipped + 1 /\ (~Due => cursor <= skipped)
  BY ShownBound DEF TypeOK, CursorInv, HidesAreUndone, Due
<1>d. \A c \in Conns : /\ At(c, "Enter.state") => ~Free("injector") /\ cursor <= skipped
                       /\ At(c, "Return.injector") => ~Free("state") /\ session = LocalActive
  BY LockedOut DEF CursorInv
\* What is to be shown of each step.
<1>e. ASSUME cursor' <= skipped' + 1, ~Due' => cursor' <= skipped',
             \A c \in Conns : /\ At(c, "Enter.state")' => cursor' <= skipped'
                              /\ At(c, "Return.injector")' => session' = LocalActive,
             cursor' \in Int, skipped' \in Nat
      PROVE  CursorInv'
  <2>1. CASE Due'
    BY <1>e, <2>1 DEF CursorInv, HidesAreUndone, Due
  <2>2. CASE ~Due'
    <3>1. cursor' <= skipped'
      BY <1>e, <2>2, Zenon
    <3>2. cursor' <= skipped' + 0
      BY <1>e, <3>1, IntegerOrder
    <3> QED
      BY <1>e, <2>2, <3>2 DEF CursorInv, HidesAreUndone, Due
  <2> QED
    BY <2>1, <2>2
\* A step of the hook that does not end a control, and shows the cursor if it
\* moves it.
<1>f. ASSUME cursor' \in {cursor, Shown}, skipped' = skipped, UNCHANGED <<session, pc>>
      PROVE  CursorInv'
  <2>1. Due' = Due
    BY <1>f DEF Due, At, IsControllingRemote
  <2> QED
    BY <1>c, <1>d, <1>e, <1>f, <2>1 DEF At
<1>g. ASSUME cursor' \in {cursor, Shown}, skipped' = skipped, pc' = pc,
             Free("state"), ~IsControllingRemote(session)
      PROVE  CursorInv'
  <2>1. cursor <= skipped /\ \A c \in Conns : ~At(c, "Return.injector")
    BY <1>c, <1>d, <1>g DEF Due
  <2>2. cursor' <= skipped' /\ cursor' \in Int
    BY <1>c, <1>g, <2>1
  <2>3. \A c \in Conns : ~At(c, "Return.injector")'
    BY <1>g, <2>1 DEF At
  <2> QED
    BY <1>c, <1>e, <1>g, <2>2, <2>3
<1>h. CASE HookPreempt /\ Free("state") /\ UNCHANGED <<skipped, pc>>
  BY <1>g, <1>h DEF HookPreempt, TryShow, IsRemoteControlled, IsControllingRemote
<1>1. ASSUME NEW event \in Events, HookInput(event) PROVE CursorInv'
  <2>1. CASE HookForward(event)
    BY <1>1, <1>f, <2>1 DEF HookInput, HookForward
  <2>2. CASE HookPreempt
    BY <1>1, <1>h, <2>2 DEF HookInput
  <2>3. ASSUME NEW target \in Neighbors, HookJump(target) PROVE CursorInv'
    <3>1. /\ session' = ControllingRemote(target) /\ pc' = pc /\ skipped' = skipped
          /\ Free("state") /\ ~IsControllingRemote(session)
          /\ cursor' = IF Free("injector") THEN cursor + 1 ELSE cursor
      BY <1>1, <2>3
      DEF HookInput, HookJump, TryHide, start_controlling_remote, IsLocalActive,
          IsControllingRemote
    <3>2. Due' /\ cursor <= skipped /\ \A c \in Conns : ~At(c, "Return.injector")
      BY <1>c, <1>d, <3>1, SessionsDiffer
      DEF Due, IsControllingRemote, ControllingRemote
    <3> QED
      BY <1>c, <1>d, <1>e, <3>1, <3>2 DEF At
  <2> QED
    BY <1>1, <2>1, <2>2, <2>3 DEF HookInput
<1>2. CASE HookBreakout
  <2>1. /\ session' = LocalActive /\ pc' = pc /\ Free("state")
        /\ cursor' = IF Free("injector") THEN Shown ELSE cursor
    BY <1>2 DEF HookBreakout, TryShow, return_to_local
  <2>2. \A c \in Conns : ~At(c, "Return.injector") /\ ~At(c, "Return.injector")'
    BY <1>d, <2>1 DEF At
  <2>3. /\ skipped' \in Nat /\ skipped <= skipped' /\ cursor' \in Int
        /\ cursor' <= skipped'
    <3>1. CASE skipped' = skipped /\ (IsControllingRemote(session) => Free("injector"))
      BY <1>c, <2>1, <2>2, <3>1 DEF Due
    <3>2. CASE skipped' = skipped + 1
      BY <1>c, <2>1, <3>2
    <3> QED
      BY <1>2, <3>1, <3>2 DEF HookBreakout
  <2>4. cursor' <= skipped' + 1
    BY <2>3, IntegerOrder
  <2> QED
    BY <1>e, <2>2, <2>3, <2>4
<1>3. CASE HookRetry
  <2>1. CASE HookPreempt /\ Free("state")
    BY <1>3, <1>h, <2>1 DEF HookRetry
  <2>2. CASE ~(HookPreempt /\ Free("state"))
    BY <1>3, <1>f, <2>2 DEF HookRetry, HookForward
  <2> QED
    BY <2>1, <2>2
<1>4. CASE HookExit \/ HookBreakoutBusy
  BY <1>4, <1>f DEF HookExit, HookBreakoutBusy, TryShow
\* A task that moves, but not to or from where a show is due.
<1>i. ASSUME UNCHANGED <<session, cursor, skipped>>, NEW t \in Tasks, NEW point,
             Goto(t, point), point \notin {"Enter.state", "Return.injector"},
             pc[t] # "Return.injector"
      PROVE  CursorInv'
  <2>1. \A u \in Tasks : pc'[u] = IF u = t THEN point ELSE pc[u]
    BY <1>i DEF Goto, TypeOK
  <2>2. \A c \in Conns : /\ At(c, "Return.injector")' <=> At(c, "Return.injector")
                         /\ At(c, "Enter.state")' => At(c, "Enter.state")
    BY <1>i, <2>1 DEF At, Tasks
  <2>3. Due' = Due
    BY <1>i, <2>2 DEF Due, IsControllingRemote
  <2> QED
    BY <1>c, <1>d, <1>e, <1>i, <2>2, <2>3
<1>5. ASSUME NEW c \in Conns, ReaderLockInjector(c) PROVE CursorInv'
  <2>1. /\ session' = session /\ skipped' = skipped /\ c \in Tasks
        /\ \A d \in Conns : d # c => pc'[d] = pc[d]
    BY <1>5 DEF ReaderLockInjector, Goto, TypeOK, Tasks
  <2>2. CASE At(c, "Input.injector")
    BY <1>5, <1>i, <2>1, <2>2 DEF ReaderLockInjector, At
  <2>3. CASE At(c, "Enter.injector") \/ At(c, "Return.injector")
    <3>1. cursor' = Shown /\ pc'[c] \in {"Enter.state", "Return.hold"}
      BY <1>5, <2>3 DEF ReaderLockInjector, At, Goto, TypeOK, Tasks
    <3>2. \A d \in Conns : At(d, "Return.injector")' => At(d, "Return.injector")
      BY <2>1, <3>1 DEF At
    <3> QED
      BY <1>c, <1>d, <1>e, <2>1, <3>1, <3>2
  <2> QED
    BY <1>5, <2>2, <2>3 DEF ReaderLockInjector
<1>6. ASSUME NEW c \in Conns, ReaderLockState(c) PROVE CursorInv'
  <2>1. /\ cursor' = cursor /\ skipped' = skipped /\ Free("state")
        /\ \A d \in Conns : d # c => pc'[d] = pc[d]
    BY <1>6 DEF ReaderLockState, Lock, Goto, TypeOK, Tasks
  <2>2. \A d \in Conns : ~At(d, "Return.injector")
    BY <1>d, <2>1
  <2>3. CASE At(c, "Enter.state")
    <3>1. pc'[c] = "Enter.hold" /\ cursor <= skipped
      BY <1>6, <1>d, <2>3 DEF ReaderLockState, At, Goto, TypeOK, Tasks
    <3>2. \A d \in Conns : ~At(d, "Return.injector")'
      BY <2>1, <2>2, <3>1 DEF At
    <3> QED
      BY <1>c, <1>e, <2>1, <3>1, <3>2
  <2>4. CASE At(c, "Return.state")
    <3>1. pc'[c] = "Return.injector" /\ session' = LocalActive
      BY <1>6, <2>4 DEF ReaderLockState, At, Goto, TypeOK, Tasks, return_to_local
    <3>2. Due' /\ \A d \in Conns : At(d, "Enter.state")' => At(d, "Enter.state")
      BY <2>1, <3>1 DEF At, Due
    <3> QED
      BY <1>c, <1>d, <1>e, <2>1, <3>1, <3>2
  <2> QED
    BY <1>6, <2>3, <2>4 DEF ReaderLockState
<1>7. ASSUME NEW c \in Conns, \/ Open(c) \/ ReceiveError(c) \/ ReaderLockPeers(c)
                              \/ HandshakeReply(c) \/ ReaderUnlock(c)
      PROVE  CursorInv'
  <2>1. pc[c] # "Return.injector"
    BY <1>7 DEF Open, ReceiveError, ReaderLockPeers, HandshakeReply, ReaderUnlock, At
  <2> QED
    BY <1>7, <1>i, <2>1
    DEF Open, ReceiveError, ReaderLockPeers, HandshakeReply, ReaderUnlock, Tasks
<1>8. ASSUME NEW c \in Conns, NEW packet \in Packets, Receive(c, packet)
      PROVE  CursorInv'
  <2>1. Handler[packet] \notin {"Enter.state", "Return.injector"}
    BY DEF Handler, Packets
  <2> QED
    BY <1>8, <1>i, <2>1 DEF Receive, Tasks, At
<1>9. CASE UdpTask
  <2>1. pc[Udp] # "Return.injector" /\ Udp \in Tasks
    BY DEF TypeOK, UdpPoints, Tasks
  <2> QED
    BY <1>9, <1>i, <2>1 DEF UdpTask, UdpReceive, UdpError, UdpLock, UdpUnlock
<1>10. CASE SenderTask
  <2>1. pc[Sender] # "Return.injector" /\ Sender \in Tasks
    BY DEF TypeOK, SenderPoints, Tasks
  <2> QED
    BY <1>10, <1>i, <2>1
    DEF SenderTask, SenderTake, SenderLockState, SenderRead, SenderLockPeers, SenderSend
<1>11. ASSUME NEW c \in Conns, WriterSend(c) \/ WriterEnd(c) PROVE CursorInv'
  BY <1>11, <1>f DEF WriterSend, WriterEnd
<1> QED
  BY <1>1, <1>2, <1>3, <1>4, <1>5, <1>6, <1>7, <1>8, <1>9, <1>10, <1>11
  DEF Next, Hook, Reader

\* Hides and shows match, but for the breakouts that found the injector locked:
\* EnterScreen keeps the injector locked until the state says RemoteControlled,
\* and LeaveScreen the state until the cursor is shown, so no jump comes between.
THEOREM HidesMatchShows == Spec => []HidesAreUndone
<1>1. Init => CursorInv
  BY DaemonAssumption, SessionsDiffer
  DEF Init, NoMemory, CursorInv, HidesAreUndone, At, Tasks
<1>2. CursorInv => HidesAreUndone
  BY DEF CursorInv
<1> QED
  BY <1>1, <1>2, CursorStep, TypeCorrect, LockOwnership, PTL DEF Spec
-----------------------------------------------------------------------------
(* The peer map.                                                            *)

\* Inductive form: a reader is registered under the id its far end announces,
\* and only a registered one removes an entry.
EntriesInv ==
    /\ EntriesAlive
    /\ \A c \in Conns : registered[c] \in {None, RemoteOf[c]}
    /\ \A c \in Conns : pc[c] \in {"Gone.peers", "Gone.hold"} => registered[c] # None

LEMMA EntriesStep == TypeOK /\ EntriesInv /\ [Next]_vars => EntriesInv'
<1> SUFFICES ASSUME TypeOK, EntriesInv, [Next]_vars PROVE EntriesInv'
  OBVIOUS
<1> USE DaemonAssumption DEF EntriesInv, EntriesAlive
<1>1. CASE UNCHANGED <<peers, registered, pc>>
  BY <1>1
<1>2. CASE Hook
  BY <1>1, <1>2
  DEF Hook, HookInput, HookBreakout, HookBreakoutBusy, HookRetry, HookExit
<1>3. CASE MainExit
  BY <1>3 DEF MainExit, NoMemory, Tasks
\* A reader that moves and leaves the map alone keeps the invariant if it does
\* not stop, or was not registered, and starts to remove only an entry it has.
<1>4. ASSUME NEW c \in Conns, NEW point, Goto(c, point), UNCHANGED <<peers, registered>>,
             \/ point \notin {"unopened", "Gone.peers", "Gone.hold", "dead"}
             \/ point = "dead" /\ registered[c] = None
             \/ point = "dead" /\ pc[c] = "Gone.hold"
             \/ point = "Gone.peers" /\ registered[c] # None
      PROVE  EntriesInv'
  <2>1. \A d \in Conns : pc'[d] = IF d = c THEN point ELSE pc[d]
    BY <1>4 DEF Goto, TypeOK, Tasks
  <2>2. \A p \in Peers : peers[p] \in Conns \cup {None} /\ p # None
    BY DEF TypeOK, DaemonAssumption
  <2> QED
    BY <1>4, <2>1, <2>2
<1>5. ASSUME NEW c \in Conns, Open(c) \/ ReaderLockInjector(c) \/ ReaderLockState(c)
                              \/ HandshakeReply(c) \/ ReceiveError(c)
      PROVE  EntriesInv'
  BY <1>4, <1>5
  DEF Open, ReaderLockInjector, ReaderLockState, HandshakeReply, ReceiveError
<1>6. ASSUME NEW c \in Conns, NEW packet \in Packets, Receive(c, packet)
      PROVE  EntriesInv'
  <2>1. Handler[packet] \notin {"unopened", "Gone.peers", "Gone.hold", "dead"}
    BY DEF Handler, Packets
  <2> QED
    BY <1>4, <1>6, <2>1 DEF Receive
<1>7. ASSUME NEW c \in Conns, ReaderUnlock(c) PROVE EntriesInv'
  BY <1>4, <1>7 DEF ReaderUnlock, At
<1>8. ASSUME NEW c \in Conns, ReaderLockPeers(c) PROVE EntriesInv'
  <2> DEFINE id == RemoteOf[c]
  <2>1. id \in Peers /\ id # None /\ c # None
    BY DEF DaemonAssumption, Tasks
  <2>2. CASE At(c, "Handshake.peers") \/ At(c, "Ack.peers")
    <3>1. /\ peers' = [peers EXCEPT ![id] = c]
          /\ registered' = [registered EXCEPT ![c] = id]
          /\ Goto(c, "Ack.hold") \/ Goto(c, "Handshake.reply")
      BY <1>8, <2>2 DEF ReaderLockPeers, At
    <3>2. \A d \in Conns : pc'[d] = pc[d] \/ (d = c /\ pc'[d] \in {"Ack.hold", "Handshake.reply"})
      BY <3>1 DEF Goto, TypeOK, Tasks
    <3>3. \A d \in Conns : registered'[d] = IF d = c THEN id ELSE registered[d]
      BY <3>1 DEF TypeOK
    <3>4. \A p \in Peers : peers'[p] = IF p = id THEN c ELSE peers[p]
      BY <3>1 DEF TypeOK
    <3>5. pc'[c] \in {"Ack.hold", "Handshake.reply"}
      BY <3>1 DEF Goto, TypeOK, Tasks
    <3>6. \A p \in Peers : peers'[p] # None =>
              /\ registered'[peers'[p]] = p /\ RemoteOf[peers'[p]] = p
              /\ pc'[peers'[p]] \notin {"unopened", "Gone.hold", "dead"}
      <4> SUFFICES ASSUME NEW p \in Peers, peers'[p] # None
                   PROVE  /\ registered'[peers'[p]] = p /\ RemoteOf[peers'[p]] = p
                          /\ pc'[peers'[p]] \notin {"unopened", "Gone.hold", "dead"}
        OBVIOUS
      <4>1. CASE p = id
        BY <4>1, <3>3, <3>4, <3>5
      <4>2. CASE p # id
        <5>1. peers'[p] = peers[p] /\ peers[p] \in Conns
          BY <4>2, <3>4 DEF TypeOK
        <5>2. /\ registered[peers[p]] = p /\ RemoteOf[peers[p]] = p /\ peers[p] # c
              /\ pc[peers[p]] \notin {"unopened", "Gone.hold", "dead"}
          BY <4>2, <5>1
        <5> QED
          BY <5>1, <5>2, <3>2, <3>3
      <4> QED
        BY <4>1, <4>2
    <3>7. \A d \in Conns : registered'[d] \in {None, RemoteOf[d]}
      BY <3>3
    <3>8. \A d \in Conns : pc'[d] \in {"Gone.peers", "Gone.hold"} => registered'[d] # None
      BY <2>1, <3>2, <3>3, <3>5
    <3> QED
      BY <3>6, <3>7, <3>8
  <2>3. CASE At(c, "Gone.peers")
    <3>1. /\ peers' = [peers EXCEPT ![registered[c]] = None]
          /\ registered' = registered /\ Goto(c, "Gone.hold")
      BY <1>8, <2>3 DEF ReaderLockPeers, At
    <3>2. \A d \in Conns : pc'[d] = IF d = c THEN "Gone.hold" ELSE pc[d]
      BY <3>1 DEF Goto, TypeOK, Tasks
    <3>3. registered[c] = id
      BY <2>3 DEF At
    <3>4. \A p \in Peers : peers'[p] = IF p = id THEN None ELSE peers[p]
      BY <3>1, <3>3 DEF TypeOK
    <3>5. \A p \in Peers : peers'[p] # c
      BY <2>1, <3>3, <3>4
    <3>6. \A p \in Peers : peers'[p] # None => peers'[p] = peers[p]
      BY <3>4
    <3>7. \A d \in Conns : pc'[d] \in {"Gone.peers", "Gone.hold"} => registered'[d] # None
      BY <2>1, <3>1, <3>2, <3>3
    <3>8. \A p \in Peers : peers'[p] # None => pc'[peers'[p]] = pc[peers[p]]
      BY <3>2, <3>5, <3>6 DEF TypeOK
    <3> QED
      BY <3>1, <3>6, <3>7, <3>8
  <2> QED
    BY <1>8, <2>2, <2>3 DEF ReaderLockPeers
<1>9. CASE UdpTask \/ SenderTask
  <2>1. \A c \in Conns : pc'[c] = pc[c]
    BY <1>9
    DEF UdpTask, UdpReceive, UdpError, UdpLock, UdpUnlock, SenderTask,
        SenderTake, SenderLockState, SenderRead, SenderLockPeers, SenderSend,
        Goto, TypeOK, Tasks, DaemonAssumption
  <2>2. UNCHANGED <<peers, registered>>
    BY <1>9
    DEF UdpTask, UdpReceive, UdpError, UdpLock, UdpUnlock, SenderTask,
        SenderTake, SenderLockState, SenderRead, SenderLockPeers, SenderSend
  <2>3. \A p \in Peers : peers[p] # None => pc'[peers[p]] = pc[peers[p]]
    BY <2>1 DEF TypeOK
  <2> QED
    BY <2>1, <2>2, <2>3
<1>10. ASSUME NEW c \in Conns, WriterSend(c) \/ WriterEnd(c) PROVE EntriesInv'
  BY <1>1, <1>10 DEF WriterSend, WriterEnd
<1> QED
  BY <1>1, <1>2, <1>3, <1>5, <1>6, <1>7, <1>8, <1>9, <1>10 DEF Next, Reader, vars

\* active_peers leads to running readers, under the ids of their far ends.
THEOREM PeerMapLeadsToLiveConnections == Spec => []EntriesAlive
<1>1. Init => EntriesInv
  BY DaemonAssumption DEF Init, NoMemory, EntriesInv, EntriesAlive, Tasks
<1>2. EntriesInv => EntriesAlive
  BY DEF EntriesInv
<1> QED
  BY <1>1, <1>2, EntriesStep, TypeCorrect, PTL DEF Spec

LEMMA MissingStep ==
    TypeOK /\ EntriesInv /\ MissingEntryExplained /\ [Next]_vars => MissingEntryExplained'
<1> DEFINE lost == {"Gone.hold", "dead"}
<1> SUFFICES ASSUME TypeOK, EntriesInv, MissingEntryExplained, [Next]_vars,
                    NEW c \in Conns, registered'[c] # None, pc'[c] \notin lost,
                    peers'[registered'[c]] = None
             PROVE  \E d \in Conns \ {c} : registered'[d] = registered'[c] /\ pc'[d] \in lost
  BY DEF MissingEntryExplained
<1> USE DaemonAssumption
<1>1. CASE UNCHANGED <<peers, registered, pc>>
  BY <1>1 DEF MissingEntryExplained
<1>2. CASE Hook
  BY <1>1, <1>2
  DEF Hook, HookInput, HookBreakout, HookBreakoutBusy, HookRetry, HookExit
<1>3. CASE MainExit
  BY <1>3 DEF MainExit, NoMemory
\* A task that leaves the map alone explains as much as before if it does not
\* come back from a lost connection.
<1>4. ASSUME NEW t \in Tasks, NEW point, Goto(t, point), UNCHANGED <<peers, registered>>,
             pc[t] \in lost => point = "dead"
      PROVE  \E d \in Conns \ {c} : registered'[d] = registered'[c] /\ pc'[d] \in lost
  <2>1. \A d \in Conns : pc'[d] = IF d = t THEN point ELSE pc[d]
    BY <1>4 DEF Goto, TypeOK, Tasks
  <2>2. pc[c] \notin lost
    BY <1>4, <2>1
  <2>3. PICK d \in Conns \ {c} : registered[d] = registered[c] /\ pc[d] \in lost
    BY <1>4, <2>2 DEF MissingEntryExplained
  <2> QED
    BY <1>4, <2>1, <2>3
<1>5. ASSUME NEW r \in Conns,
             \/ Open(r) \/ (\E packet \in Packets : Receive(r, packet))
             \/ ReceiveError(r) \/ ReaderLockInjector(r) \/ ReaderLockState(r)
             \/ HandshakeReply(r) \/ ReaderUnlock(r)
      PROVE  \E d \in Conns \ {c} : registered'[d] = registered'[c] /\ pc'[d] \in lost
  BY <1>4, <1>5
  DEF Open, Receive, ReceiveError, ReaderLockInjector, ReaderLockState,
      HandshakeReply, ReaderUnlock, At, Tasks
<1>6. ASSUME NEW r \in Conns, ReaderLockPeers(r)
      PROVE  \E d \in Conns \ {c} : registered'[d] = registered'[c] /\ pc'[d] \in lost
  <2> DEFINE id == RemoteOf[r]
  <2>1. id \in Peers /\ r # None /\ registered[r] \in {None, id}
    BY DEF DaemonAssumption, Tasks, EntriesInv
  <2>2. CASE At(r, "Handshake.peers") \/ At(r, "Ack.peers")
    <3>1. /\ \A p \in Peers : peers'[p] = IF p = id THEN r ELSE peers[p]
          /\ \A d \in Conns : registered'[d] = IF d = r THEN id ELSE registered[d]
          /\ \A d \in Conns : d # r => pc'[d] = pc[d]
          /\ pc[r] \notin lost
      BY <1>6, <2>2 DEF ReaderLockPeers, At, Goto, TypeOK, Tasks
    <3>2. registered'[c] # id /\ c # r
      BY <2>1, <3>1
    <3>3. peers[registered[c]] = None /\ registered[c] # None /\ pc[c] \notin lost
      BY <3>1, <3>2 DEF TypeOK
    <3>4. PICK d \in Conns \ {c} : registered[d] = registered[c] /\ pc[d] \in lost
      BY <3>3 DEF MissingEntryExplained
    <3> QED
      BY <3>1, <3>2, <3>4
  <2>3. CASE At(r, "Gone.peers")
    <3>1. registered[r] = id
      BY <2>1, <2>3 DEF At, EntriesInv
    <3>2. /\ \A p \in Peers : peers'[p] = IF p = id THEN None ELSE peers[p]
          /\ registered' = registered
          /\ \A d \in Conns : pc'[d] = IF d = r THEN "Gone.hold" ELSE pc[d]
      BY <1>6, <2>3, <3>1 DEF ReaderLockPeers, At, Goto, TypeOK, Tasks
    <3>3. CASE registered[c] = id
      BY <3>1, <3>2, <3>3
    <3>4. CASE registered[c] # id
      <4>1. peers[registered[c]] = None /\ pc[c] \notin lost /\ registered[c] # None
        BY <3>2, <3>4 DEF TypeOK
      <4>2. PICK d \in Conns \ {c} : registered[d] = registered[c] /\ pc[d] \in lost
        BY <4>1 DEF MissingEntryExplained
      <4> QED
        BY <3>2, <4>2
    <3> QED
      BY <3>3, <3>4
  <2> QED
    BY <1>6, <2>2, <2>3 DEF ReaderLockPeers
<1>7. CASE UdpTask
  <2>1. pc[Udp] # "Gone.hold" /\ Udp \in Tasks
    BY DEF TypeOK, UdpPoints, Tasks
  <2> QED
    BY <1>4, <1>7, <2>1 DEF UdpTask, UdpReceive, UdpError, UdpLock, UdpUnlock, At
<1>8. CASE SenderTask
  <2>1. pc[Sender] \notin lost /\ Sender \in Tasks
    BY DEF TypeOK, SenderPoints, Tasks
  <2> QED
    BY <1>4, <1>8, <2>1
    DEF SenderTask, SenderTake, SenderLockState, SenderRead, SenderLockPeers, SenderSend
<1>9. ASSUME NEW r \in Conns, WriterSend(r) \/ WriterEnd(r)
      PROVE  \E d \in Conns \ {c} : registered'[d] = registered'[c] /\ pc'[d] \in lost
  BY <1>1, <1>9 DEF WriterSend, WriterEnd
<1> QED
  BY <1>1, <1>2, <1>3, <1>5, <1>6, <1>7, <1>8, <1>9 DEF Next, Reader, vars

\* A live connection that has announced its peer is missing from active_peers
\* only if another connection to the same peer has been lost: with at most one
\* connection to each peer, no entry is ever removed by anyone else.
THEOREM LiveConnectionsAreListed == Spec => []MissingEntryExplained
<1>1. Init => EntriesInv /\ MissingEntryExplained
  BY DaemonAssumption
  DEF Init, NoMemory, EntriesInv, EntriesAlive, MissingEntryExplained, Tasks
<1> QED
  BY <1>1, EntriesStep, MissingStep, TypeCorrect, PTL DEF Spec

LEMMA ChosenStep ==
    TypeOK /\ LockInv /\ ChosenStillConnected /\ [Next]_vars => ChosenStillConnected'
<1> SUFFICES ASSUME TypeOK, LockInv, ChosenStillConnected, [Next]_vars,
                    pc'[Sender] = "Send.send", sending'.conn # None
             PROVE  sending'.conn \in Connected'
  BY DEF ChosenStillConnected, At
<1> USE DaemonAssumption
<1>1. CASE SenderLockPeers
  <2>1. PICK c : /\ sending' = [sending EXCEPT !.conn = c]
                 /\ \/ c = Lookup(sending.target) /\ c # None
                    \/ c \in Connected
                    \/ c = None
    BY <1>1 DEF SenderLockPeers
  <2>2. sending'.conn = c
    BY <2>1 DEF TypeOK
  <2>3. c \in Connected
    BY <2>1, <2>2 DEF Lookup, Connected
  <2>4. peers' = peers
    BY <1>1 DEF SenderLockPeers
  <2> QED
    BY <2>2, <2>3, <2>4 DEF Connected
<1>2. CASE MainExit
  <2>1. pc'[Sender] = "recv"
    BY <1>2 DEF MainExit, NoMemory, Tasks, DaemonAssumption
  <2> QED
    BY <2>1
<1>3. CASE SenderTask /\ ~SenderLockPeers
  <2>1. pc'[Sender] # "Send.send"
    BY <1>3
    DEF SenderTask, SenderTake, SenderLockState, SenderRead, SenderSend, Goto, TypeOK, Tasks
  <2> QED
    BY <2>1
<1>4. CASE UNCHANGED <<peers, sending>> /\ pc'[Sender] = pc[Sender]
  BY <1>4 DEF ChosenStillConnected, At, Connected
<1>5. CASE UdpTask
  <2>1. pc'[Sender] = pc[Sender]
    BY <1>5
    DEF UdpTask, UdpReceive, UdpError, UdpLock, UdpUnlock, Goto, TypeOK, Tasks, Udp, Sender
  <2> QED
    BY <1>4, <1>5, <2>1 DEF UdpTask, UdpReceive, UdpError, UdpLock, UdpUnlock
<1>6. CASE Hook
  BY <1>4, <1>6
  DEF Hook, HookInput, HookBreakout, HookBreakoutBusy, HookRetry, HookExit
<1>7. ASSUME NEW c \in Conns, NEW point, Goto(c, point) PROVE pc'[Sender] = pc[Sender]
  BY <1>7 DEF Goto, TypeOK, Tasks, DaemonAssumption
\* The sender holds the peer map: no reader changes it now.
<1>8. ASSUME NEW c \in Conns, ReaderLockPeers(c) PROVE FALSE
  <2>1. pc[Sender] = "Send.send"
    BY <1>7, <1>8 DEF ReaderLockPeers
  <2>2. holder["peers"] = Sender
    BY <2>1, HoldPointsAre DEF LockInv, Mutexes, Tasks
  <2> QED
    BY <1>8, <2>2 DEF ReaderLockPeers, Lock, Free, DaemonAssumption, Tasks
<1>9. ASSUME NEW c \in Conns,
             \/ Open(c) \/ (\E packet \in Packets : Receive(c, packet))
             \/ ReceiveError(c) \/ ReaderLockInjector(c) \/ ReaderLockState(c)
             \/ HandshakeReply(c) \/ ReaderUnlock(c)
      PROVE  sending'.conn \in Connected'
  BY <1>4, <1>7, <1>9
  DEF Open, Receive, ReceiveError, ReaderLockInjector, ReaderLockState,
      HandshakeReply, ReaderUnlock
<1>10. ASSUME NEW c \in Conns, WriterSend(c) \/ WriterEnd(c)
       PROVE  sending'.conn \in Connected'
  BY <1>4, <1>10 DEF WriterSend, WriterEnd
<1> QED
  BY <1>1, <1>2, <1>3, <1>4, <1>5, <1>6, <1>8, <1>9, <1>10 DEF Next, Reader, vars

\* A captured event goes into the channel of a connection that is still in
\* active_peers: the sender task keeps the map locked across its send.
THEOREM SenderUsesLiveEntry == Spec => []ChosenStillConnected
<1>1. Init => ChosenStillConnected
  BY DaemonAssumption
  DEF Init, NoMemory, ChosenStillConnected, At, Tasks, DaemonAssumption
<1> QED
  BY <1>1, ChosenStep, TypeCorrect, LockOwnership, PTL DEF Spec
=============================================================================
