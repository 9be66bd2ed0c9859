# TLA+ verification of crossKVM

crossKVM shares one mouse and keyboard among several machines. Every machine
runs the same daemon (`kvm-daemon`); when the pointer reaches the edge of a
screen that has a neighbor, the daemon captures the user's input, swallows it
and sends it to the neighbor, which injects it. This directory holds TLA+
models of that system, the TLC configurations that check them on small
instances and TLAPS proofs for every instance.

Paths below are relative to `src/crates/`; `main.rs` is
`kvm-daemon/src/main.rs`.

## 1. Inventory

| Component | State | Operations | Talks to | What is hard, what makes it correct |
|---|---|---|---|---|
| Session state, `kvm-core/src/state.rs` | LocalActive, ControllingRemote(target), RemoteControlled(controller) | `start_controlling_remote`, `return_to_local`, `enter_remote_controlled`, `handle_physical_input_detected` | shared by the hook and all tasks, behind a mutex | the methods are total; what matters is who calls them in which order, and that the cursor, the peers and the state agree |
| Input hook, `main.rs:222-323` | none of its own | hotkeys, forward, preempt, jump | runs on an OS thread; only `try_lock` and `try_send` | never blocks, so each lock it misses is an effect it leaves out |
| Reader and writer of a connection, `main.rs:514-638` | registered id; packet channel (100) | handshake, Input, EnterScreen, LeaveScreen, PreemptTakeover, error | mutexes of state, injector and peer map | lock order, dead entries in the map, awaited sends under a lock |
| UDP receiver and sender tasks, `main.rs:377-402, 456-488` | a delta or an event in hand | receive and inject; take, choose a connection, send | the same mutexes; event queue (1000) | decisions made under one lock and used under the next |
| Hotkey detector, `main.rs:65-136` | instants of recent Escape and Ctrl+C presses | `check` | called by the hook for every event | sliding windows, early returns, key codes of two platforms |
| UDP delta transport, `kvm-net/src/transport.rs:23-65` | `last_received_seq`; SEQ_COUNTER in the capturers | `send_delta`, `recv_delta` | the network | loss, duplication, reordering, restarts, several senders |
| Framed TCP transport, `kvm-net/src/transport.rs:67-199` | a stream per connection | `send_packet`, `recv_packet`, `accept`, `connect` | writer and reader tasks | order within a connection, loss of everything in it |
| Topology, `kvm-core/src/topology.rs` | neighbors and the boundary | `check_edge_hit`, `calculate_entry_point`, `add_neighbor` | hook and EnterScreen handler | overlapping zones, rounding between screens of different sizes |
| Several daemons together | all of the above | jump, forward, inject, preempt, break out | EnterScreen, LeaveScreen, PreemptTakeover, Input, deltas | crossing messages, injected input that comes back to a hook, lost connections |
| Clipboard service, `kvm-clipboard/src/lib.rs:23-128` | last change count, cache of payloads | `new`, `poll_changes`, `get_payload`, `apply_payload` | the system's clipboard, `macos/clipboard.rs` and `windows/clipboard.rs`, which the user's applications change at any moment | a count read before or after the content it stands for; the echo of one's own write; calls that fail half-way or do nothing |
| File drop, `kvm-clipboard/src/lib.rs:130-209` | an open file, a hash, an offset | `read_chunks_and_send` | file system, channel to the connection | the file is read twice and may change in between; a full channel, a receiver that goes away |
| Discovery, encryption, config, displays, web UI, platform FFI | little or none | | | `main.rs` only logs what discovery finds; config is unused |

The hazards of this code are listed in `PROJECT.json`, each at its line, with the
properties that would catch it or that bound what it can do. Where the code runs
into the hazard and a property only permits, explains or bounds that, or where no
property looks at it, the hazard's note says so.

## 2. Modules

| Module | Models | Used by |
|---|---|---|
| `SessionState` | the states and the four transition functions of `state.rs` | `Daemon`, `Session` |
| `Daemon` | one process, lock by lock | `MCDaemon`, `DaemonProofs` |
| `Hotkeys` | `HotkeyState::check` | `MCHotkeys`, `HotkeysProofs` |
| `DeltaStream` | abstract: what the stream of mouse deltas promises | `UdpDelta` |
| `UdpDelta` | numbering, the network, the filter of `recv_delta`, restarts | `UdpDeltaProofs` |
| `InputRouting` | abstract: what the daemons promise together about an input | `Session` |
| `Session` | several daemons, their connections and streams | `MCSession`, `SessionProofs`, `RoutingProofs` |
| `Topology` | the geometry as operators | `Pointer` |
| `Pointer` | a pointer moving over several screens | `MCPointer`, `PointerProofs` |
| `Clipboard` | the clipboard service and the clipboard of one system | `MCClipboard`, `ClipboardProofs` |
| `FileDrop` | transfers of a file that other programs change | `MCFileDrop`, `FileDropProofs` |

Definitions whose comment starts with "Variant" are plausible bugs; they are
used by no specification and serve to show that each property can fail.

### Daemon

The three `tokio` mutexes are `holder`. Each task has a program point; a name
`X.m` waits for mutex `m` while handling `X`. A wait, a critical section and a
release are steps of their own, so everything else can run in between. The
hook never waits: it is one step that samples the locks, except that the
second `try_lock` of the state, which follows a breakout that missed the lock,
is a step of its own (`hook = "retry"`). One step also stands for two
`try_lock`s of the injector and the peer map inside a call; what the tasks do
between those two is not distinguished. Packet contents are abstracted to
their type, events to moves and others. The other daemons are the environment:
a reader may receive any packet, or an error, at any time. The id that a
connection's far end announces is a function of the connection (`RemoteOf`).

`cursor` is the count of hides less shows that the operating system keeps, since
`hide_cursor` and `show_cursor` are calls that it counts: above 0 the cursor is
hidden. macOS does not count shows of a visible cursor, Windows does
(`LowestCount`). `skipped` is history: the breakouts that left a control without
a show because the injector was locked.

| Action | Code in `main.rs` |
|---|---|
| `Hook` (`HookForward`, `HookPreempt`, `HookJump`, `HookBreakout`, `HookBreakoutBusy`, `HookRetry`, `HookExit`) | 222-323 |
| `Open`, `Receive`, `ReaderLock*`, `HandshakeReply`, `ReaderUnlock`, `ReceiveError` | 514-638 |
| `WriterSend`, `WriterEnd` | 535-546 |
| `UdpReceive`, `UdpLock`, `UdpUnlock`, `UdpError` | 382-402 |
| `SenderTake`, `SenderLockState`, `SenderRead`, `SenderLockPeers`, `SenderSend` | 461-488 |
| `MainExit` | 497-511 |

### Hotkeys

A key press is `KeyDown(k, mods)`; time passes with `Tick`. The two lists are
sets of numbered presses, as the code only adds, drops by age and counts. The
variables `escapes` and `ctrl_cs` are history: all presses since the last
report, so that "what the whole history calls for" can be stated.

### UdpDelta and DeltaStream

A process is a sender and the number of its life. `Capture` numbers and sends,
`Accept` and `Drop` are the two results of `recv_delta`, `Arrives` keeps a
datagram in the network so that it can be repeated, `Lose` removes it.
`RestartSender` starts the counter at 1 again, `RestartReceiver` forgets the
last number. `StreamSpec` is the refinement: for every process, `DeltaStream`
is implemented with `captured` as the counter less one.

### Session and InputRouting

Here a handler is one step; that another task's lock is in the way of the
hook's `try_lock` is a choice of the hook's step (`HookPass`, the second
disjunct of `HookJump` and `Breakout`). Two tasks keep the two steps between
which they hold no lock: the sender (`SenderRead`, `SenderSend`) and the UDP
receiver (`UdpReceive`, `UdpInject`). A connection's channel, its socket and
the far end's buffers are one bounded sequence per direction (`wire`). Where a
hook is installed (`Hooked`), an injected input is seen by it in the step that
injects it: the capture and the injectors carry no mark that would keep them
apart. That one step is two on macOS, where the post (`macos/inject.rs:67`) returns
before the tap is called; no property tells an input that was posted from one that
is still on its way to be. Exit and the hotkeys typed by injected keys are left to the other
modules. History: `acted` is what the applications of each machine saw,
`missed` that an EnterScreen was not sent or was lost, `relayed` marks an
input that a machine captured although it had been injected there.

`InputRouting` says that an input acts at once where it was made, or is on its
way, or is lost, and that what is on its way acts on one machine in the end or
is lost. `RoutingSpec` maps the queues, the sender's and receiver's hands, the
datagrams and the connections to "on its way".

### Topology and Pointer

A ratio is the exact fraction (the code has an `f32`), a position the integer
part (`SetCursorPos(x as i32)`), taken as the floor. `as i32` cuts towards zero,
which is one pixel more for a negative coordinate; the primary display, whose
boundary `main()` uses, has its origin at (0, 0), so that this concerns only the
fallback to the first display (`main.rs:192-196`). The bound of
`ReturnsWhereItLeft` has room for the difference. The list of neighbors is a set: `main()` gives
an edge at most one neighbor. In `Pointer` one user moves at a time and
messages arrive at once. The hook may be told the pointer's position (macOS) or
the one it would have if the screen had no end (Windows); both are allowed
(`Reported`). `last` is history: where the last jump left and entered.

### Clipboard

The service takes `&mut self`, so it does one thing at a time; `task` says which
of its calls of the clipboard comes next. Between any two of them an application
may begin or end a copy (`BeginCopy`, `EndCopy`), and the process may end and
start again (`Restart`). A copy takes two calls, on macOS `clearContents` and
`setString`, on Windows what lies between `OpenClipboard` and `CloseClipboard`;
in between, reads return nothing. The first call changes the count, on Windows
the second may change it again. What the platforms do differently is in
the actions: on macOS a clipboard can be taken from an application that is half
through a copy, and `setString` then fails (`ClearContents`, `SetString`); on
Windows a clipboard that is open cannot be opened (`WriteText` is not enabled:
`apply_payload` returns an error and changes nothing), a failed allocation leaves
it empty without an error, images are not read and `write_image` does nothing.
A payload stands for its hash. History: `announced` says of whose copy each
notification was, `fate` what became of the user's copy that is on the clipboard,
`wrote` the count after the service's last write.

`main()` creates the service and polls every 500 ms (`Service`); the requests
and payloads of peers are the environment.

| Action | Code in `kvm-clipboard/src/lib.rs` |
|---|---|
| `PollChanges`, `ReadText`, `ReadImage` | `poll_changes`, 40-88 |
| `get_payload` | 91-102 |
| `ClearContents` and `SetString`, or `WriteText`, or `WriteImage`; then `Recount` | `apply_payload`, 105-127 |
| `Restart`, `Init` | `new`, 30-37 |

### FileDrop

A transfer is a task with a program point at each await of
`read_chunks_and_send`. The path leads to one of several files; other programs
write into the file, which a transfer that has it open sees, put another file at
the path, or remove it. A block is what one `read` returns, sizes and offsets
are counted in blocks, and a hash is the sequence that was hashed. `Send` waits
for room, and returns at once when the receiver has closed the channel. No code
of the repository receives a file: `Accepted` says what a receiver that compares
the announced size and hash, as the error `ChecksumMismatch` foresees, makes of
the messages.

## 3. Runs

| Run | Instance | Shows |
|---|---|---|
| `daemon_safe` | two neighbors, two connections to one of them, capacities 1 | types, lock ownership (`LockInv`), the only deadlock (`DeadlockShape`), live entries (`EntriesAlive`), the sender's choice still connected (`ChosenStillConnected`), a live connection without an entry only after another to the same peer was lost (`MissingEntryExplained`), hides matched by shows (`HidesAreUndone`) |
| `daemon_live` | one peer, one connection | no two tasks wait for each other (`HoldersAdvance`), every handler ends (`HandlersFinish`) |
| `daemon_cycle` (violated) | two connections | "Independent reader task" (`main.rs:548`): EnterScreen and LeaveScreen lock in opposite order and wait for each other for ever |
| `daemon_breakout` (violated) | one connection | README "at any time": a breakout that finds the state locked, in the trace by the UDP receiver (`main.rs:387`), is not carried out |
| `daemon_preempt` (violated) | one connection | `state.rs:34`: the controller is known as `"remote-peer"`, which no connection is registered under, so nobody is told of a preemption |
| `hotkeys` | Mac key codes, 200 ms units, 7 units, 5 presses | the two short lists are enough (`ListsRemember`, `CheckIsExact`) |
| `udp_stream` | two senders of two lives, two deltas each | the newest number is kept (`LastIsNewest`), the abstract stream is implemented (`StreamSpec`), a fresh delta is dropped only if another process had a number accepted that is as high (`FreshDropsExplained`) |
| `session` | two machines, one connection, 3 and 1 inputs, capacities 2 | no input acts twice (`RoutingSpec`), a user's inputs act in order (`ActInOrder`), mutual control is transient (`MutualControlIsTransient`) |
| `session_echo` (violated) | the same | "physical": the first injected input ends the remote control |
| `pointer` | three machines in a row, screens of 9 to 12 by 10 to 17 pixels | entries on the screen (`TypeOK`), at one edge only (`EntryHitsNoOtherEdge`), and back to the height left (`ReturnsWhereItLeft`) |
| `clipboard` | one text, one image, both systems, five changes | no copy waits behind a count already seen (`NothingForgotten`), no echo to the peers (`NoEcho`), what is announced is served (`AnnouncedIsServed`), `apply_payload` swallows only copies made after its write, or in place of an image that Windows did not write (`CoveredCameLater`), every copy is dealt with (`CopiesAreHandled`) |
| `filedrop` | one transfer, contents of up to three blocks, a channel of two, two changes | messages in order (`InOrder`), an unchanged file arrives (`UnchangedIsAccepted`), no mixture of contents passes for a file that was written into once at most (`AcceptedExisted`), the call returns (`TransfersReturn`) |

A violated run checks one statement of the repository's documents or comments
and its counterexample; `PROJECT.json` quotes the statement under "findings".

### Bounds, and why they are enough

* Channel capacities of 1 and 2 stand for 100 and 1000: the code only asks
  whether there is room, so that full and not full are both reached.
* `daemon_safe` needs two connections for two readers to meet, and both to one
  peer for one to take the other's entry; a neighbor without a connection lets
  the sender fall back on another peer's. `LowestCount = 0` is macOS, and
  `MaxSkipped = 1` one breakout that leaves a hide behind, which the next control
  can then add to; the proofs are for any number of either. `VIEW
  NoContents` compares channels by length, as no guard reads what they hold.
  `OneStream` leaves out the runs in which the sender task and the UDP receiver
  are both in the middle of something, and exits: neither of the two waits for a
  mutex while it holds one. Once a show was skipped both stay idle: neither
  touches the cursor. The proofs need none of these restrictions.
* `daemon_live` has one connection: with two, `daemon_cycle` shows that handlers
  need not finish. Its users capture no moves and retry no breakout
  (`FewInputs`), which keeps the state space within reach of a liveness check.
* `hotkeys`: two windows of 4 and 3 units within 7 units of time and five
  presses let lists fill, age and be cleared by a report.
* `udp_stream`: two lives of each of two senders give every order of new, old
  and foreign numbers.
* `session`: A needs a move to jump and two inputs to see an order; B needs one
  input to preempt or jump. `FirstMoves` makes each user's first input a move,
  which can do all that a key can, and jump; `OneLeaving` allows one LeaveScreen
  on its way at a time.
* `pointer`: the threshold is the code's 3 pixels, the dead zone 4 instead of
  15, the least that is wider than the threshold; the theorems are for any.
* `clipboard`: a user and a peer that may put the same content on the clipboard,
  and five changes of its count, are enough for a copy before, during and after
  a poll and an `apply_payload` that it races.
* `filedrop`: contents of three blocks, each with one of them different, let a
  reading mix two contents, and two readings that each mix two agree in what is
  neither; two changes allow one in each reading. Two writes into an open file
  can therefore make a mixture pass, which no comparison of sizes and hashes
  detects, and `AcceptedExisted` says "at most one" (`written`). With contents
  of two blocks the two mixtures cannot agree: the proof of a weaker hypothesis
  failed there, and the third block showed why.

`CHECK_DEADLOCK FALSE` is used where the process can exit, where users stop, or
where the bound on presses or on changes ends a run; what a deadlock of tasks would be is
stated by `DeadlockShape`, `HoldersAdvance` and `HandlersFinish`.

### Fairness

`Daemon` (`Fairness`), `Clipboard` and `FileDrop` state fairness. In `Daemon` each
task has strong fairness on its steps: `tokio`'s mutexes and channels queue their waiters first come, first
served, so that a task that waits for a lock others keep taking gets it. The
writer has weak fairness: the socket takes what is written or reports an error.
The user, the network and other daemons have none. In `Clipboard` the service has
weak fairness: the interval of `main()` ticks for ever and calls of the clipboard
return; no application, peer or restart has any. In `FileDrop` a transfer that
was called has weak fairness, as its task is polled while it can go on, and so
has the receiver's taking of a message as long as it has not closed the channel;
it may close it at any time, or never.

## 4. Proofs

All proofs are checked by `tlapm` to the last leaf, under the named assumptions
on the constants that the modules state.

* `DaemonProofs`. `TypeCorrect` comes first, by one step per action.
  `LockOwnership` needs only the types: `LockInv` is inductive, as every lock
  and unlock moves the program point with it. (That no guard outlives its scope is
  what Rust enforces; the theorem says that the tables of points agree with the
  locks.) From the table of points that
  hold and wait, `DeadlocksAreEnterReturn` follows without induction: the only
  pair of points that hold and wait crosswise is EnterScreen against LeaveScreen
  or PreemptTakeover. `OneConnectionNeverDeadlocks` is its corollary.
  `HidesMatchShows` needs `CursorInv`: after `show_cursor` in EnterScreen the
  injector stays locked until the state is set, so that a jump's `hide_cursor`
  misses it, and a LeaveScreen or PreemptTakeover keeps the state locked until
  the cursor is shown, so that no jump comes before its show; without the two
  program points as part of the invariant it is not inductive.
  `PeerMapLeadsToLiveConnections` strengthens `EntriesAlive` by the id a
  reader is registered under, which is its far end's, and `Gone.*` only if there
  is one. `LiveConnectionsAreListed` rests on the same: a removal makes its own
  reader the lost connection that explains it. `SenderUsesLiveEntry` holds
  because the peer map stays locked from the choice to the send.
* `HotkeysProofs`. `HotkeysInv` joins the types, the lengths of the lists and
  `ListsRemember`: what a list keeps is a recent part of the history, so that a
  count over the list is the count over the history (`SameRecent`), which gives
  `CheckIsExact` as an action property.
* `UdpDeltaProofs`. `UdpInv`, the types with `LastIsNewest`, is inductive;
  `UdpImplementsStream` maps initial states and steps to `DeltaStream`.
  `FreshDropsAreExplained` follows from the invariant alone: the last number was
  accepted from someone, and from a fresh delta's own process it was lower. Its
  corollary `OneProcessLosesNothingFresh`: with one sender that never restarts
  only stale deltas are dropped, as the comment at `transport.rs:58` says.
* `PointerProofs`. `PointerOnScreen` rests on `HitIsClear` (a hit with a
  neighbor is at a side and clear of the corners, so its ratio is strictly
  between 0 and 1) and `AlongInside` (such a ratio of a length is one of its
  pixels). `EntersAtOneEdge` rests on `EntryZone`. The assumptions say what it
  takes: the threshold is at least the two pixels of the entry, the dead zone is
  wider than the threshold, and every screen is larger than both together;
  `main()` has 3 and 15. `ReturnsToItsHeight` keeps with `last` how the entry was
  computed (`Entered`): by `JumpHeight` every jump enters at the height
  `EntryHeight` says, and `ThereAndBack` bounds what two rounded ratios, of the
  one height and then of the other, take away.

* `ClipboardProofs`. The types with `NothingForgotten`, `AnnouncedIsServed` and
  the provenance of what may be read are inductive together: `NoEcho` needs to
  know that while the count on the clipboard is that of the service's own write
  no poll looks at it, except at a clipboard left empty.
* `FileDropProofs`. `MessagesInOrder` joins the number of messages sent with the
  offset and the program point, as long as the channel is open.
  `UnchangedFileArrives` needs a larger invariant: while a transfer is stable
  what was hashed, what is announced and what was sent are each a beginning of
  the one content of the file, as long as the point in the code says.
  `AcceptedFileExisted` asks less of the file: a reading is pure while what was
  read so far is a beginning of the content of the open file, or the whole of
  one that was at the path (`HashPure`, `ReadPure`). One write spoils one
  reading, since the two do not overlap, and a file put at the path while another
  one is open spoils none (`OneIsPure`). What is accepted is what either reading saw.

* `SessionProofs`. `Types` is `TypeOK` with the contents of the wires, and with
  the targets of a machine among its neighbors. `MutualControlIsTransient` is
  not inductive on its own; `MutualInv` adds that a connection is registered
  under the id of its far end, so that a jump's EnterScreen goes to the target
  and nobody else, and that nothing is on a connection not yet opened. Every
  step then keeps `Told`: an EnterScreen stays on its wire until its receiver is
  controlled or it is missed, and a machine that begins to control another one
  has sent it an EnterScreen or missed to. `ToldIsEnough` draws the conclusion
  once for all steps.

* `RoutingProofs`, on the types and the registrations of `SessionProofs`, for any
  machines, neighbors, hooks, connections and capacities.
  - *Once.* `Places` are all that can hold an input: queues, the hands of the
    sender tasks and UDP receivers, wires, what has acted, and those datagrams
    that the filter would still let through (`Live`). `OnceInv`: an input is at one
    place, once, and was made. A datagram that arrives takes its number into
    `last`, so that the same step that puts its input into the receiver's hand
    makes every copy of it dead; that is why `Live` is part of the invariant. A hook
    sees an input that was just taken from where it was (`Taken`, `Nowhere`) and
    acts it, captures it or drops it (`Outcome`). `SessionRoutes` then maps every
    step to one of `InputRouting`, or to none (`AbstractNext`).
  - *Ways.* What is in a machine's queue, in its sender's hand or on a wire it sends on
    was relayed or is its own user's; only keys are on wires, and only moves are
    datagrams, which never go back to the machine of their user unless relayed (`Ways`).
  - *Moves.* Of the moves of a user that are on their way, the later ones have the
    higher numbers (`MovesNumbered`); those a receiver's filter would let through
    are later than what it has in hand or has let act (`MovesAhead`, `MovesActed`).
    `MovesActInOrder` needs no assumption on connections.
  - *Keys.* The queue, the sender's hand, the wire and what acted are in order, and
    so is each with the next (`KeysInv`). `InputsActInOrder` needs `SingleLinks`, at
    most one connection between two machines: with two, a sender moves on to
    the connection registered last while the other one still carries keys.
    TLC finds that in 18 steps once a second connection is allowed.

  TLC checked these invariants on instances of two and of three machines before
  they were proved.

Only model-checked: all liveness (`HandlersFinish`, `CopiesAreHandled`,
`TransfersReturn`: fairness and ENABLED are beyond the prover) and the violated
statements. Every other property that a run checks is a theorem.

## 5. Behaviour worth knowing

What the models show of the code and no document of the repository speaks of, or
only in passing:

* A restarted sender counts from 1 again: its deltas are dropped until its
  counter passes the last one of its former process, and likewise those of the
  peer with the smaller counter when two machines take turns (`Fresh`,
  `FreshDropsExplained`).
* `check` tries the key codes of macOS and Windows on both: on Windows 53 is the
  key 5, so that three quick presses of it break out.
* With two connections between two machines, as when each is started with
  `--connect-peer` for the other, the later handshake takes the entry; when it is
  the first to be lost, the other connection goes on reading but nothing is sent
  on it any more (`MissingEntryExplained`). Keys sent after the later handshake
  can overtake those that are still on the former connection (`SingleLinks`).
* A file that is written into twice while it is sent, once in each reading, can be
  accepted although it never had the content that arrived (`AcceptedExisted`).
* A breakout that finds the injector locked leaves the cursor hidden, and a
  later EnterScreen shows it once for two hides (`skipped`).
* On Windows an image that a peer sends is not written, and the user's copy that
  was waiting for a poll is taken for it (`CoveredCameLater`).
* A copy that a poll finds half made, or on Windows in a clipboard that any
  application has open, is recorded as seen without being read; it is announced
  only if the count changes again (`fate = "unread"`).

## 6. Not modelled

* Discovery (only logged), encryption (a pure function; its failure is an error
  of `recv_packet` or `recv_delta`), configuration (unused), display
  enumeration, the web UI, the Linux stub and the FFI calls.
* Lengths and framing of TCP packets: `recv_packet` is never interrupted between
  its two reads, and a stream that ends in between is an error like any other.
* Stuck keys: that a key pressed on one machine is released on another.
* Fractions of pixels and of wheel steps, which the Windows injector cuts off.
* The decoding of OS events; in particular what the Windows hook reports while
  moves are swallowed, and the macOS injector's position beyond the screen.
* Two connections between two daemons in `Session`: with them the state space is
  out of TLC's reach at the bounds that make it interesting. `Daemon` has them, one
  process at a time, and the theorems on `Session` are for any number of them, but
  for `InputsActInOrder`.
* The receiver of a file and the exchange of clipboard payloads between
  machines: no code of the repository does either.

## 7. Plan

Done, in this order: `SessionState`, `Daemon`, `Hotkeys`, `UdpDelta`,
`Session`, `Topology`, `Pointer`, `Clipboard` and `FileDrop`, with their runs and
proofs.

To extend the model: a capturer and injector that keep their own positions
(`LAST_PT`, `current_x`); keys that are down across a switch of machines.

To prove more: that `Daemon` with its locks implements the one-step handlers of
`Session`'s machine.
