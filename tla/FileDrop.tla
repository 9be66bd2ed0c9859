------------------------------ MODULE FileDrop ------------------------------
(***************************************************************************)
(* FileDropTransfer::read_chunks_and_send of kvm-clipboard/src/lib.rs:     *)
(* tasks that each send the file at a path as an Init message with its     *)
(* size and hash, its chunks and a Done message, all into one channel.     *)
(*                                                                         *)
(* The file is read twice, block by block, and opened anew in between.     *)
(* Meanwhile other programs write into it, put another file in its place   *)
(* or remove it.  A block is what one read into the 64 KB buffer returns,  *)
(* sizes and offsets are counted in blocks, and the hash of a content is   *)
(* that content.  The receiver takes messages, until it closes the         *)
(* channel, and is not in the repository: Accepted says what a receiver    *)
(* that compares size and hash, as the error ChecksumMismatch foresees,    *)
(* makes of the messages.                                                  *)
(***************************************************************************)
EXTENDS Naturals, Sequences

CONSTANTS
    Transfers,    \* the transfers, by transfer_id
    Contents,     \* the contents the file may have
    None,         \* no file, no block
    Capacity,     \* of the channel
    MaxChanges    \* bound on the changes of the file, for TLC

Blocks == UNION {{c[k] : k \in DOMAIN c} : c \in Contents}

ASSUME FileDropAssumption ==
    /\ \A c \in Contents : c \in Seq(Blocks)
    /\ None \notin Contents /\ None \notin Blocks
    /\ Capacity \in Nat \ {0} /\ MaxChanges \in Nat

\* A path leads to one of these files, numbered in the order they are put there.
Files == 1 .. (MaxChanges + 1)

VARIABLES
    disk,          \* [Files -> Contents], the content of each file
    path,          \* the file at the path, or 0
    changes,       \* how often other programs changed the file or the path
    task,          \* [Transfers -> program point]
    file,          \* [Transfers -> Files], the file a transfer has open
    position,      \* [Transfers -> Nat], and how far it has read
    total_size,    \* metadata.len()
    hasher,        \* the blocks hashed so far
    buffer,        \* the block read last
    offset,        \* the offset of the next chunk
    waiting,       \* the number of messages in the channel
    closed,        \* the receiver has closed the channel
    sent,          \* history: the messages put into the channel, by transfer
    had,           \* history: the contents the file at the path has had
    stable,        \* history: no change since the transfer opened the file
    written        \* history: and how often a program has written into it since

drive == <<disk, path, changes, had>>
channel == <<waiting, closed, sent>>
vars == <<disk, path, changes, task, file, position, total_size, hasher, buffer, offset,
          waiting, closed, sent, had, stable, written>>

Tasks == {"idle", "open", "metadata", "hash", "reopen", "init", "read", "chunk", "done",
          "ok", "error"}

Messages ==
    [kind : {"Init"}, total_size : Nat, sha256 : Seq(Blocks)]
    \cup [kind : {"Chunk"}, offset : Nat, data : Blocks]
    \cup [kind : {"Done"}]

-----------------------------------------------------------------------------
(* Other programs.                                                          *)

Changed ==
    /\ changes < MaxChanges
    /\ changes' = changes + 1
    /\ stable' = [t \in Transfers |-> FALSE]
    /\ UNCHANGED <<task, file, position, total_size, hasher, buffer, offset, channel>>

\* A program writes into the file: whoever has it open reads the new content.
WriteFile(c) ==
    /\ Changed /\ path # 0
    /\ disk' = [disk EXCEPT ![path] = c]
    /\ had' = had \cup {c}
    /\ written' = [t \in Transfers |-> written[t] + 1]
    /\ UNCHANGED path

\* A program puts another file at the path, as most programs save a file.
ReplaceFile(c) ==
    /\ Changed
    /\ path' = changes + 2
    /\ disk' = [disk EXCEPT ![path'] = c]
    /\ had' = had \cup {c}
    /\ UNCHANGED written

RemoveFile ==
    /\ Changed /\ path # 0
    /\ path' = 0
    /\ UNCHANGED <<disk, had, written>>

-----------------------------------------------------------------------------
(* A transfer.                                                              *)

Goto(t, from, to) == task[t] = from /\ task' = [task EXCEPT ![t] = to]

\* read_chunks_and_send is called.
Start(t) ==
    /\ Goto(t, "idle", "open")
    /\ UNCHANGED <<drive, file, position, total_size, hasher, buffer, offset, channel,
                   stable, written>>

\* File::open(path).
Open(t) ==
    /\ path # 0
    /\ Goto(t, "open", "metadata")
    /\ file' = [file EXCEPT ![t] = path]
    /\ position' = [position EXCEPT ![t] = 0]
    /\ stable' = [stable EXCEPT ![t] = TRUE]
    /\ written' = [written EXCEPT ![t] = 0]
    /\ UNCHANGED <<drive, total_size, hasher, buffer, offset, channel>>

Metadata(t) ==
    /\ Goto(t, "metadata", "hash")
    /\ total_size' = [total_size EXCEPT ![t] = Len(disk[file[t]])]
    /\ UNCHANGED <<drive, file, position, hasher, buffer, offset, channel, stable, written>>

AtEnd(t) == position[t] >= Len(disk[file[t]])
NextBlock(t) == disk[file[t]][position[t] + 1]

\* A read of the loop that calculates the hash.
HashBlock(t) ==
    /\ task[t] = "hash" /\ ~AtEnd(t)
    /\ hasher' = [hasher EXCEPT ![t] = Append(@, NextBlock(t))]
    /\ position' = [position EXCEPT ![t] = @ + 1]
    /\ UNCHANGED <<drive, task, file, total_size, buffer, offset, channel, stable, written>>

HashEnd(t) ==
    /\ AtEnd(t) /\ Goto(t, "hash", "reopen")
    /\ UNCHANGED <<drive, file, position, total_size, hasher, buffer, offset, channel,
                   stable, written>>

\* Variant: the file that is open is used again where the hash loop left it.
ReopenNot(t) ==
    /\ path # 0
    /\ Goto(t, "reopen", "init")
    /\ UNCHANGED <<drive, file, position, total_size, hasher, buffer, offset, channel,
                   stable, written>>

\* The second File::open(path).
Reopen(t) ==
    /\ path # 0
    /\ Goto(t, "reopen", "init")
    /\ file' = [file EXCEPT ![t] = path]
    /\ position' = [position EXCEPT ![t] = 0]
    /\ UNCHANGED <<drive, total_size, hasher, buffer, offset, channel, stable, written>>

\* An open or a read fails, as an open does when there is no file: the function
\* returns the error and sends nothing more.
Fail(t) ==
    /\ task[t] \in {"open", "metadata", "hash", "reopen", "read"}
    /\ task' = [task EXCEPT ![t] = "error"]
    /\ UNCHANGED <<drive, file, position, total_size, hasher, buffer, offset, channel,
                   stable, written>>

\* Variant: a send to a closed channel waits for room.
SendOnly(t, m) ==
    /\ ~closed /\ waiting < Capacity
    /\ waiting' = waiting + 1
    /\ sent' = [sent EXCEPT ![t] = Append(@, m)]
    /\ UNCHANGED closed

\* Variant: a send does not wait for room.
SendAlways(t, m) ==
    /\ IF closed THEN UNCHANGED <<waiting, sent>>
                 ELSE waiting' = waiting + 1 /\ sent' = [sent EXCEPT ![t] = Append(@, m)]
    /\ UNCHANGED closed

\* sender.send(..).await waits for room; its error, of a channel that has been
\* closed, is ignored.
Send(t, m) ==
    /\ \/ /\ ~closed /\ waiting < Capacity
          /\ waiting' = waiting + 1
          /\ sent' = [sent EXCEPT ![t] = Append(@, m)]
       \/ closed /\ UNCHANGED <<waiting, sent>>
    /\ UNCHANGED closed

SendInit(t) ==
    /\ Goto(t, "init", "read")
    /\ Send(t, [kind |-> "Init", total_size |-> total_size[t], sha256 |-> hasher[t]])
    /\ UNCHANGED <<drive, file, position, total_size, hasher, buffer, offset, stable, written>>

\* Variant: the blocks that were hashed are kept and sent.
ReadHashed(t) ==
    /\ position[t] < Len(hasher[t]) /\ Goto(t, "read", "chunk")
    /\ buffer' = [buffer EXCEPT ![t] = hasher[t][position[t] + 1]]
    /\ position' = [position EXCEPT ![t] = @ + 1]
    /\ UNCHANGED <<drive, file, total_size, hasher, offset, channel, stable, written>>

\* A read of the loop that sends the chunks.
ReadBlock(t) ==
    /\ ~AtEnd(t) /\ Goto(t, "read", "chunk")
    /\ buffer' = [buffer EXCEPT ![t] = NextBlock(t)]
    /\ position' = [position EXCEPT ![t] = @ + 1]
    /\ UNCHANGED <<drive, file, total_size, hasher, offset, channel, stable, written>>

\* Variant: the offset is not moved.
SendChunkHere(t) ==
    /\ Goto(t, "chunk", "read")
    /\ Send(t, [kind |-> "Chunk", offset |-> offset[t], data |-> buffer[t]])
    /\ UNCHANGED <<drive, file, position, total_size, hasher, buffer, offset, stable, written>>

SendChunk(t) ==
    /\ Goto(t, "chunk", "read")
    /\ Send(t, [kind |-> "Chunk", offset |-> offset[t], data |-> buffer[t]])
    /\ offset' = [offset EXCEPT ![t] = @ + 1]
    /\ UNCHANGED <<drive, file, position, total_size, hasher, buffer, stable, written>>

ReadEnd(t) ==
    /\ AtEnd(t) /\ Goto(t, "read", "done")
    /\ UNCHANGED <<drive, file, position, total_size, hasher, buffer, offset, channel,
                   stable, written>>

SendDone(t) ==
    /\ Goto(t, "done", "ok")
    /\ Send(t, [kind |-> "Done"])
    /\ UNCHANGED <<drive, file, position, total_size, hasher, buffer, offset, stable, written>>

\* What the task does once it has been called.
Step(t) ==
    \/ Open(t) \/ Metadata(t) \/ HashBlock(t) \/ HashEnd(t) \/ Reopen(t)
    \/ SendInit(t) \/ ReadBlock(t) \/ SendChunk(t) \/ ReadEnd(t) \/ SendDone(t)
    \/ Fail(t)

-----------------------------------------------------------------------------
(* The receiver.                                                            *)

Take ==
    /\ ~closed /\ waiting > 0
    /\ waiting' = waiting - 1
    /\ UNCHANGED <<drive, task, file, position, total_size, hasher, buffer, offset,
                   closed, sent, stable, written>>

Close ==
    /\ ~closed /\ closed' = TRUE
    /\ UNCHANGED <<drive, task, file, position, total_size, hasher, buffer, offset,
                   waiting, sent, stable, written>>

Init ==
    /\ \E c \in Contents : disk = [f \in Files |-> c] /\ had = {c}
    /\ path = 1 /\ changes = 0
    /\ task = [t \in Transfers |-> "idle"]
    /\ file = [t \in Transfers |-> 1] /\ position = [t \in Transfers |-> 0]
    /\ total_size = [t \in Transfers |-> 0] /\ hasher = [t \in Transfers |-> <<>>]
    /\ buffer = [t \in Transfers |-> None] /\ offset = [t \in Transfers |-> 0]
    /\ waiting = 0 /\ closed = FALSE /\ sent = [t \in Transfers |-> <<>>]
    /\ stable = [t \in Transfers |-> FALSE] /\ written = [t \in Transfers |-> 0]

Next ==
    \/ \E c \in Contents : WriteFile(c) \/ ReplaceFile(c)
    \/ RemoveFile
    \/ \E t \in Transfers : Start(t) \/ Step(t)
    \/ Take \/ Close

\* A task that has been called goes on, and the receiver takes what is there
\* until it closes the channel.
Spec ==
    /\ Init /\ [][Next]_vars
    /\ \A t \in Transfers : WF_vars(Step(t))
    /\ WF_vars(Take)

-----------------------------------------------------------------------------
(* Properties.                                                              *)

\* Every variable has its type; the channel never holds more than it can.
TypeOK ==
    /\ disk \in [Files -> Contents] /\ path \in Files \cup {0} /\ changes \in 0 .. MaxChanges
    /\ task \in [Transfers -> Tasks]
    /\ file \in [Transfers -> Files] /\ position \in [Transfers -> Nat]
    /\ total_size \in [Transfers -> Nat] /\ hasher \in [Transfers -> Seq(Blocks)]
    /\ buffer \in [Transfers -> Blocks \cup {None}] /\ offset \in [Transfers -> Nat]
    /\ waiting \in 0 .. Capacity /\ closed \in BOOLEAN
    /\ sent \in [Transfers -> Seq(Messages)]
    /\ had \subseteq Contents /\ stable \in [Transfers -> BOOLEAN]
    /\ written \in [Transfers -> Nat]

\* The messages of a transfer are an Init, chunks that follow each other without
\* a gap from offset 0 on, and a Done; or the beginning of that.
InOrder ==
    \A t \in Transfers : \A k \in 1 .. Len(sent[t]) :
        LET m == sent[t][k] IN
        /\ m.kind = "Init" <=> k = 1
        /\ m.kind = "Done" => k = Len(sent[t])
        /\ m.kind = "Chunk" => m.offset = k - 2

Complete(t) == sent[t] # <<>> /\ sent[t][Len(sent[t])].kind = "Done"

\* What the chunks of a complete transfer amount to.
Received(t) == [k \in 1 .. (Len(sent[t]) - 2) |-> sent[t][k + 1].data]

Accepted(t) ==
    /\ Complete(t)
    /\ sent[t][1].total_size = Len(Received(t))
    /\ sent[t][1].sha256 = Received(t)

\* A file that nobody changes arrives: if a transfer says Done and the file did
\* not change since the transfer opened it, the chunks have the announced size
\* and hash, although they come from a second reading.
UnchangedIsAccepted ==
    \A t \in Transfers : Complete(t) /\ stable[t] => Accepted(t)

\* What is accepted is the file as it was at some moment, as long as no program
\* has written into it more than once since the transfer opened it, however often
\* it was replaced or removed: one of the two readings saw a single content.
\* (Two writes, one into each reading, may show both the same mixture.)
AcceptedExisted ==
    \A t \in Transfers : Accepted(t) /\ written[t] <= 1 => Received(t) \in had

\* A transfer that has been called returns, with an error or without, even when
\* the receiver has gone.
TransfersReturn ==
    \A t \in Transfers : task[t] = "open" ~> task[t] \in {"ok", "error"}
=============================================================================
