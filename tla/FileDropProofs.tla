-------------------------- MODULE FileDropProofs ---------------------------
(***************************************************************************)
(* For any number of transfers, any contents and any channel: the messages *)
(* of a transfer keep their order, and a file that does not change is      *)
(* accepted.                                                               *)
(***************************************************************************)
EXTENDS FileDrop, SequenceTheorems, TLAPS

Early == {"idle", "open", "metadata", "hash", "reopen", "init"}
Hashed == {"reopen", "init", "read", "chunk", "done", "ok"}

InitMessage(t) == [kind |-> "Init", total_size |-> total_size[t], sha256 |-> hasher[t]]
ChunkMessage(t) == [kind |-> "Chunk", offset |-> offset[t], data |-> buffer[t]]
DoneMessage == [kind |-> "Done"]

Ordered(t) ==
    \A k \in 1 .. Len(sent[t]) :
        /\ sent[t][k].kind = "Init" <=> k = 1
        /\ sent[t][k].kind = "Done" => k = Len(sent[t])
        /\ sent[t][k].kind = "Chunk" => sent[t][k].offset = k - 2

\* Where a transfer is tells what it has sent: while the receiver listens, the
\* Init and one chunk for each step of the offset.
SentSoFar(t) ==
    /\ task[t] \in Early => sent[t] = <<>> /\ offset[t] = 0
    /\ task[t] \in {"idle", "open", "metadata"} => hasher[t] = <<>>
    /\ ~closed /\ task[t] \in {"read", "chunk", "done"} => Len(sent[t]) = offset[t] + 1
    /\ sent[t] # <<>> => sent[t][1] = InitMessage(t)
    /\ task[t] = "chunk" => buffer[t] \in Blocks
    /\ Complete(t) => task[t] = "ok"

\* While the file does not change, a transfer reads one and the same content.
ReadSoFar(t) ==
    LET c == disk[file[t]] IN
    /\ task[t] \notin {"idle", "open"}
    /\ path # 0 /\ file[t] = path
    /\ task[t] = "metadata" => position[t] = 0
    /\ task[t] = "hash" => /\ total_size[t] = Len(c) /\ position[t] <= Len(c)
                           /\ hasher[t] = SubSeq(c, 1, position[t])
    /\ task[t] \in Hashed => total_size[t] = Len(c) /\ hasher[t] = c
    /\ task[t] = "init" => position[t] = 0
    /\ task[t] = "read" => position[t] = offset[t] /\ offset[t] <= Len(c)
    /\ task[t] = "chunk" => /\ position[t] = offset[t] + 1 /\ position[t] <= Len(c)
                            /\ buffer[t] = c[position[t]]
    /\ task[t] = "done" => offset[t] = Len(c)
    /\ \A k \in 2 .. Len(sent[t]) : sent[t][k].kind = "Chunk" => sent[t][k].data = c[k - 1]
    /\ Complete(t) => Len(sent[t]) = Len(c) + 2

Good(t) == Ordered(t) /\ SentSoFar(t) /\ (stable[t] => ReadSoFar(t))

FileInv == TypeOK /\ \A t \in Transfers : Good(t)

LEMMA InOrderIsOrdered == InOrder <=> \A t \in Transfers : Ordered(t)
BY DEF InOrder, Ordered

LEMMA ContentTypes ==
    ASSUME TypeOK, NEW t \in Transfers
    PROVE  /\ disk[file[t]] \in Seq(Blocks)
           /\ Len(disk[file[t]]) \in Nat
BY FileDropAssumption DEF TypeOK

LEMMA MessageTypes ==
    ASSUME TypeOK, NEW t \in Transfers
    PROVE  /\ InitMessage(t) \in Messages
           /\ buffer[t] \in Blocks => ChunkMessage(t) \in Messages
           /\ DoneMessage \in Messages
           /\ \A m \in Messages : m.kind \in {"Init", "Chunk", "Done"}
BY DEF TypeOK, Messages, InitMessage, ChunkMessage, DoneMessage

LEMMA PrefixGrows ==
    ASSUME NEW S, NEW s \in Seq(S), NEW p \in Nat, p < Len(s)
    PROVE  Append(SubSeq(s, 1, p), s[p + 1]) = SubSeq(s, 1, p + 1)
<1> DEFINE before == SubSeq(s, 1, p)
           after == SubSeq(s, 1, p + 1)
           grown == Append(before, s[p + 1])
<1>1. \A i \in 1 .. p + 1 : s[i] \in S
  OBVIOUS
<1>2. before \in Seq(S) /\ Len(before) = p /\ \A i \in 1 .. p : before[i] = s[i]
  BY <1>1, SubSeqProperties
<1>3. after \in Seq(S) /\ Len(after) = p + 1 /\ \A i \in 1 .. p + 1 : after[i] = s[i]
  BY <1>1, SubSeqProperties
<1>4. /\ grown \in Seq(S) /\ Len(grown) = p + 1 /\ grown[p + 1] = s[p + 1]
      /\ \A i \in 1 .. p : grown[i] = before[i]
  BY <1>1, <1>2, AppendProperties
<1>5. \A i \in 1 .. p + 1 : grown[i] = after[i]
  BY <1>2, <1>3, <1>4
<1> QED
  BY <1>3, <1>4, <1>5, SeqEqual

\* What a step of one transfer leaves alone for the others.
Untouched(u) ==
    /\ task'[u] = task[u] /\ file'[u] = file[u] /\ position'[u] = position[u]
    /\ total_size'[u] = total_size[u] /\ hasher'[u] = hasher[u]
    /\ buffer'[u] = buffer[u] /\ offset'[u] = offset[u]
    /\ sent'[u] = sent[u] /\ stable'[u] = stable[u] /\ written'[u] = written[u]

LEMMA UntouchedStaysGood ==
    ASSUME NEW u \in Transfers, Good(u), Untouched(u), UNCHANGED <<drive, closed>>
    PROVE  Good(u)'
<1> USE DEF Untouched, drive
<1>1. Ordered(u)'
  BY DEF Good, Ordered
<1>2. Complete(u)' = Complete(u)
  BY DEF Complete
<1>3. SentSoFar(u)'
  BY <1>2 DEF Good, SentSoFar, InitMessage
<1>4. stable'[u] => ReadSoFar(u)'
  BY <1>2 DEF Good, ReadSoFar
<1> QED
  BY <1>1, <1>3, <1>4 DEF Good

LEMMA FileInit == Init => FileInv
<1> SUFFICES ASSUME Init PROVE FileInv
  OBVIOUS
<1>1. TypeOK
  <2>1. PICK c \in Contents : disk = [f \in Files |-> c] /\ had = {c}
    BY DEF Init
  <2>2. disk \in [Files -> Contents] /\ had \subseteq Contents
    BY <2>1
  <2>3. 1 \in Files
    BY FileDropAssumption DEF Files
  <2>4. /\ hasher \in [Transfers -> Seq(Blocks)] /\ sent \in [Transfers -> Seq(Messages)]
        /\ task \in [Transfers -> Tasks]
    BY DEF Init, Tasks
  <2>7. /\ stable \in [Transfers -> BOOLEAN] /\ closed \in BOOLEAN
        /\ written \in [Transfers -> Nat]
    BY DEF Init
  <2>5. /\ file \in [Transfers -> Files] /\ position \in [Transfers -> Nat]
        /\ total_size \in [Transfers -> Nat] /\ buffer \in [Transfers -> Blocks \cup {None}]
        /\ offset \in [Transfers -> Nat]
    BY <2>3 DEF Init
  <2>6. path \in Files \cup {0} /\ changes \in 0 .. MaxChanges /\ waiting \in 0 .. Capacity
    BY <2>3, FileDropAssumption DEF Init
  <2> QED
    BY <2>2, <2>4, <2>5, <2>6, <2>7 DEF TypeOK
<1>2. ASSUME NEW t \in Transfers PROVE Good(t)
  <2>1. sent[t] = <<>> /\ task[t] = "idle" /\ offset[t] = 0 /\ hasher[t] = <<>> /\ ~stable[t]
    BY DEF Init
  <2> QED
    BY <2>1 DEF Good, Ordered, SentSoFar, Complete, Early
<1> QED
  BY <1>1, <1>2 DEF FileInv

\* A change of the file by another program: no transfer can count on it any more.
LEMMA ChangeStep ==
    ASSUME FileInv, Changed, disk' \in [Files -> Contents], path' \in Files \cup {0},
           had' \subseteq Contents, written' \in [Transfers -> Nat]
    PROVE  FileInv'
<1>1. TypeOK'
  <2>1. changes' \in 0 .. MaxChanges
    BY FileDropAssumption DEF Changed, FileInv, TypeOK
  <2>2. stable' \in [Transfers -> BOOLEAN]
    BY DEF Changed
  <2> QED
    BY <2>1, <2>2 DEF Changed, FileInv, TypeOK, channel
<1>2. ASSUME NEW t \in Transfers PROVE Good(t)'
  <2>1. /\ UNCHANGED <<task, file, position, total_size, hasher, buffer, offset, waiting,
                       closed, sent>>
        /\ ~stable'[t]
    BY DEF Changed, channel
  <2>2. Good(t)
    BY DEF FileInv
  <2>3. Ordered(t)'
    BY <2>1, <2>2 DEF Good, Ordered
  <2>4. SentSoFar(t)'
    BY <2>1, <2>2 DEF Good, SentSoFar, Complete, InitMessage
  <2> QED
    BY <2>1, <2>3, <2>4 DEF Good
<1> QED
  BY <1>1, <1>2 DEF FileInv

LEMMA OthersStep ==
    ASSUME FileInv,
           \/ \E c \in Contents : WriteFile(c) \/ ReplaceFile(c)
           \/ RemoveFile
    PROVE  FileInv'
<1> USE DEF FileInv, TypeOK
<1>1. ASSUME NEW c \in Contents, WriteFile(c) PROVE FileInv'
  <2>1. /\ Changed /\ disk' \in [Files -> Contents] /\ path' \in Files \cup {0}
        /\ had' \subseteq Contents /\ written' \in [Transfers -> Nat]
    BY <1>1 DEF WriteFile
  <2> QED
    BY <2>1, ChangeStep
<1>2. ASSUME NEW c \in Contents, ReplaceFile(c) PROVE FileInv'
  <2>1. changes + 2 \in Files
    BY <1>2, FileDropAssumption DEF ReplaceFile, Changed, Files
  <2>2. /\ Changed /\ disk' \in [Files -> Contents] /\ path' \in Files \cup {0}
        /\ had' \subseteq Contents /\ written' \in [Transfers -> Nat]
    BY <1>2, <2>1 DEF ReplaceFile
  <2> QED
    BY <2>2, ChangeStep
<1>3. CASE RemoveFile
  <2>1. /\ Changed /\ disk' \in [Files -> Contents] /\ path' \in Files \cup {0}
        /\ had' \subseteq Contents /\ written' \in [Transfers -> Nat]
    BY <1>3 DEF RemoveFile
  <2> QED
    BY <2>1, ChangeStep
<1> QED
  BY <1>1, <1>2, <1>3

LEMMA ReceiverStep ==
    ASSUME FileInv, Take \/ Close
    PROVE  FileInv'
<1>1. /\ UNCHANGED <<drive, task, file, position, total_size, hasher, buffer, offset, sent,
                   stable, written>>
      /\ closed' \in BOOLEAN /\ waiting' \in 0 .. Capacity
      /\ closed => closed'
  <2>1. CASE Take
    <3>1. waiting' \in 0 .. Capacity
      BY <2>1, FileDropAssumption DEF FileInv, TypeOK, Take
    <3> QED
      BY <2>1, <3>1 DEF Take, FileInv, TypeOK
  <2>2. CASE Close
    <3>1. closed' = TRUE
      BY <2>2 DEF Close
    <3> QED
      BY <2>2, <3>1 DEF Close, FileInv, TypeOK
  <2> QED
    BY <2>1, <2>2
<1>2. TypeOK'
  BY <1>1 DEF FileInv, TypeOK, drive
<1>3. ASSUME NEW t \in Transfers PROVE Good(t)'
  <2>1. Good(t)
    BY DEF FileInv
  <2>2. Ordered(t)'
    BY <1>1, <2>1 DEF Good, Ordered
  <2>3. SentSoFar(t)'
    BY <1>1, <2>1 DEF Good, SentSoFar, Complete, InitMessage
  <2>4. stable'[t] => ReadSoFar(t)'
    BY <1>1, <2>1 DEF Good, ReadSoFar, Complete, drive
  <2> QED
    BY <2>2, <2>3, <2>4 DEF Good
<1> QED
  BY <1>2, <1>3 DEF FileInv

LEMMA OneTransferSteps ==
    ASSUME FileInv, NEW t \in Transfers, TypeOK', Good(t)',
           \A u \in Transfers \ {t} : Untouched(u),
           UNCHANGED <<drive, closed>>
    PROVE  FileInv'
<1>1. ASSUME NEW u \in Transfers PROVE Good(u)'
  <2>1. CASE u = t
    BY <2>1
  <2>2. CASE u # t
    BY <2>2, UntouchedStaysGood DEF FileInv
  <2> QED
    BY <2>1, <2>2
<1> QED
  BY <1>1 DEF FileInv

\* The steps that send nothing leave what was sent in order.
LEMMA QuietStep ==
    ASSUME FileInv, NEW t \in Transfers, UNCHANGED <<sent, closed>>,
           UNCHANGED <<total_size, hasher>> \/ task[t] \in Early,
           task[t] # "ok"
    PROVE  /\ Ordered(t)'
           /\ Complete(t)' = Complete(t) /\ ~Complete(t)
           /\ sent'[t] # <<>> => sent'[t][1] = InitMessage(t)'
<1>1. Good(t)
  BY DEF FileInv
<1> QED
  BY <1>1 DEF Good, Ordered, SentSoFar, Complete, InitMessage

LEMMA OpenStep ==
    ASSUME FileInv, NEW t \in Transfers, Start(t) \/ Open(t) \/ Metadata(t) \/ Fail(t)
    PROVE  FileInv'
<1> USE DEF FileInv, TypeOK
<1>1. Good(t) /\ disk[file[t]] \in Seq(Blocks) /\ Len(disk[file[t]]) \in Nat
  BY ContentTypes
<1>2. CASE Start(t)
  <2>1. TypeOK' /\ \A u \in Transfers \ {t} : Untouched(u)
    BY <1>2 DEF Start, Goto, Tasks, drive, channel, Untouched
  <2>2. /\ task[t] = "idle" /\ task'[t] = "open" /\ UNCHANGED <<drive, channel>>
        /\ UNCHANGED <<position, hasher, offset, total_size, stable, written>>
    BY <1>2 DEF Start, Goto
  <2>3. SentSoFar(t)' /\ ~stable'[t]
    BY <1>1, <2>2 DEF Good, SentSoFar, ReadSoFar, Complete, channel, Early
  <2>4. Ordered(t)'
    BY <1>1, <2>2 DEF Good, Ordered, channel
  <2> QED
    BY <2>1, <2>2, <2>3, <2>4, OneTransferSteps DEF Good, channel
<1>3. CASE Open(t)
  <2>1. TypeOK' /\ \A u \in Transfers \ {t} : Untouched(u)
    BY <1>3 DEF Open, Goto, Tasks, drive, channel, Untouched
  <2>2. /\ task[t] = "open" /\ task'[t] = "metadata" /\ UNCHANGED <<drive, channel>>
        /\ path # 0 /\ file'[t] = path /\ position'[t] = 0
        /\ UNCHANGED <<hasher, offset, total_size>>
    BY <1>3 DEF Open, Goto
  <2>3. SentSoFar(t)' /\ sent'[t] = <<>>
    BY <1>1, <2>2 DEF Good, SentSoFar, Complete, channel, Early
  <2>4. Ordered(t)'
    BY <2>3 DEF Ordered
  <2>5. ReadSoFar(t)'
    BY <2>2, <2>3 DEF ReadSoFar, Complete, drive, Hashed
  <2> QED
    BY <2>1, <2>2, <2>3, <2>4, <2>5, OneTransferSteps DEF Good, channel
<1>4. CASE Metadata(t)
  <2>1. TypeOK' /\ \A u \in Transfers \ {t} : Untouched(u)
    BY <1>1, <1>4 DEF Metadata, Goto, Tasks, drive, channel, Untouched
  <2>2. /\ task[t] = "metadata" /\ task'[t] = "hash" /\ UNCHANGED <<drive, channel>>
        /\ total_size'[t] = Len(disk[file[t]])
        /\ UNCHANGED <<file, position, hasher, offset, stable, written>>
    BY <1>4 DEF Metadata, Goto
  <2>3. SentSoFar(t)' /\ sent'[t] = <<>> /\ hasher[t] = <<>>
    BY <1>1, <2>2 DEF Good, SentSoFar, Complete, channel, Early
  <2>4. Ordered(t)'
    BY <2>3 DEF Ordered
  <2>5. stable'[t] => ReadSoFar(t)'
    BY <1>1, <2>2, <2>3 DEF Good, ReadSoFar, Complete, drive, Hashed
  <2> QED
    BY <2>1, <2>2, <2>3, <2>4, <2>5, OneTransferSteps DEF Good, channel
<1>5. CASE Fail(t)
  <2>1. TypeOK' /\ \A u \in Transfers \ {t} : Untouched(u)
    BY <1>5 DEF Fail, Tasks, drive, channel, Untouched
  <2>2. /\ task[t] \in {"open", "metadata", "hash", "reopen", "read"} /\ task'[t] = "error"
        /\ UNCHANGED <<drive, channel>>
        /\ UNCHANGED <<file, position, hasher, buffer, offset, total_size, stable, written>>
    BY <1>5 DEF Fail
  <2>3. /\ Ordered(t)' /\ ~Complete(t)'
        /\ sent'[t] # <<>> => sent'[t][1] = InitMessage(t)'
    BY <2>2, QuietStep DEF channel
  <2>4. SentSoFar(t)'
    BY <2>2, <2>3 DEF SentSoFar, Early
  <2>5. stable'[t] => ReadSoFar(t)'
    BY <1>1, <2>2, <2>3 DEF Good, ReadSoFar, drive, channel, Hashed
  <2> QED
    BY <2>1, <2>2, <2>3, <2>4, <2>5, OneTransferSteps DEF Good, channel
<1> QED
  BY <1>2, <1>3, <1>4, <1>5

LEMMA HashStep ==
    ASSUME FileInv, NEW t \in Transfers, HashBlock(t) \/ HashEnd(t) \/ Reopen(t)
    PROVE  FileInv'
<1> DEFINE c == disk[file[t]]
<1>1. Good(t) /\ c \in Seq(Blocks) /\ Len(c) \in Nat /\ position[t] \in Nat
  BY ContentTypes DEF FileInv, TypeOK
<1>2. CASE HashBlock(t)
  <2>1. /\ task[t] = "hash" /\ position[t] < Len(c) /\ UNCHANGED <<drive, channel>>
        /\ hasher' = [hasher EXCEPT ![t] = Append(hasher[t], c[position[t] + 1])]
        /\ position' = [position EXCEPT ![t] = position[t] + 1]
        /\ UNCHANGED <<task, file, total_size, buffer, offset, stable, written>>
    BY <1>1, <1>2 DEF HashBlock, AtEnd, NextBlock
  <2>2. c[position[t] + 1] \in Blocks
    BY <1>1, <2>1
  <2>3. hasher' \in [Transfers -> Seq(Blocks)] /\ position' \in [Transfers -> Nat]
    BY <1>1, <2>1, <2>2 DEF FileInv, TypeOK
  <2>4. TypeOK' /\ \A u \in Transfers \ {t} : Untouched(u)
    BY <2>1, <2>3 DEF FileInv, TypeOK, drive, channel, Untouched
  <2>5. sent'[t] = <<>> /\ SentSoFar(t)'
    BY <1>1, <2>1 DEF Good, SentSoFar, Complete, channel, Early
  <2>6. Ordered(t)'
    BY <2>5 DEF Ordered
  <2>7. ASSUME stable'[t] PROVE ReadSoFar(t)'
    <3>1. /\ path # 0 /\ file[t] = path /\ total_size[t] = Len(c)
          /\ hasher[t] = SubSeq(c, 1, position[t])
      BY <1>1, <2>1, <2>7 DEF Good, ReadSoFar
    <3>2. hasher'[t] = Append(SubSeq(c, 1, position[t]), c[position[t] + 1])
      BY <2>1, <3>1 DEF FileInv, TypeOK
    <3>3. hasher'[t] = SubSeq(c, 1, position[t] + 1)
      BY <1>1, <2>1, <3>2, PrefixGrows
    <3>4. position'[t] = position[t] + 1 /\ position'[t] <= Len(c)
      BY <1>1, <2>1 DEF FileInv, TypeOK
    <3>5. task'[t] = "hash" /\ path' = path /\ file'[t] = file[t] /\ disk' = disk
          /\ total_size'[t] = total_size[t]
      BY <2>1 DEF drive
    <3>6. hasher'[t] = SubSeq(disk'[file'[t]], 1, position'[t])
      BY <3>3, <3>4, <3>5
    <3> QED
      BY <2>5, <3>1, <3>4, <3>5, <3>6 DEF ReadSoFar, Complete, Hashed
  <2> QED
    BY <2>1, <2>4, <2>5, <2>6, <2>7, OneTransferSteps DEF Good, channel
<1>3. CASE HashEnd(t)
  <2>1. /\ task[t] = "hash" /\ task' = [task EXCEPT ![t] = "reopen"]
        /\ position[t] >= Len(c) /\ UNCHANGED <<drive, channel>>
        /\ UNCHANGED <<file, position, total_size, hasher, buffer, offset, stable, written>>
    BY <1>1, <1>3 DEF HashEnd, Goto, AtEnd
  <2>2. TypeOK' /\ task'[t] = "reopen" /\ \A u \in Transfers \ {t} : Untouched(u)
    BY <2>1 DEF FileInv, TypeOK, drive, channel, Untouched, Tasks
  <2>3. sent'[t] = <<>> /\ SentSoFar(t)'
    BY <1>1, <2>1, <2>2 DEF Good, SentSoFar, Complete, channel, Early
  <2>4. Ordered(t)'
    BY <2>3 DEF Ordered
  <2>5. ASSUME stable'[t] PROVE ReadSoFar(t)'
    <3>1. /\ path # 0 /\ file[t] = path /\ total_size[t] = Len(c)
          /\ position[t] <= Len(c) /\ hasher[t] = SubSeq(c, 1, position[t])
      BY <1>1, <2>1, <2>5 DEF Good, ReadSoFar
    <3>2. hasher[t] = c
      BY <1>1, <2>1, <3>1
    <3> QED
      BY <2>1, <2>2, <2>3, <3>1, <3>2 DEF ReadSoFar, Complete, drive, Hashed
  <2> QED
    BY <2>1, <2>2, <2>3, <2>4, <2>5, OneTransferSteps DEF Good, channel
<1>4. CASE Reopen(t)
  <2>1. /\ task[t] = "reopen" /\ task' = [task EXCEPT ![t] = "init"] /\ path # 0
        /\ file' = [file EXCEPT ![t] = path] /\ position' = [position EXCEPT ![t] = 0]
        /\ UNCHANGED <<drive, channel, total_size, hasher, buffer, offset, stable, written>>
    BY <1>4 DEF Reopen, Goto
  <2>2. /\ TypeOK' /\ task'[t] = "init" /\ file'[t] = path /\ position'[t] = 0
        /\ \A u \in Transfers \ {t} : Untouched(u)
    BY <2>1 DEF FileInv, TypeOK, drive, channel, Untouched, Tasks
  <2>3. sent'[t] = <<>> /\ SentSoFar(t)'
    BY <1>1, <2>1, <2>2 DEF Good, SentSoFar, Complete, channel, Early
  <2>4. Ordered(t)'
    BY <2>3 DEF Ordered
  <2>5. stable'[t] => ReadSoFar(t)'
    BY <1>1, <2>1, <2>2, <2>3 DEF Good, ReadSoFar, Complete, drive, Hashed
  <2> QED
    BY <2>1, <2>2, <2>3, <2>4, <2>5, OneTransferSteps DEF Good, channel
<1> QED
  BY <1>2, <1>3, <1>4

\* A message that is sent is the last one, or is not there at all.
LEMMA SendStep ==
    ASSUME FileInv, NEW t \in Transfers, NEW m \in Messages, Send(t, m)
    PROVE  /\ waiting' \in 0 .. Capacity /\ closed' = closed
           /\ sent' \in [Transfers -> Seq(Messages)]
           /\ \A u \in Transfers \ {t} : sent'[u] = sent[u]
           /\ closed => sent'[t] = sent[t]
           /\ ~closed => /\ Len(sent'[t]) = Len(sent[t]) + 1
                         /\ sent'[t][Len(sent[t]) + 1] = m
                         /\ \A k \in 1 .. Len(sent[t]) : sent'[t][k] = sent[t][k]
<1>1. sent[t] \in Seq(Messages) /\ sent \in [Transfers -> Seq(Messages)]
  BY DEF FileInv, TypeOK
<1>2. CASE closed
  BY <1>1, <1>2 DEF Send, FileInv, TypeOK
<1>3. CASE ~closed
  <2>1. waiting < Capacity /\ waiting' = waiting + 1
        /\ sent' = [sent EXCEPT ![t] = Append(sent[t], m)] /\ closed' = closed
    BY <1>3 DEF Send
  <2>2. waiting' \in 0 .. Capacity
    BY <2>1, FileDropAssumption DEF FileInv, TypeOK
  <2>3. sent'[t] = Append(sent[t], m) /\ sent' \in [Transfers -> Seq(Messages)]
    BY <1>1, <2>1
  <2> QED
    BY <1>1, <1>3, <2>1, <2>2, <2>3, AppendProperties
<1> QED
  BY <1>2, <1>3

LEMMA ReadStep ==
    ASSUME FileInv, NEW t \in Transfers, ReadBlock(t) \/ ReadEnd(t)
    PROVE  FileInv'
<1> DEFINE c == disk[file[t]]
<1>1. Good(t) /\ c \in Seq(Blocks) /\ Len(c) \in Nat /\ position[t] \in Nat
  BY ContentTypes DEF FileInv, TypeOK
<1>2. CASE ReadBlock(t)
  <2>1. /\ task[t] = "read" /\ task' = [task EXCEPT ![t] = "chunk"]
        /\ position[t] < Len(c)
        /\ buffer' = [buffer EXCEPT ![t] = c[position[t] + 1]]
        /\ position' = [position EXCEPT ![t] = position[t] + 1]
        /\ UNCHANGED <<drive, channel, file, total_size, hasher, offset, stable, written>>
    BY <1>1, <1>2 DEF ReadBlock, Goto, AtEnd, NextBlock
  <2>2. c[position[t] + 1] \in Blocks
    BY <1>1, <2>1
  <2>3. /\ TypeOK' /\ task'[t] = "chunk" /\ position'[t] = position[t] + 1
        /\ buffer'[t] = c[position[t] + 1] /\ \A u \in Transfers \ {t} : Untouched(u)
    BY <2>1, <2>2, SMTT(20) DEF FileInv, TypeOK, drive, channel, Untouched, Tasks
  <2>4. /\ Ordered(t)' /\ ~Complete(t)'
        /\ sent'[t] # <<>> => sent'[t][1] = InitMessage(t)'
    BY <2>1, QuietStep DEF channel
  <2>5. SentSoFar(t)'
    BY <1>1, <2>1, <2>3, <2>4 DEF Good, SentSoFar, channel, Early
  <2>6. stable'[t] => ReadSoFar(t)'
    BY <1>1, <2>1, <2>3, <2>4 DEF Good, ReadSoFar, drive, channel, Hashed
  <2> QED
    BY <2>1, <2>3, <2>4, <2>5, <2>6, OneTransferSteps DEF Good, channel
<1>3. CASE ReadEnd(t)
  <2>1. /\ task[t] = "read" /\ task' = [task EXCEPT ![t] = "done"]
        /\ position[t] >= Len(c)
        /\ UNCHANGED <<drive, channel, file, position, total_size, hasher, buffer, offset,
                       stable, written>>
    BY <1>1, <1>3 DEF ReadEnd, Goto, AtEnd
  <2>3. TypeOK' /\ task'[t] = "done" /\ \A u \in Transfers \ {t} : Untouched(u)
    BY <2>1 DEF FileInv, TypeOK, drive, channel, Untouched, Tasks
  <2>4. /\ Ordered(t)' /\ ~Complete(t)'
        /\ sent'[t] # <<>> => sent'[t][1] = InitMessage(t)'
    BY <2>1, QuietStep DEF channel
  <2>5. SentSoFar(t)'
    BY <1>1, <2>1, <2>3, <2>4 DEF Good, SentSoFar, channel, Early
  <2>6. stable'[t] => ReadSoFar(t)'
    <3>1. stable[t] => offset[t] = Len(c)
      BY <1>1, <2>1 DEF Good, ReadSoFar, FileInv, TypeOK
    <3> QED
      BY <1>1, <2>1, <2>3, <2>4, <3>1 DEF Good, ReadSoFar, drive, channel, Hashed
  <2> QED
    BY <2>1, <2>3, <2>4, <2>5, <2>6, OneTransferSteps DEF Good, channel
<1> QED
  BY <1>2, <1>3

LEMMA SendInitStep ==
    ASSUME FileInv, NEW t \in Transfers, SendInit(t)
    PROVE  FileInv'
<1> DEFINE m == InitMessage(t)
<1>1. Good(t) /\ m \in Messages
  BY MessageTypes DEF FileInv
<1>2. /\ task[t] = "init" /\ task' = [task EXCEPT ![t] = "read"] /\ Send(t, m)
      /\ UNCHANGED <<drive, file, position, total_size, hasher, buffer, offset, stable, written>>
  BY DEF SendInit, Goto, InitMessage
<1>3. /\ waiting' \in 0 .. Capacity /\ closed' = closed
      /\ sent' \in [Transfers -> Seq(Messages)]
      /\ \A u \in Transfers \ {t} : sent'[u] = sent[u]
  BY <1>1, <1>2, SendStep
<1>4. TypeOK' /\ task'[t] = "read" /\ \A u \in Transfers \ {t} : Untouched(u)
  BY <1>2, <1>3 DEF FileInv, TypeOK, drive, Untouched, Tasks
<1>5. sent[t] = <<>> /\ Len(sent[t]) = 0 /\ offset[t] = 0
  BY <1>1, <1>2 DEF Good, SentSoFar, Early
<1>6. /\ closed => sent'[t] = <<>>
      /\ ~closed => Len(sent'[t]) = 1 /\ sent'[t][1] = m
  <2>1. /\ closed => sent'[t] = sent[t]
        /\ ~closed => /\ Len(sent'[t]) = Len(sent[t]) + 1
                      /\ sent'[t][Len(sent[t]) + 1] = m
    BY <1>1, <1>2, SendStep
  <2> QED
    BY <1>5, <2>1
<1>7. Ordered(t)' /\ ~Complete(t)'
  BY <1>6 DEF Ordered, Complete, InitMessage
<1>8. SentSoFar(t)'
  BY <1>2, <1>3, <1>4, <1>5, <1>6, <1>7 DEF SentSoFar, InitMessage, Early
<1>9. stable'[t] => ReadSoFar(t)'
  <2>1. Len(sent'[t]) \in {0, 1}
    BY <1>6
  <2> QED
    BY <1>1, <1>2, <1>4, <1>5, <1>7, <2>1, ContentTypes
    DEF FileInv, Good, ReadSoFar, drive, Hashed
<1> QED
  BY <1>2, <1>3, <1>4, <1>7, <1>8, <1>9, OneTransferSteps DEF Good

LEMMA SendChunkStep ==
    ASSUME FileInv, NEW t \in Transfers, SendChunk(t)
    PROVE  FileInv'
<1> DEFINE m == ChunkMessage(t)
           c == disk[file[t]]
<1>1. Good(t) /\ m \in Messages /\ Len(sent[t]) \in Nat /\ offset[t] \in Nat
  BY MessageTypes, SMTT(20) DEF FileInv, TypeOK, Good, SentSoFar, SendChunk, Goto
<1>2. /\ task[t] = "chunk" /\ task' = [task EXCEPT ![t] = "read"] /\ Send(t, m)
      /\ offset' = [offset EXCEPT ![t] = offset[t] + 1]
      /\ UNCHANGED <<drive, file, position, total_size, hasher, buffer, stable, written>>
  BY DEF SendChunk, Goto, ChunkMessage
<1>3. /\ waiting' \in 0 .. Capacity /\ closed' = closed
      /\ sent' \in [Transfers -> Seq(Messages)]
      /\ \A u \in Transfers \ {t} : sent'[u] = sent[u]
      /\ closed => sent'[t] = sent[t]
      /\ ~closed => /\ Len(sent'[t]) = Len(sent[t]) + 1
                    /\ sent'[t][Len(sent[t]) + 1] = m
                    /\ \A k \in 1 .. Len(sent[t]) : sent'[t][k] = sent[t][k]
  BY <1>1, <1>2, SendStep
<1>4. /\ TypeOK' /\ task'[t] = "read" /\ offset'[t] = offset[t] + 1
      /\ \A u \in Transfers \ {t} : Untouched(u)
  <2>1. /\ offset' \in [Transfers -> Nat] /\ offset'[t] = offset[t] + 1
        /\ \A u \in Transfers \ {t} : offset'[u] = offset[u]
    BY <1>1, <1>2 DEF FileInv, TypeOK
  <2>2. /\ task' \in [Transfers -> Tasks] /\ task'[t] = "read"
        /\ \A u \in Transfers \ {t} : task'[u] = task[u]
    BY <1>2 DEF FileInv, TypeOK, Tasks
  <2> QED
    BY <1>2, <1>3, <2>1, <2>2 DEF FileInv, TypeOK, drive, Untouched
<1>5. ~Complete(t) /\ (~closed => Len(sent[t]) = offset[t] + 1)
  BY <1>1, <1>2 DEF Good, SentSoFar
<1>6. ~Complete(t)'
  BY <1>1, <1>3, <1>5 DEF Complete, ChunkMessage
<1>7. Ordered(t)'
  <2>1. CASE closed
    BY <1>1, <1>3, <2>1 DEF Good, Ordered
  <2>2. CASE ~closed
    <3>1. ASSUME NEW k \in 1 .. Len(sent'[t])
          PROVE  /\ sent'[t][k].kind = "Init" <=> k = 1
                 /\ sent'[t][k].kind # "Done"
                 /\ sent'[t][k].kind = "Chunk" => sent'[t][k].offset = k - 2
      <4>1. CASE k = Len(sent[t]) + 1
        <5>1. m.kind = "Chunk" /\ m.offset = offset[t] /\ sent'[t][k] = m
          BY <1>3, <2>2, <4>1 DEF ChunkMessage
        <5>2. offset[t] = k - 2 /\ k # 1
          BY <1>1, <1>5, <2>2, <4>1
        <5> QED
          BY <5>1, <5>2
      <4>2. CASE k \in 1 .. Len(sent[t])
        BY <1>1, <1>3, <1>5, <2>2, <4>2 DEF Good, Ordered, Complete
      <4> QED
        BY <1>1, <1>3, <2>2, <3>1, <4>1, <4>2
    <3> QED
      BY <3>1 DEF Ordered
  <2> QED
    BY <2>1, <2>2
<1>8. SentSoFar(t)'
  <2>1. ~closed => Len(sent'[t]) = offset'[t] + 1
    BY <1>1, <1>3, <1>4, <1>5
  <2>2. sent'[t] # <<>> => sent'[t][1] = InitMessage(t)
    BY <1>1, <1>3, <1>5 DEF Good, SentSoFar
  <2> QED
    BY <1>2, <1>3, <1>4, <1>6, <2>1, <2>2 DEF SentSoFar, InitMessage, Early
<1>9. ASSUME stable'[t] PROVE ReadSoFar(t)'
  <2>1. /\ position[t] = offset[t] + 1 /\ position[t] <= Len(c) /\ buffer[t] = c[position[t]]
        /\ path # 0 /\ file[t] = path /\ total_size[t] = Len(c) /\ hasher[t] = c
        /\ \A k \in 2 .. Len(sent[t]) : sent[t][k].kind = "Chunk" => sent[t][k].data = c[k - 1]
    BY <1>1, <1>2, <1>9 DEF Good, ReadSoFar, Hashed
  <2>2. \A k \in 2 .. Len(sent'[t]) : sent'[t][k].kind = "Chunk" => sent'[t][k].data = c[k - 1]
    <3>1. CASE closed
      BY <1>3, <2>1, <3>1
    <3>2. CASE ~closed
      <4>1. ASSUME NEW k \in 2 .. Len(sent'[t]), sent'[t][k].kind = "Chunk"
            PROVE  sent'[t][k].data = c[k - 1]
        <5>1. CASE k = Len(sent[t]) + 1
          <6>1. k - 1 = position[t] /\ sent'[t][k] = m
            BY <1>1, <1>3, <1>5, <2>1, <3>2, <5>1
          <6> QED
            BY <2>1, <6>1 DEF ChunkMessage
        <5>2. CASE k \in 2 .. Len(sent[t])
          <6>1. k \in 1 .. Len(sent[t]) /\ sent'[t][k] = sent[t][k]
            BY <1>1, <1>3, <3>2, <5>2
          <6> QED
            BY <2>1, <4>1, <5>2, <6>1
        <5> QED
          BY <1>1, <1>3, <3>2, <4>1, <5>1, <5>2
      <4> QED
        BY <4>1
    <3> QED
      BY <3>1, <3>2
  <2>3. /\ disk' = disk /\ path' = path /\ file'[t] = file[t] /\ position'[t] = position[t]
        /\ total_size'[t] = total_size[t] /\ hasher'[t] = hasher[t]
    BY <1>2 DEF drive
  <2> QED
    BY <1>4, <1>6, <2>1, <2>2, <2>3 DEF ReadSoFar, Hashed
<1> QED
  BY <1>2, <1>3, <1>4, <1>6, <1>7, <1>8, <1>9, OneTransferSteps DEF Good

LEMMA SendDoneStep ==
    ASSUME FileInv, NEW t \in Transfers, SendDone(t)
    PROVE  FileInv'
<1> DEFINE m == DoneMessage
           c == disk[file[t]]
<1>1. Good(t) /\ m \in Messages /\ Len(sent[t]) \in Nat /\ offset[t] \in Nat
  BY MessageTypes DEF FileInv, TypeOK
<1>2. /\ task[t] = "done" /\ task' = [task EXCEPT ![t] = "ok"] /\ Send(t, m)
      /\ UNCHANGED <<drive, file, position, total_size, hasher, buffer, offset, stable, written>>
  BY DEF SendDone, Goto, DoneMessage
<1>3. /\ waiting' \in 0 .. Capacity /\ closed' = closed
      /\ sent' \in [Transfers -> Seq(Messages)]
      /\ \A u \in Transfers \ {t} : sent'[u] = sent[u]
      /\ closed => sent'[t] = sent[t]
      /\ ~closed => /\ Len(sent'[t]) = Len(sent[t]) + 1
                    /\ sent'[t][Len(sent[t]) + 1] = m
                    /\ \A k \in 1 .. Len(sent[t]) : sent'[t][k] = sent[t][k]
  BY <1>1, <1>2, SendStep
<1>4. /\ TypeOK' /\ task'[t] = "ok" /\ \A u \in Transfers \ {t} : Untouched(u)
  BY <1>2, <1>3 DEF FileInv, TypeOK, drive, Untouched, Tasks
<1>5. ~Complete(t) /\ (~closed => Len(sent[t]) = offset[t] + 1)
  BY <1>1, <1>2 DEF Good, SentSoFar
<1>6. Ordered(t)'
  <2>1. CASE closed
    BY <1>1, <1>3, <2>1 DEF Good, Ordered
  <2>2. CASE ~closed
    <3>1. ASSUME NEW k \in 1 .. Len(sent'[t])
          PROVE  /\ sent'[t][k].kind = "Init" <=> k = 1
                 /\ sent'[t][k].kind = "Done" => k = Len(sent'[t])
                 /\ sent'[t][k].kind = "Chunk" => sent'[t][k].offset = k - 2
      <4>1. CASE k = Len(sent[t]) + 1
        <5>1. m.kind = "Done" /\ sent'[t][k] = m /\ k = Len(sent'[t])
          BY <1>3, <2>2, <4>1 DEF DoneMessage
        <5>2. k # 1
          BY <1>1, <1>5, <2>2, <4>1
        <5> QED
          BY <5>1, <5>2
      <4>2. CASE k \in 1 .. Len(sent[t])
        <5>1. sent'[t][k] = sent[t][k] /\ sent[t] # <<>>
          BY <1>1, <1>3, <2>2, <4>2
        <5>2. sent[t][k].kind # "Done"
          BY <1>1, <1>5, <4>2, <5>1 DEF Good, Ordered, Complete
        <5> QED
          BY <1>1, <4>2, <5>1, <5>2 DEF Good, Ordered
      <4> QED
        BY <1>1, <1>3, <2>2, <3>1, <4>1, <4>2
    <3> QED
      BY <3>1 DEF Ordered
  <2> QED
    BY <2>1, <2>2
<1>7. SentSoFar(t)'
  <2>1. sent'[t] # <<>> => sent'[t][1] = InitMessage(t)
    BY <1>1, <1>3, <1>5 DEF Good, SentSoFar
  <2> QED
    BY <1>2, <1>4, <2>1 DEF SentSoFar, InitMessage, Early
<1>8. ASSUME stable'[t] PROVE ReadSoFar(t)'
  <2>1. /\ offset[t] = Len(c)
        /\ path # 0 /\ file[t] = path /\ total_size[t] = Len(c) /\ hasher[t] = c
        /\ \A k \in 2 .. Len(sent[t]) : sent[t][k].kind = "Chunk" => sent[t][k].data = c[k - 1]
    BY <1>1, <1>2, <1>8 DEF Good, ReadSoFar, Hashed
  <2>2. \A k \in 2 .. Len(sent'[t]) : sent'[t][k].kind = "Chunk" => sent'[t][k].data = c[k - 1]
    <3>1. CASE closed
      BY <1>3, <2>1, <3>1
    <3>2. CASE ~closed
      <4>1. ASSUME NEW k \in 2 .. Len(sent'[t]), sent'[t][k].kind = "Chunk"
            PROVE  sent'[t][k].data = c[k - 1]
        <5>1. CASE k = Len(sent[t]) + 1
          BY <1>3, <3>2, <4>1, <5>1 DEF DoneMessage
        <5>2. CASE k \in 2 .. Len(sent[t])
          <6>1. k \in 1 .. Len(sent[t]) /\ sent'[t][k] = sent[t][k]
            BY <1>1, <1>3, <3>2, <5>2
          <6> QED
            BY <2>1, <4>1, <5>2, <6>1
        <5> QED
          BY <1>1, <1>3, <3>2, <4>1, <5>1, <5>2
      <4> QED
        BY <4>1
    <3> QED
      BY <3>1, <3>2
  <2>3. /\ disk' = disk /\ path' = path /\ file'[t] = file[t] /\ position'[t] = position[t]
        /\ total_size'[t] = total_size[t] /\ hasher'[t] = hasher[t]
    BY <1>2 DEF drive
  <2>4. Complete(t)' => Len(sent'[t]) = Len(c) + 2
    <3>1. closed => ~Complete(t)'
      BY <1>3, <1>5 DEF Complete
    <3>2. ~closed => Len(sent'[t]) = Len(c) + 2
      BY <1>1, <1>3, <1>5, <2>1
    <3> QED
      BY <3>1, <3>2
  <2> QED
    BY <1>4, <2>1, <2>2, <2>3, <2>4 DEF ReadSoFar, Hashed
<1> QED
  BY <1>2, <1>3, <1>4, <1>6, <1>7, <1>8, OneTransferSteps DEF Good

LEMMA FileStep == FileInv /\ [Next]_vars => FileInv'
<1> SUFFICES ASSUME FileInv, [Next]_vars PROVE FileInv'
  OBVIOUS
<1>1. ASSUME NEW t \in Transfers, Start(t) \/ Step(t) PROVE FileInv'
  BY <1>1, OpenStep, HashStep, ReadStep, SendInitStep, SendChunkStep, SendDoneStep DEF Step
<1>2. CASE UNCHANGED vars
  <2>1. TypeOK'
    BY <1>2 DEF FileInv, TypeOK, vars
  <2>2. ASSUME NEW t \in Transfers PROVE Good(t)'
    <3>1. Good(t) /\ Untouched(t) /\ UNCHANGED <<drive, closed>>
      BY <1>2 DEF FileInv, vars, Untouched, drive
    <3> QED
      BY <3>1, UntouchedStaysGood
  <2> QED
    BY <2>1, <2>2 DEF FileInv
<1> QED
  BY <1>1, <1>2, OthersStep, ReceiverStep DEF Next

\* The types; in particular the channel never holds more than its capacity.
THEOREM FileDropTyped == Spec => []TypeOK
<1>1. FileInv => TypeOK
  BY DEF FileInv
<1> QED
  BY <1>1, FileInit, FileStep, PTL DEF Spec

\* The messages of each transfer are in order, however many share the channel.
THEOREM MessagesInOrder == Spec => []InOrder
<1>1. FileInv => InOrder
  BY InOrderIsOrdered DEF FileInv, Good
<1> QED
  BY <1>1, FileInit, FileStep, PTL DEF Spec

\* A complete transfer whose chunks carry a content amounts to that content.
LEMMA ChunksAmountTo ==
    ASSUME FileInv, NEW t \in Transfers, NEW c \in Seq(Blocks), Len(sent[t]) = Len(c) + 2,
           \A k \in 2 .. Len(sent[t]) : sent[t][k].kind = "Chunk" => sent[t][k].data = c[k - 1]
    PROVE  Received(t) = c
<1> DEFINE s == sent[t]
<1>1. /\ Len(c) \in Nat /\ s \in Seq(Messages) /\ Ordered(t)
      /\ \A m \in Messages : m.kind \in {"Init", "Chunk", "Done"}
  BY MessageTypes, SMTT(20) DEF FileInv, TypeOK, Good
<1>2. ASSUME NEW k \in 1 .. Len(c) PROVE s[k + 1].data = c[k]
  <2>1. k + 1 \in 2 .. Len(s) /\ k + 1 # 1 /\ k + 1 # Len(s) /\ k + 1 \in 1 .. Len(s)
    BY <1>1
  <2>2. s[k + 1] \in Messages /\ s[k + 1].kind # "Init" /\ s[k + 1].kind # "Done"
    BY <1>1, <2>1 DEF Ordered
  <2>3. s[k + 1].kind = "Chunk" /\ (k + 1) - 1 = k
    BY <1>1, <2>2
  <2> QED
    BY <2>1, <2>3
<1>3. Received(t) = [k \in 1 .. Len(c) |-> s[k + 1].data]
  BY <1>1 DEF Received
<1>4. Received(t) = [k \in 1 .. Len(c) |-> c[k]]
  BY <1>2, <1>3
<1>5. c = [k \in 1 .. Len(c) |-> c[k]]
  BY <1>1
<1> QED
  BY <1>4, <1>5

\* What is sent of a file that does not change has the announced size and hash.
THEOREM UnchangedFileArrives == Spec => []UnchangedIsAccepted
<1>1. FileInv => UnchangedIsAccepted
  <2> SUFFICES ASSUME FileInv, NEW t \in Transfers, Complete(t), stable[t]
               PROVE  Accepted(t)
    BY DEF UnchangedIsAccepted
  <2> DEFINE c == disk[file[t]]
             s == sent[t]
  <2>1. c \in Seq(Blocks) /\ Len(c) \in Nat /\ s \in Seq(Messages) /\ Good(t)
    BY ContentTypes DEF FileInv, TypeOK
  <2>2. /\ Len(s) = Len(c) + 2 /\ s[1] = InitMessage(t)
        /\ total_size[t] = Len(c) /\ hasher[t] = c
        /\ \A k \in 2 .. Len(s) : s[k].kind = "Chunk" => s[k].data = c[k - 1]
    BY <2>1 DEF Good, SentSoFar, ReadSoFar, Complete, Hashed
  <2>3. Received(t) = c
    BY <2>1, <2>2, ChunksAmountTo
  <2> QED
    BY <2>2, <2>3 DEF Accepted, InitMessage
<1> QED
  BY <1>1, FileInit, FileStep, PTL DEF Spec

-----------------------------------------------------------------------------
(* A file that is written into.                                             *)

\* Every file has a content that was at the path at some time, and nobody has
\* a file open that is yet to be put there.
Filed ==
    /\ \A f \in Files : disk[f] \in had
    /\ path <= changes + 1
    /\ \A t \in Transfers : file[t] <= changes + 1

\* What the first reading has seen is a single content so far; when it is over,
\* one that the file has had.
HashPure(t) ==
    LET c == disk[file[t]] IN
    /\ task[t] = "metadata" => position[t] = 0
    /\ task[t] = "hash" => position[t] <= Len(c) /\ hasher[t] = SubSeq(c, 1, position[t])
    /\ task[t] \in Hashed => hasher[t] \in had

\* The chunks carry the beginning of the content c.
Carry(t, c) ==
    \A k \in 2 .. Len(sent[t]) : sent[t][k].kind = "Chunk" => sent[t][k].data = c[k - 1]

\* The same of the second reading, by what it has sent.
ReadPure(t) ==
    LET c == disk[file[t]] IN
    /\ task[t] = "init" => position[t] = 0
    /\ task[t] = "read" => Carry(t, c) /\ position[t] = offset[t] /\ offset[t] <= Len(c)
    /\ task[t] = "chunk" => /\ Carry(t, c) /\ position[t] = offset[t] + 1
                            /\ position[t] <= Len(c) /\ buffer[t] = c[position[t]]
    /\ task[t] = "done" => \E d \in had : Carry(t, d) /\ offset[t] = Len(d)
    /\ task[t] = "ok" => \E d \in had : Carry(t, d) /\ (Complete(t) => Len(sent[t]) = Len(d) + 2)

\* One write spoils one reading.
OneIsPure(t) ==
    task[t] \notin {"idle", "open"} =>
        /\ written[t] = 0 => HashPure(t) /\ ReadPure(t)
        /\ written[t] = 1 => HashPure(t) \/ ReadPure(t)

PureInv == FileInv /\ Filed /\ \A t \in Transfers : OneIsPure(t)

LEMMA PureInit == Init => PureInv
<1> SUFFICES ASSUME Init PROVE PureInv
  OBVIOUS
<1>1. Filed
  BY DEF Init, Filed, Files
<1>2. \A t \in Transfers : OneIsPure(t)
  BY DEF Init, OneIsPure
<1> QED
  BY <1>1, <1>2, FileInit DEF PureInv

\* A step of transfer t that does not open the file.
LEMMA PureSteps ==
    ASSUME PureInv, FileInv', NEW t \in Transfers, Step(t), ~Open(t)
    PROVE  /\ HashPure(t) => HashPure(t)'
           /\ ReadPure(t) => ReadPure(t)'
<1> DEFINE c == disk[file[t]]
<1>0. FileInv /\ TypeOK /\ Good(t) /\ SentSoFar(t) /\ Filed
  BY DEF PureInv, FileInv, Good
<1>1. /\ c \in Seq(Blocks) /\ Len(c) \in Nat /\ c \in had /\ position[t] \in Nat
      /\ offset[t] \in Nat
  BY <1>0, ContentTypes DEF Filed, TypeOK
<1> USE DEF HashPure, ReadPure, Carry
<1>2. CASE Metadata(t)
  <2>1. /\ task[t] = "metadata" /\ task'[t] = "hash" /\ UNCHANGED <<drive, file, position, hasher>>
    BY <1>0, <1>2 DEF Metadata, Goto, TypeOK
  <2>2. hasher[t] = <<>> /\ SubSeq(c, 1, 0) = <<>>
    BY <1>0, <1>1, <2>1 DEF SentSoFar
  <2> QED
    BY <1>1, <2>1, <2>2 DEF drive, Hashed
<1>3. CASE HashBlock(t)
  <2>1. /\ task[t] = "hash" /\ task' = task /\ UNCHANGED <<drive, file>>
        /\ position[t] < Len(c) /\ position'[t] = position[t] + 1
        /\ hasher'[t] = Append(hasher[t], c[position[t] + 1])
    BY <1>0, <1>1, <1>3 DEF HashBlock, AtEnd, NextBlock, TypeOK
  <2>2. Append(SubSeq(c, 1, position[t]), c[position[t] + 1]) = SubSeq(c, 1, position[t] + 1)
    BY <1>1, <2>1, PrefixGrows
  <2>3. /\ c' = c /\ task'[t] = "hash" /\ "hash" \notin Hashed
        /\ position'[t] \in Nat /\ position'[t] <= Len(c)
    BY <1>1, <2>1 DEF drive, Hashed
  <2>4. HashPure(t) => hasher'[t] = SubSeq(c, 1, position'[t])
    BY <2>1, <2>2
  <2>5. HashPure(t) => HashPure(t)'
    BY <2>3, <2>4
  <2> QED
    BY <2>3, <2>5
<1>4. CASE HashEnd(t)
  <2>1. /\ task[t] = "hash" /\ task'[t] = "reopen" /\ UNCHANGED <<drive, file, hasher>>
        /\ position[t] >= Len(c)
    BY <1>0, <1>1, <1>4 DEF HashEnd, Goto, AtEnd, TypeOK
  <2>2. ASSUME HashPure(t) PROVE hasher[t] = c
    <3>1. position[t] = Len(c) /\ hasher[t] = SubSeq(c, 1, position[t])
      BY <1>1, <2>1, <2>2
    <3>2. SubSeq(c, 1, Len(c)) = c
      BY <1>1
    <3> QED
      BY <3>1, <3>2
  <2> QED
    BY <1>1, <2>1, <2>2 DEF drive
<1>5. CASE Reopen(t)
  <2>1. /\ task[t] = "reopen" /\ task'[t] = "init" /\ UNCHANGED <<drive, hasher>>
        /\ position'[t] = 0
    BY <1>0, <1>5 DEF Reopen, Goto, TypeOK
  <2> QED
    BY <2>1 DEF drive, Hashed
<1>6. CASE SendInit(t)
  <2>1. /\ task[t] = "init" /\ task'[t] = "read" /\ UNCHANGED <<drive, file, position, hasher, offset>>
        /\ Send(t, InitMessage(t)) /\ InitMessage(t) \in Messages
    BY <1>0, <1>6, MessageTypes DEF SendInit, Goto, InitMessage, TypeOK
  <2>2. sent[t] = <<>> /\ Len(sent[t]) = 0 /\ offset[t] = 0
    BY <1>0, <2>1 DEF SentSoFar, Early
  <2>3. Len(sent'[t]) <= 1
    BY <1>0, <2>1, <2>2, SendStep
  <2>4. \A k \in 2 .. Len(sent'[t]) : FALSE
    <3>1. Len(sent'[t]) \in Nat
      BY DEF FileInv, TypeOK
    <3> QED
      BY <2>3, <3>1
  <2> QED
    BY <1>1, <2>1, <2>2, <2>4 DEF drive, Hashed
<1>7. CASE ReadBlock(t)
  <2>1. /\ task[t] = "read" /\ task'[t] = "chunk" /\ UNCHANGED <<drive, file, hasher, offset, sent>>
        /\ position[t] < Len(c) /\ position'[t] = position[t] + 1
        /\ buffer'[t] = c[position[t] + 1]
    BY <1>0, <1>1, <1>7 DEF ReadBlock, Goto, AtEnd, NextBlock, TypeOK, channel
  <2> QED
    BY <1>1, <2>1 DEF drive, Hashed
<1>8. CASE SendChunk(t)
  <2>1. /\ task[t] = "chunk" /\ task'[t] = "read" /\ UNCHANGED <<drive, file, hasher, position>>
        /\ offset'[t] = offset[t] + 1
        /\ Send(t, ChunkMessage(t)) /\ ChunkMessage(t) \in Messages
    BY <1>0, <1>8, MessageTypes DEF SendChunk, Goto, ChunkMessage, TypeOK, SentSoFar
  <2>2. ReadPure(t) => ReadPure(t)'
    <3> SUFFICES ASSUME ReadPure(t) PROVE Carry(t, c)'
      BY <1>1, <2>1 DEF drive
    <3> SUFFICES ASSUME NEW k \in 2 .. Len(sent'[t]), sent'[t][k].kind = "Chunk"
                 PROVE  sent'[t][k].data = c[k - 1]
      BY <2>1 DEF drive
    <3>1. CASE closed
      BY <1>0, <2>1, <3>1, SendStep
    <3>2. CASE ~closed
      <4>1. /\ Len(sent'[t]) = Len(sent[t]) + 1 /\ sent'[t][Len(sent[t]) + 1] = ChunkMessage(t)
            /\ \A j \in 1 .. Len(sent[t]) : sent'[t][j] = sent[t][j]
            /\ Len(sent[t]) = offset[t] + 1
        BY <1>0, <2>1, <3>2, SendStep DEF SentSoFar
      <4>2. CASE k = Len(sent[t]) + 1
        BY <1>1, <2>1, <4>1, <4>2, SMTT(20) DEF ChunkMessage
      <4>3. CASE k \in 2 .. Len(sent[t])
        <5>1. k \in 1 .. Len(sent[t]) /\ sent'[t][k] = sent[t][k]
          BY <1>1, <4>1, <4>3
        <5> QED
          BY <2>1, <4>3, <5>1
      <4> QED
        BY <1>1, <4>1, <4>2, <4>3
    <3> QED
      BY <3>1, <3>2
  <2> QED
    BY <2>1, <2>2 DEF drive, Hashed
<1>9. CASE ReadEnd(t)
  <2>1. /\ task[t] = "read" /\ task'[t] = "done" /\ UNCHANGED <<drive, hasher, offset, sent>>
        /\ position[t] >= Len(c)
    BY <1>0, <1>1, <1>9 DEF ReadEnd, Goto, AtEnd, TypeOK, channel
  <2>2. ReadPure(t) => Carry(t, c) /\ offset[t] = Len(c)
    BY <1>1, <2>1
  <2> QED
    BY <1>1, <2>1, <2>2 DEF drive, Hashed
<1>10. CASE SendDone(t)
  <2>1. /\ task[t] = "done" /\ task'[t] = "ok" /\ UNCHANGED <<drive, hasher, offset>>
        /\ Send(t, DoneMessage) /\ DoneMessage \in Messages
    BY <1>0, <1>10, MessageTypes DEF SendDone, Goto, DoneMessage, TypeOK
  <2>2. ~Complete(t) /\ Len(sent[t]) \in Nat
    BY <1>0, <2>1 DEF SentSoFar, TypeOK
  <2>3. ASSUME NEW d \in had, Carry(t, d), offset[t] = Len(d)
        PROVE  Carry(t, d)' /\ (Complete(t)' => Len(sent'[t]) = Len(d) + 2)
    <3>1. CASE closed
      BY <1>0, <2>1, <2>2, <2>3, <3>1, SendStep DEF Complete
    <3>2. CASE ~closed
      <4>1. /\ Len(sent'[t]) = Len(sent[t]) + 1 /\ sent'[t][Len(sent[t]) + 1] = DoneMessage
            /\ \A j \in 1 .. Len(sent[t]) : sent'[t][j] = sent[t][j]
            /\ Len(sent[t]) = offset[t] + 1
        BY <1>0, <2>1, <3>2, SendStep DEF SentSoFar
      <4>2. ASSUME NEW k \in 2 .. Len(sent'[t]), sent'[t][k].kind = "Chunk"
            PROVE  sent'[t][k].data = d[k - 1]
        <5>1. k # Len(sent[t]) + 1
          BY <4>1, <4>2 DEF DoneMessage
        <5>2. k \in 2 .. Len(sent[t]) /\ k \in 1 .. Len(sent[t])
          BY <1>1, <2>2, <4>1, <4>2, <5>1
        <5> QED
          BY <2>3, <4>1, <4>2, <5>2
      <4> QED
        BY <1>1, <2>3, <4>1, <4>2
    <3> QED
      BY <3>1, <3>2
  <2> QED
    BY <2>1, <2>3 DEF drive, Hashed
<1>11. CASE Fail(t)
  <2>1. task'[t] = "error"
    BY <1>0, <1>11 DEF Fail, TypeOK
  <2> QED
    BY <2>1 DEF Hashed
<1> QED
  BY <1>2, <1>3, <1>4, <1>5, <1>6, <1>7, <1>8, <1>9, <1>10, <1>11 DEF Step

\* Nothing happens to a transfer whose file and messages stay as they are.
LEMMA PureStays ==
    ASSUME NEW t \in Transfers, OneIsPure(t), had \subseteq had',
           disk'[file[t]] = disk[file[t]],
           /\ task'[t] = task[t] /\ file'[t] = file[t] /\ position'[t] = position[t]
           /\ hasher'[t] = hasher[t] /\ buffer'[t] = buffer[t] /\ offset'[t] = offset[t]
           /\ sent'[t] = sent[t] /\ written'[t] = written[t]
    PROVE  OneIsPure(t)'
<1>1. HashPure(t) => HashPure(t)'
  BY DEF HashPure
<1>2. /\ \A d : Carry(t, d) => Carry(t, d)'
      /\ Complete(t)' = Complete(t)
  BY DEF Carry, Complete
<1>3. Carry(t, disk[file[t]]) => Carry(t, disk[file[t]])'
  BY DEF Carry
<1>4. ReadPure(t) => ReadPure(t)'
  BY <1>2, <1>3 DEF ReadPure
<1> QED
  BY <1>1, <1>4 DEF OneIsPure

LEMMA PureChange ==
    ASSUME PureInv, FileInv',
           \/ \E c \in Contents : WriteFile(c) \/ ReplaceFile(c)
           \/ RemoveFile
    PROVE  PureInv'
<1>0. /\ FileInv /\ TypeOK /\ Filed /\ \A t \in Transfers : OneIsPure(t)
  BY DEF PureInv, FileInv
<1>1. ASSUME NEW c \in Contents, WriteFile(c) PROVE PureInv'
  <2>1. /\ path \in Files /\ disk' = [disk EXCEPT ![path] = c] /\ had' = had \cup {c}
        /\ changes' = changes + 1 /\ path' = path
        /\ UNCHANGED <<task, file, position, hasher, buffer, offset, sent>>
        /\ \A t \in Transfers : written'[t] = written[t] + 1 /\ written[t] \in Nat
    BY <1>0, <1>1 DEF WriteFile, Changed, TypeOK, channel
  <2>2. Filed'
    BY <1>0, <2>1 DEF Filed, TypeOK, Files
  <2>3. ASSUME NEW t \in Transfers PROVE OneIsPure(t)'
    <3>1. HashPure(t) /\ task[t] \in {"read", "chunk", "done", "ok"} => HashPure(t)'
      BY <2>1 DEF HashPure, Hashed
    <3>2. ReadPure(t) /\ task[t] \in {"metadata", "hash", "reopen", "init", "error"} => ReadPure(t)'
      BY <2>1 DEF ReadPure
    <3>3. OneIsPure(t) /\ written'[t] # 0 /\ (written'[t] = 1 => written[t] = 0)
      BY <1>0, <2>1
    <3>4. task[t] \in Tasks /\ task'[t] = task[t]
      BY <1>0, <2>1 DEF TypeOK
    <3> QED
      BY <3>1, <3>2, <3>3, <3>4 DEF OneIsPure, Tasks
  <2> QED
    BY <2>2, <2>3 DEF PureInv
<1>2. CASE RemoveFile \/ \E c \in Contents : ReplaceFile(c)
  <2>1. /\ UNCHANGED <<task, file, position, hasher, buffer, offset, sent, written>>
        /\ changes \in Nat /\ changes' = changes + 1
    BY <1>0, <1>2 DEF RemoveFile, ReplaceFile, Changed, channel, TypeOK
  <2>2. /\ had \subseteq had' /\ path' <= changes' + 1
        /\ \A f \in Files : disk'[f] \in had' /\ (f <= changes + 1 => disk'[f] = disk[f])
    <3>1. CASE RemoveFile
      BY <1>0, <2>1, <3>1 DEF RemoveFile, Filed, TypeOK
    <3>2. ASSUME NEW c \in Contents, ReplaceFile(c)
          PROVE  /\ had \subseteq had' /\ path' <= changes' + 1
                 /\ \A f \in Files : disk'[f] \in had' /\ (f <= changes + 1 => disk'[f] = disk[f])
      <4>1. /\ disk' = [disk EXCEPT ![changes + 2] = c] /\ had' = had \cup {c}
            /\ path' = changes + 2
        BY <3>2 DEF ReplaceFile
      <4> QED
        BY <1>0, <2>1, <4>1 DEF Filed, TypeOK, Files
    <3> QED
      BY <1>2, <3>1, <3>2
  <2>3. Filed'
    BY <1>0, <2>1, <2>2 DEF Filed, TypeOK, Files
  <2>4. ASSUME NEW t \in Transfers PROVE OneIsPure(t)'
    <3>1. file[t] \in Files /\ file[t] <= changes + 1
      BY <1>0 DEF Filed, TypeOK
    <3> QED
      BY <1>0, <2>1, <2>2, <3>1, PureStays
  <2> QED
    BY <2>3, <2>4 DEF PureInv
<1> QED
  BY <1>1, <1>2

LEMMA PureStep == PureInv /\ [Next]_vars => PureInv'
<1> SUFFICES ASSUME PureInv, [Next]_vars PROVE PureInv'
  OBVIOUS
<1>0. /\ FileInv /\ TypeOK /\ Filed /\ FileInv' /\ \A t \in Transfers : OneIsPure(t)
  BY FileStep DEF PureInv, FileInv
<1>1. CASE Take \/ Close \/ UNCHANGED vars
  <2>1. UNCHANGED <<drive, task, file, position, hasher, buffer, offset, sent, written>>
    BY <1>1 DEF Take, Close, vars, drive
  <2> QED
    BY <1>0, <2>1, PureStays DEF PureInv, Filed, drive
<1>2. ASSUME NEW t \in Transfers, Start(t) \/ Step(t) PROVE PureInv'
  <2>1. UNCHANGED drive /\ \A u \in Transfers \ {t} : Untouched(u)
    <3>1. CASE Start(t) \/ Open(t) \/ Metadata(t) \/ HashBlock(t) \/ HashEnd(t) \/ Reopen(t)
      BY <1>0, <3>1
      DEF Start, Open, Metadata, HashBlock, HashEnd, Reopen, Goto, drive, channel, Untouched,
          TypeOK
    <3>2. CASE SendInit(t) \/ SendChunk(t) \/ SendDone(t)
      BY <1>0, <3>2 DEF SendInit, SendChunk, SendDone, Send, Goto, drive, Untouched, TypeOK
    <3>3. CASE ReadBlock(t) \/ ReadEnd(t) \/ Fail(t)
      BY <1>0, <3>3 DEF ReadBlock, ReadEnd, Fail, Goto, drive, channel, Untouched, TypeOK
    <3> QED
      BY <1>2, <3>1, <3>2, <3>3 DEF Step
  <2>2. Filed'
    <3>1. file'[t] = file[t] \/ file'[t] = path
      BY <1>0, <1>2
      DEF Start, Step, Open, Metadata, HashBlock, HashEnd, Reopen, SendInit, ReadBlock,
          SendChunk, ReadEnd, SendDone, Fail, TypeOK
    <3> QED
      BY <1>0, <2>1, <3>1 DEF Filed, drive, Untouched
  <2>3. OneIsPure(t)'
    <3>1. CASE Start(t)
      BY <1>0, <3>1 DEF Start, Goto, OneIsPure, TypeOK
    <3>2. CASE Open(t)
      <4>1. task'[t] = "metadata" /\ position'[t] = 0
        BY <1>0, <3>2 DEF Open, Goto, TypeOK
      <4> QED
        BY <4>1 DEF OneIsPure, HashPure, ReadPure, Hashed
    <3>3. CASE Fail(t)
      <4>1. task'[t] = "error"
        BY <1>0, <3>3 DEF Fail, TypeOK
      <4> QED
        BY <4>1 DEF OneIsPure, HashPure, ReadPure, Hashed
    <3>4. CASE Step(t) /\ ~Open(t) /\ ~Fail(t)
      <4>1. /\ HashPure(t) => HashPure(t)'
            /\ ReadPure(t) => ReadPure(t)'
        BY <1>0, <3>4, PureSteps
      <4>2. written' = written /\ task[t] \notin {"idle", "open"}
        BY <3>4
        DEF Step, Metadata, HashBlock, HashEnd, Reopen, SendInit, ReadBlock, SendChunk, ReadEnd,
            SendDone, Goto
      <4> QED
        BY <1>0, <4>1, <4>2 DEF OneIsPure
    <3> QED
      BY <1>2, <3>1, <3>2, <3>3, <3>4
  <2>4. \A u \in Transfers \ {t} : OneIsPure(u)'
    BY <1>0, <2>1, PureStays DEF Untouched, drive
  <2> QED
    BY <1>0, <2>2, <2>3, <2>4 DEF PureInv
<1> QED
  BY <1>0, <1>1, <1>2, PureChange DEF Next

\* As long as a program has written into the file at most once, what is accepted
\* is the file as it was at some moment; replacing it does no harm.
THEOREM AcceptedFileExisted == Spec => []AcceptedExisted
<1>1. PureInv => AcceptedExisted
  <2> SUFFICES ASSUME PureInv, NEW t \in Transfers, Accepted(t), written[t] <= 1
               PROVE  Received(t) \in had
    BY DEF AcceptedExisted
  <2>1. FileInv /\ Good(t) /\ OneIsPure(t) /\ written[t] \in {0, 1} /\ had \subseteq Contents
    BY SMTT(20) DEF PureInv, FileInv, TypeOK
  <2>2. Complete(t) /\ task[t] = "ok" /\ sent[t][1] = InitMessage(t)
    BY <2>1 DEF Accepted, Good, SentSoFar, Complete
  <2>3. CASE HashPure(t)
    BY <2>2, <2>3 DEF HashPure, Hashed, Accepted, InitMessage
  <2>4. CASE ReadPure(t)
    <3>1. PICK d \in had : Carry(t, d) /\ Len(sent[t]) = Len(d) + 2
      BY <2>2, <2>4 DEF ReadPure
    <3>2. d \in Seq(Blocks)
      BY <2>1, FileDropAssumption
    <3> QED
      BY <2>1, <3>1, <3>2, ChunksAmountTo DEF Carry
  <2> QED
    BY <2>1, <2>2, <2>3, <2>4 DEF OneIsPure
<1> QED
  BY <1>1, PureInit, PureStep, PTL DEF Spec
=============================================================================
