-------------------------- MODULE ClipboardProofs --------------------------
(***************************************************************************)
(* The clipboard service forgets no copy, echoes nothing and serves what   *)
(* it announced, for any contents, any number of changes and any failures. *)
(***************************************************************************)
EXTENDS Clipboard, TLAPS

\* What the service wrote stays on the clipboard only behind a recorded count,
\* or one that is about to be recorded.
OwnWriteKnown ==
    owner = "service" => \/ clip = Empty
                         \/ task = "recount"
                         \/ task = "idle" /\ last_change_count = count

\* A user's copy that is found after the service's write is a later one, unless
\* that write did nothing.
RecountedLater ==
    task = "recount" /\ owner = "user"
        => \/ count > wrote
           \/ os = "windows" /\ payload \in Images

ClipInv ==
    /\ TypeOK /\ NothingForgotten /\ NoEcho /\ AnnouncedIsServed
    /\ OwnWriteKnown /\ RecountedLater

LEMMA ContentTypes ==
    /\ Empty \in Contents
    /\ \A p \in Payloads : AsContent(p) \in Contents
BY ClipboardAssumption DEF Empty, Contents, Payloads, AsContent

\* What the two reads may return.
LEMMA ReadTypes ==
    ASSUME TypeOK
    PROVE  /\ \A p \in read_text : p = None \/ (p \in Payloads /\ clip # Empty)
           /\ \A p \in read_image : p = None \/ (p \in Payloads /\ clip # Empty)
BY DEF TypeOK, read_text, read_image, Contents, Payloads, Empty

LEMMA ClipInit == Init => ClipInv
<1> SUFFICES ASSUME Init PROVE ClipInv
  OBVIOUS
<1>1. TypeOK
  <2>1. count = 0 /\ last_change_count = 0 /\ wrote = 0 /\ 0 \in 0 .. 0
    BY DEF Init
  <2>2. copying \in BOOLEAN
    BY DEF Init
  <2>3. owner \in {"user", "service"} /\ task \in Tasks /\ fate \in Fates
    BY DEF Init, Tasks, Fates
  <2>4. /\ os \in Systems /\ clip \in Contents /\ payload \in Payloads
        /\ cached_payloads \subseteq Payloads
        /\ announced \subseteq [payload : Payloads, by : {"user", "service"}]
    BY DEF Init
  <2> QED
    BY <2>1, <2>2, <2>3, <2>4 DEF TypeOK
<1>2. /\ NothingForgotten /\ NoEcho /\ AnnouncedIsServed
      /\ OwnWriteKnown /\ RecountedLater
  BY DEF Init, NothingForgotten, Pending, NoEcho, AnnouncedIsServed, OwnWriteKnown,
         RecountedLater
<1> QED
  BY <1>1, <1>2 DEF ClipInv

\* A write changes the clipboard and the count, and keeps the types.
LEMMA WriteTypes ==
    ASSUME TypeOK, NEW c \in Contents, Write(c),
           task' \in Tasks, payload' \in Payloads,
           UNCHANGED <<os, last_change_count, cached_payloads, announced, fate>>
    PROVE  TypeOK'
<1>1. /\ count' = count + 1 /\ wrote' = count + 1 /\ last_change_count' = last_change_count
      /\ count' \in Nat /\ wrote' \in 0 .. count' /\ last_change_count' \in 0 .. count'
  BY DEF TypeOK, Write
<1>2. copying' \in BOOLEAN /\ owner' \in {"user", "service"} /\ clip' \in Contents
  BY DEF Write
<1>3. /\ os' \in Systems /\ cached_payloads' \subseteq Payloads
      /\ announced' \subseteq [payload : Payloads, by : {"user", "service"}]
      /\ fate' \in Fates
  BY DEF TypeOK
<1> QED
  BY <1>1, <1>2, <1>3 DEF TypeOK

\* The notification of a poll: the content that was read is a user's.
LEMMA NotifyStep ==
    ASSUME ClipInv, NEW p \in Payloads, clip # Empty, Notify(p),
           task \in {"read_text", "read_image"},
           UNCHANGED <<os, clipboard, payload, last_change_count, wrote>>
    PROVE  ClipInv'
<1> USE DEF ClipInv, TypeOK, Notify, clipboard
<1>1. owner = "user"
  BY DEF OwnWriteKnown
<1>2. TypeOK'
  BY DEF Tasks, Fates
<1>3. NothingForgotten' /\ OwnWriteKnown' /\ RecountedLater'
  BY <1>1 DEF NothingForgotten, Pending, OwnWriteKnown, RecountedLater
<1>4. announced' = announced \cup {[payload |-> p, by |-> "user"]}
  BY <1>1
<1>5. NoEcho'
  BY <1>4 DEF NoEcho
<1>6. AnnouncedIsServed'
  <2>1. \A a \in announced : a.payload \in Payloads /\ get_payload(a.payload) = a.payload
    BY DEF AnnouncedIsServed
  <2>2. \A a \in announced : a.payload \in cached_payloads
    BY <2>1, ClipboardAssumption DEF get_payload, Payloads
  <2>3. \A a \in announced' : a.payload \in cached_payloads'
    BY <1>4, <2>2
  <2> QED
    BY <2>3 DEF AnnouncedIsServed, get_payload
<1> QED
  BY <1>2, <1>3, <1>5, <1>6

LEMMA ClipStep == ClipInv /\ [Next]_vars => ClipInv'
<1> SUFFICES ASSUME ClipInv, [Next]_vars PROVE ClipInv'
  OBVIOUS
<1> USE DEF ClipInv, TypeOK, Tasks, Fates
<1>1. ASSUME NEW c \in Contents, BeginCopy(c) PROVE ClipInv'
  BY <1>1 DEF BeginCopy, NothingForgotten, Pending, NoEcho, AnnouncedIsServed, get_payload,
              OwnWriteKnown, RecountedLater
<1>2. CASE EndCopy
  <2>1. copying' = FALSE /\ copying' \in BOOLEAN
    BY <1>2 DEF EndCopy
  <2>2. CASE UNCHANGED <<count, owner, fate>>
    BY <1>2, <2>1, <2>2
    DEF EndCopy, NothingForgotten, Pending, NoEcho, AnnouncedIsServed, get_payload,
        OwnWriteKnown, RecountedLater
  <2>3. CASE count' = count + 1 /\ owner' = "user" /\ fate' = "pending"
    <3>1. /\ count' \in Nat /\ last_change_count' \in 0 .. count' /\ wrote' \in 0 .. count'
          /\ count' # last_change_count' /\ count' > wrote'
      BY <1>2, <2>3 DEF EndCopy
    <3>2. TypeOK'
      BY <1>2, <2>1, <2>3, <3>1 DEF EndCopy
    <3> QED
      BY <1>2, <2>3, <3>1, <3>2
      DEF EndCopy, NothingForgotten, Pending, NoEcho, AnnouncedIsServed, get_payload,
          OwnWriteKnown, RecountedLater
  <2> QED
    BY <1>2, <2>2, <2>3 DEF EndCopy
<1>3. CASE PollChanges
  BY <1>3 DEF PollChanges, clipboard, NothingForgotten, Pending, NoEcho, AnnouncedIsServed,
              get_payload, OwnWriteKnown, RecountedLater
<1>4. CASE ReadText
  <2>1. PICK text \in read_text :
           \/ text # None /\ Notify(text)
           \/ /\ text = None /\ task' = "read_image"
              /\ UNCHANGED <<cached_payloads, announced, fate>>
    BY <1>4 DEF ReadText
  <2>2. CASE text # None /\ Notify(text)
    BY <1>4, <2>2, ReadTypes, NotifyStep DEF ReadText
  <2>3. CASE text = None /\ task' = "read_image" /\ UNCHANGED <<cached_payloads, announced, fate>>
    BY <1>4, <2>3 DEF ReadText, clipboard, NothingForgotten, Pending, NoEcho,
                      AnnouncedIsServed, get_payload, OwnWriteKnown, RecountedLater
  <2> QED
    BY <2>1, <2>2, <2>3
<1>5. CASE ReadImage
  <2>1. PICK image \in read_image : (image # None /\ Notify(image)) \/ (image = None /\ GiveUp)
    BY <1>5 DEF ReadImage
  <2>2. CASE image # None /\ Notify(image)
    BY <1>5, <2>2, ReadTypes, NotifyStep DEF ReadImage
  <2>3. CASE GiveUp
    BY <1>5, <2>3 DEF ReadImage, GiveUp, clipboard, NothingForgotten, Pending, NoEcho,
                      AnnouncedIsServed, get_payload, OwnWriteKnown, RecountedLater
  <2> QED
    BY <2>1, <2>2, <2>3
<1>6. CASE SetString
  BY <1>6, ContentTypes DEF SetString, NothingForgotten, Pending, NoEcho, AnnouncedIsServed,
              get_payload, OwnWriteKnown, RecountedLater
<1>7. CASE Recount
  BY <1>7 DEF Recount, clipboard, NothingForgotten, Pending, NoEcho, AnnouncedIsServed,
              get_payload, OwnWriteKnown, RecountedLater
<1>8. ASSUME NEW p \in Payloads, ClearContents(p) PROVE ClipInv'
  <2>1. Write(Empty)
    BY <1>8 DEF ClearContents
  <2>2. /\ task' \in Tasks /\ payload' \in Payloads
        /\ UNCHANGED <<os, last_change_count, cached_payloads, announced, fate>>
    BY <1>8 DEF ClearContents
  <2>3. TypeOK'
    BY <2>1, <2>2, ContentTypes, WriteTypes
  <2> QED
    BY <1>8, <2>1, <2>3 DEF ClearContents, Write, NothingForgotten, Pending, NoEcho,
              AnnouncedIsServed, get_payload, OwnWriteKnown, RecountedLater
<1>9. ASSUME NEW p \in Payloads, WriteText(p) PROVE ClipInv'
  <2>1. PICK c \in {AsContent(p), Empty} : Write(c)
    BY <1>9 DEF WriteText
  <2>2. /\ task' \in Tasks /\ payload' \in Payloads
        /\ UNCHANGED <<os, last_change_count, cached_payloads, announced, fate>>
    BY <1>9 DEF WriteText
  <2>3. TypeOK'
    BY <2>1, <2>2, ContentTypes, WriteTypes
  <2> QED
    BY <1>9, <2>1, <2>3 DEF WriteText, Write, NothingForgotten, Pending, NoEcho,
              AnnouncedIsServed, get_payload, OwnWriteKnown, RecountedLater
<1>10. ASSUME NEW p \in Payloads, WriteImage(p) PROVE ClipInv'
  BY <1>10 DEF WriteImage, clipboard, NothingForgotten, Pending, NoEcho,
              AnnouncedIsServed, get_payload, OwnWriteKnown, RecountedLater
<1>11. CASE Restart
  BY <1>11 DEF Restart, clipboard, NothingForgotten, Pending, NoEcho,
              AnnouncedIsServed, get_payload, OwnWriteKnown, RecountedLater
<1>12. CASE UNCHANGED vars
  BY <1>12 DEF vars, clipboard, NothingForgotten, Pending, NoEcho,
              AnnouncedIsServed, get_payload, OwnWriteKnown, RecountedLater
<1> QED
  BY <1>1, <1>2, <1>3, <1>4, <1>5, <1>6, <1>7, <1>8, <1>9, <1>10, <1>11, <1>12
  DEF Next, Service, ApplyPayload

\* The service never records a count that the clipboard has not reached.
THEOREM ClipboardTyped == Spec => []TypeOK
<1>1. ClipInv => TypeOK
  BY DEF ClipInv
<1> QED
  BY <1>1, ClipInit, ClipStep, PTL DEF Spec

\* No user's copy stays behind a recorded count without having been looked at.
THEOREM NoCopyForgotten == Spec => []NothingForgotten
<1>1. ClipInv => NothingForgotten
  BY DEF ClipInv
<1> QED
  BY <1>1, ClipInit, ClipStep, PTL DEF Spec

\* What a peer sent never goes back to the peers as a notification.
THEOREM PeersHearNoEcho == Spec => []NoEcho
<1>1. ClipInv => NoEcho
  BY DEF ClipInv
<1> QED
  BY <1>1, ClipInit, ClipStep, PTL DEF Spec

\* Every hash that the running process announced can be asked for.
THEOREM AnnouncedCanBeHad == Spec => []AnnouncedIsServed
<1>1. ClipInv => AnnouncedIsServed
  BY DEF ClipInv
<1> QED
  BY <1>1, ClipInit, ClipStep, PTL DEF Spec

\* Only a copy made between the write and the reading of the count is taken for
\* the service's own, except for the images that Windows does not write.
THEOREM OnlyLaterCopiesCovered == Spec => CoveredCameLater
<1>1. ClipInv /\ [Next]_vars =>
        [fate' = "covered" /\ fate # "covered"
            => \/ count > wrote
               \/ os = "windows" /\ payload \in Images]_vars
  <2> SUFFICES ASSUME ClipInv, Next, fate' = "covered", fate # "covered"
               PROVE  count > wrote \/ (os = "windows" /\ payload \in Images)
    BY DEF vars
  <2>1. Recount
    BY DEF Next, Service, ApplyPayload, BeginCopy, EndCopy, PollChanges, ReadText, ReadImage,
           Notify, GiveUp, SetString, ClearContents, WriteText, WriteImage, Restart
  <2> QED
    BY <2>1 DEF Recount, ClipInv, RecountedLater
<1> QED
  BY <1>1, ClipInit, ClipStep, PTL DEF Spec, CoveredCameLater
=============================================================================
