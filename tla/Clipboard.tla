----------------------------- MODULE Clipboard ------------------------------
(***************************************************************************)
(* ClipboardService of kvm-clipboard/src/lib.rs on the clipboards of       *)
(* macos/clipboard.rs and windows/clipboard.rs.                            *)
(*                                                                         *)
(* The clipboard belongs to the whole system: the user's applications      *)
(* change it between any two calls of the service.  The service itself     *)
(* does one thing at a time (poll_changes and apply_payload take           *)
(* &mut self), in steps that are single calls of the clipboard.  A copy    *)
(* takes an application two calls, as it takes write_text two: the first   *)
(* one changes the count, on Windows perhaps the second as well, and only  *)
(* after it can others read the new content (macOS: clearContents, then    *)
(* setString; Windows: EmptyClipboard, then SetClipboardData, and all the  *)
(* while the clipboard is closed to others).                               *)
(***************************************************************************)
EXTENDS Naturals

CONSTANTS
    None,        \* a format the clipboard does not hold
    Texts,       \* texts, as read_text returns them
    Images,      \* PNG images
    Systems,     \* the systems the service runs on
    MaxCount     \* bound on the change count, for TLC

ASSUME ClipboardAssumption ==
    /\ None \notin Texts \cup Images /\ Texts \cap Images = {}
    /\ Systems \subseteq {"macos", "windows"}
    /\ MaxCount \in Nat

\* What a clipboard holds.  Other formats are neither read nor written: with
\* nothing but these it is empty to the service.
Contents == [text : Texts \cup {None}, image : Images \cup {None}]
Empty == [text |-> None, image |-> None]
Payloads == Texts \cup Images
AsContent(p) == IF p \in Texts THEN [Empty EXCEPT !.text = p] ELSE [Empty EXCEPT !.image = p]

VARIABLES
    os,                 \* the system; never changes
    clip,               \* the content of the clipboard
    count,              \* get_change_count
    copying,            \* an application is between the two calls of a copy
    owner,              \* who changed the clipboard last: "user" or "service"
    task,               \* where the service is
    payload,            \* the payload that is being applied
    last_change_count,
    cached_payloads,    \* the payloads in the cache
    announced,          \* history: [payload, by] of this process's notifications
    fate,               \* history: what became of the user's copy on the clipboard
    wrote               \* history: the count after the service's last write

clipboard == <<clip, count, copying, owner>>
vars == <<os, clip, count, copying, owner, task, payload, last_change_count,
          cached_payloads, announced, fate, wrote>>

Tasks == {"idle", "read_text", "read_image", "set", "recount"}
\* "unread": a poll recorded its count and could not read it; "covered": an
\* apply_payload recorded its count; "before": it is older than the process.
Fates == {"pending", "announced", "unread", "covered", "before"}

\* The first call of a copy by an application; on macOS it takes the clipboard
\* from an application that is between its two calls.
BeginCopy(c) ==
    /\ count < MaxCount
    /\ copying => os = "macos"
    /\ clip' = c /\ count' = count + 1 /\ copying' = TRUE /\ owner' = "user"
    /\ fate' = "pending"
    /\ UNCHANGED <<os, task, payload, last_change_count, cached_payloads, announced, wrote>>

\* And the second one.
EndCopy ==
    /\ copying
    /\ copying' = FALSE
    /\ \/ UNCHANGED <<count, owner, fate>>
       \/ /\ os = "windows" /\ count < MaxCount
          /\ count' = count + 1 /\ owner' = "user" /\ fate' = "pending"
    /\ UNCHANGED <<os, clip, task, payload, last_change_count, cached_payloads,
                   announced, wrote>>

\* read_text and read_image: what they may return.  On Windows any application
\* that has the clipboard open makes OpenClipboard fail, and there are no images.
read_text ==
    (IF copying THEN {} ELSE {clip.text}) \cup (IF copying \/ os = "windows" THEN {None} ELSE {})
read_image == IF copying \/ os = "windows" THEN {None} ELSE {clip.image}

\* Variant: the count is compared with one too many.
PollChangesAhead ==
    /\ task = "idle" /\ count # last_change_count
    /\ last_change_count' = count + 1
    /\ task' = "read_text"
    /\ UNCHANGED <<os, clipboard, payload, cached_payloads, announced, fate, wrote>>

\* poll_changes finds a new count; it returns at once when there is none.
PollChanges ==
    /\ task = "idle" /\ count # last_change_count
    /\ last_change_count' = count
    /\ task' = "read_text"
    /\ UNCHANGED <<os, clipboard, payload, cached_payloads, announced, fate, wrote>>

\* poll_changes returns a ClipboardNotify for p, which it has put in the cache.
Notify(p) ==
    /\ cached_payloads' = cached_payloads \cup {p}
    /\ announced' = announced \cup {[payload |-> p, by |-> owner]}
    /\ task' = "idle"
    /\ fate' = IF owner = "user" THEN "announced" ELSE fate

\* Variant: the image is not looked at.
ReadTextOnly ==
    /\ task = "read_text"
    /\ \E text \in read_text :
          \/ /\ text # None /\ Notify(text)
          \/ /\ text = None /\ task' = "idle"
             /\ UNCHANGED <<cached_payloads, announced, fate>>
    /\ UNCHANGED <<os, clipboard, payload, last_change_count, wrote>>

ReadText ==
    /\ task = "read_text"
    /\ \E text \in read_text :
          \/ /\ text # None /\ Notify(text)
          \/ /\ text = None /\ task' = "read_image"
             /\ UNCHANGED <<cached_payloads, announced, fate>>
    /\ UNCHANGED <<os, clipboard, payload, last_change_count, wrote>>

\* poll_changes returns None although the count was new: unless it changed
\* again, the copy on the clipboard is not looked at any more.
GiveUp ==
    /\ task' = "idle"
    /\ fate' = IF fate = "pending" /\ count = last_change_count THEN "unread" ELSE fate
    /\ UNCHANGED <<cached_payloads, announced>>

\* Variant: the count is recorded when the content has been read.
ReadImageThenCount ==
    /\ task = "read_image"
    /\ \E image \in read_image : (image # None /\ Notify(image)) \/ (image = None /\ GiveUp)
    /\ last_change_count' = count
    /\ UNCHANGED <<os, clipboard, payload, wrote>>

\* Variant: an image is not put in the cache.
ReadImageUncached ==
    /\ task = "read_image"
    /\ \E image \in read_image :
          \/ /\ image # None
             /\ announced' = announced \cup {[payload |-> image, by |-> owner]}
             /\ task' = "idle"
             /\ fate' = IF owner = "user" THEN "announced" ELSE fate
             /\ UNCHANGED cached_payloads
          \/ image = None /\ GiveUp
    /\ UNCHANGED <<os, clipboard, payload, last_change_count, wrote>>

ReadImage ==
    /\ task = "read_image"
    /\ \E image \in read_image : (image # None /\ Notify(image)) \/ (image = None /\ GiveUp)
    /\ UNCHANGED <<os, clipboard, payload, last_change_count, wrote>>

\* get_payload: the answer to a request for the hash of p.
get_payload(p) == IF p \in cached_payloads THEN p ELSE None

\* A write by the service, which has the clipboard to itself from then on.
Write(c) ==
    /\ count < MaxCount
    /\ clip' = c /\ count' = count + 1 /\ copying' = FALSE /\ owner' = "service"
    /\ wrote' = count + 1

\* apply_payload on macOS: clearContents takes the clipboard from whoever has it.
ClearContents(p) ==
    /\ os = "macos" /\ task = "idle"
    /\ Write(Empty)
    /\ task' = "set" /\ payload' = p
    /\ UNCHANGED <<os, last_change_count, cached_payloads, announced, fate>>

\* setString or setData, which fail when the clipboard has been taken since, and
\* may fail otherwise; apply_payload then returns an error.
SetString ==
    /\ task = "set"
    /\ \/ /\ owner = "service"
          /\ clip' = AsContent(payload) /\ task' = "recount"
       \/ task' = "idle" /\ UNCHANGED clip
    /\ UNCHANGED <<os, count, copying, owner, payload, last_change_count,
                   cached_payloads, announced, fate, wrote>>

\* Variant: a clipboard that cannot be opened is no error.
WriteTextAnyway(p) ==
    /\ os = "windows" /\ task = "idle" /\ p \in Texts
    /\ \/ /\ ~copying
          /\ \E c \in {AsContent(p), Empty} : Write(c)
       \/ UNCHANGED clipboard /\ wrote' = count
    /\ task' = "recount" /\ payload' = p
    /\ UNCHANGED <<os, last_change_count, cached_payloads, announced, fate>>

\* write_text on Windows.  Nothing happens, and apply_payload returns an error,
\* when the clipboard cannot be opened.  Without memory it is left empty, and
\* that is no error.
WriteText(p) ==
    /\ os = "windows" /\ task = "idle" /\ p \in Texts
    /\ ~copying
    /\ \E c \in {AsContent(p), Empty} : Write(c)
    /\ task' = "recount" /\ payload' = p
    /\ UNCHANGED <<os, last_change_count, cached_payloads, announced, fate>>

\* write_image on Windows does nothing, and that is no error.
WriteImage(p) ==
    /\ os = "windows" /\ task = "idle" /\ p \in Images
    /\ wrote' = count
    /\ task' = "recount" /\ payload' = p
    /\ UNCHANGED <<os, clipboard, last_change_count, cached_payloads, announced, fate>>

\* Variant: the service does not notice its own write.
RecountForgotten ==
    /\ task = "recount" /\ task' = "idle"
    /\ UNCHANGED <<os, clipboard, payload, last_change_count, cached_payloads, announced,
                   fate, wrote>>

\* The end of apply_payload: whatever the count is now, it is taken for its own.
Recount ==
    /\ task = "recount" /\ task' = "idle"
    /\ last_change_count' = count
    /\ fate' = IF owner = "user" /\ fate = "pending" THEN "covered" ELSE fate
    /\ UNCHANGED <<os, clipboard, payload, cached_payloads, announced, wrote>>

\* The process ends, at any point, and another one starts: ClipboardService::new.
Restart ==
    /\ task' = "idle"
    /\ last_change_count' = count
    /\ cached_payloads' = {} /\ announced' = {}
    /\ fate' = IF fate = "pending" THEN "before" ELSE fate
    /\ UNCHANGED <<os, clipboard, payload, wrote>>

Init ==
    /\ os \in Systems
    /\ clip \in Contents /\ count = 0 /\ copying = FALSE /\ owner = "user"
    /\ task = "idle" /\ payload \in Payloads
    /\ last_change_count = count
    /\ cached_payloads = {} /\ announced = {}
    /\ fate = "before" /\ wrote = 0

ApplyPayload(p) == ClearContents(p) \/ WriteText(p) \/ WriteImage(p)

\* What the service does by itself once it has been started on something.
Service == PollChanges \/ ReadText \/ ReadImage \/ SetString \/ Recount

Next ==
    \/ \E c \in Contents : BeginCopy(c)
    \/ EndCopy
    \/ Service
    \/ \E p \in Payloads : ApplyPayload(p)
    \/ Restart

\* The interval of main polls for ever, and the calls of the clipboard return;
\* nothing makes a user or a peer do anything.
Spec == Init /\ [][Next]_vars /\ WF_vars(Service)

-----------------------------------------------------------------------------
(* Properties.                                                              *)

\* Every variable has its type, and the service never recorded a count that the
\* clipboard did not reach.
TypeOK ==
    /\ os \in Systems
    /\ clip \in Contents /\ count \in Nat /\ copying \in BOOLEAN
    /\ owner \in {"user", "service"}
    /\ task \in Tasks /\ payload \in Payloads
    /\ last_change_count \in 0 .. count
    /\ cached_payloads \subseteq Payloads
    /\ announced \subseteq [payload : Payloads, by : {"user", "service"}]
    /\ fate \in Fates /\ wrote \in 0 .. count

\* The user's copy on the clipboard has not been dealt with.
Pending == owner = "user" /\ fate = "pending"

\* Because the count is recorded before the content is read, a copy that is made
\* during a poll is not taken for one that was seen: while a copy is pending,
\* either a poll is looking at it or the recorded count is not its own.
NothingForgotten ==
    Pending => count # last_change_count \/ task \in {"read_text", "read_image"}

\* What a peer sent is never announced back to the peers, whatever the user
\* copies meanwhile and whichever call fails: a notification is of a user's copy.
NoEcho == \A a \in announced : a.by = "user"

\* Who asks for the payload of a notification gets it, as long as the process
\* that sent the notification runs, even when the clipboard has moved on.
AnnouncedIsServed == \A a \in announced : get_payload(a.payload) = a.payload

\* A user's copy that apply_payload takes for its own write came after that
\* write, in the moment before the count is read; but an image applied on
\* Windows, where write_image does nothing, takes the place of any copy that no
\* poll has seen.
CoveredCameLater ==
    [][fate' = "covered" /\ fate # "covered"
          => \/ count > wrote
             \/ os = "windows" /\ payload \in Images]_vars

\* Every copy is announced, replaced, or ends in one of the known gaps; none
\* waits for ever behind a count that the service has already seen.
CopiesAreHandled == Pending ~> ~Pending
=============================================================================
