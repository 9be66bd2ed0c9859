---------------------------- MODULE MCClipboard -----------------------------
(* One text and one image, so that the user and a peer may put the same      *)
(* content on the clipboard, and enough changes for a copy before, during    *)
(* and after a poll or an apply_payload that is already in progress.         *)
EXTENDS Clipboard

CONSTANTS t, i    \* model values: a text and an image
MCTexts == {t}
MCImages == {i}
=============================================================================
