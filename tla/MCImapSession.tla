--------------------------- MODULE MCImapSession ---------------------------
(* Small instances of ImapSession for TLC. *)
EXTENDS ImapSession
CONSTANTS inbox, archive, m1, m2, m3
OneMailbox == {inbox}
TwoMailboxes == {inbox, archive}
TwoMessages == {m1, m2}
ThreeMessages == {m1, m2, m3}
=============================================================================
