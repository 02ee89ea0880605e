------------------------- MODULE MCUpstreamSession -------------------------
(* Small instances of UpstreamSession for TLC. *)
EXTENDS UpstreamSession
CONSTANTS inbox, archive
OneMailbox == {inbox}
TwoMailboxes == {inbox, archive}
=============================================================================
