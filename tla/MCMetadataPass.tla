--------------------------- MODULE MCMetadataPass ---------------------------
(***************************************************************************)
(* Values of MetadataPass's constants for TLC.                             *)
(***************************************************************************)
EXTENDS MetadataPass

\* A server may count an expunge as a change or not.
BumpEither == {TRUE, FALSE}

=============================================================================
