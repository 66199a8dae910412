------------------------ MODULE MCMailboxConnection ------------------------
(* Small instances of MailboxConnection for TLC.                           *)
EXTENDS MailboxConnection
=============================================================================
