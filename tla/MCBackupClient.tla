--------------------------- MODULE MCBackupClient ---------------------------
(***************************************************************************)
(* BackupClient with two files of up to two chunks.                        *)
(***************************************************************************)
EXTENDS BackupClient, MCRequestHandler

Files == {<<>>, <<x>>, <<x, x>>}
=============================================================================
