------------------------------ MODULE MCBackup ------------------------------
(* Small instances of BackupRestore.                                       *)
EXTENDS BackupRestore
Clocks == {1, 2}
=============================================================================
