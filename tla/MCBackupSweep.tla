--------------------------- MODULE MCBackupSweep ---------------------------
(* Two runs on api files of one name, and an old copy.                  *)
EXTENDS BackupSweep

OneName == [p \in Proc |-> "demo.api"]
OldCopies == {<<"demo.api", 0>>}
=============================================================================
