-------------------------- MODULE MCBackupRestore --------------------------
\* Model of BackupRestore for TLC; the .cfg files give the bounds.
EXTENDS BackupRestore, TLC
CONSTANTS s1, s2, h1, h1r, h2, c1, c2, p1
MCHome == [h \in Handles |-> IF h = h2 THEN s2 ELSE s1]
MCSuffixed == [h \in Handles |-> IF h = h1 THEN IF h1r \in Handles THEN h1r ELSE None ELSE None]
=============================================================================
