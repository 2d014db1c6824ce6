--------------------------- MODULE MCStoragePurge ---------------------------
(* A pool that holds a run that is not translated, with its prologues.      *)
EXTENDS StoragePurge

File(k, n) == [kind |-> k, size |-> n, open |-> FALSE]
Old(day, run, files, marks) == [day |-> day, run |-> run, files |-> files, marks |-> marks]
MCOldDisks == { << Old(0, 1, <<File("run", 3), File("prologue-ds", 1), File("prologue-m", 1)>>, {}) >> }
=============================================================================
