---------------------------- MODULE MCScanStatePool ----------------------------
(* ScanStatePool for TLC: two directories, so that a call may find the file   *)
(* of another one, and every system call may fail.                            *)
EXTENDS ScanStatePool, TLC

CONSTANTS d1, d2

MCDirs == {d1, d2}
DirSymmetry == Permutations(MCDirs)
AllFaults == SystemCalls

================================================================================
