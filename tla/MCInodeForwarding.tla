-------------------------- MODULE MCInodeForwarding --------------------------
(* Instance of InodeForwarding for TLC: two servers; the root directory and a *)
(* second directory belong to server 0, the file to server 1.                 *)
EXTENDS InodeForwarding

CONSTANTS m0, m1, root, dir, file

MCMetas == {m0, m1}
MCDirs == {root, dir}
MCFiles == {file}
MCOwner == [i \in MCDirs \cup MCFiles |-> IF i = file THEN m1 ELSE m0]
MCPage == [i \in MCDirs \cup MCFiles |-> IF i = root THEN 0 ELSE 1]
=============================================================================
