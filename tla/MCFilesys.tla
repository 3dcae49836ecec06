----------------------------- MODULE MCFilesys -----------------------------
(* Instance of Filesys for TLC.                                            *)
EXTENDS Filesys, TLC

Symmetry == Permutations(Procs) \cup Permutations(Inodes)
=============================================================================
