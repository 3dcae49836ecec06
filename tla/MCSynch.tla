------------------------------ MODULE MCSynch ------------------------------
(* Instance of Synch for TLC: two threads besides main and idle, one lock of  *)
(* their own with a condition, and a semaphore that a device ups too.      *)
EXTENDS Synch

CONSTANTS lk

MCCondLock == [c \in Cond |-> lk]
=============================================================================
