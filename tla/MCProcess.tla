----------------------------- MODULE MCProcess -----------------------------
(* Instance of Process for TLC.                                            *)
EXTENDS Process

MCCode == {-1, 0}
=============================================================================
