----------------------------- MODULE MCMsgLooper -----------------------------
(* Small instances of MsgLooper for TLC.                                   *)
EXTENDS MsgLooper, TLC

CONSTANTS s1, s2, p1, looper

=============================================================================
