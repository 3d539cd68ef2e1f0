------------------------------- MODULE MCWal -------------------------------
(* Instances of Wal for TLC.                                                 *)
EXTENDS Wal

AllFaults == IOCalls
RetryableFaults == {"write", "sync"}
=============================================================================
