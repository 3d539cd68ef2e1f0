----------------------------- MODULE DurableLog -----------------------------
(* What a write-ahead log promises its users, with nothing said of segments, *)
(* buffers or LSNs: entries enter the log, a confirmed entry is lost by no   *)
(* crash, and leaves the log only when the user has it deleted.  Module Wal  *)
(* implements this specification.                                            *)

VARIABLES
  log,      \* the entries in the log
  durable,  \* the entries a flush has confirmed
  deleted   \* the entries deleted by the user

Init == log = {} /\ durable = {} /\ deleted = {}

Append == log \subseteq log' /\ UNCHANGED <<durable, deleted>>

Confirm ==
  /\ durable \subseteq durable' /\ durable' \subseteq durable \cup log
  /\ UNCHANGED <<log, deleted>>

Crash ==
  /\ log' \subseteq log /\ durable \ deleted \subseteq log'
  /\ UNCHANGED <<durable, deleted>>

Delete ==
  /\ deleted \subseteq deleted'
  /\ log' \subseteq log /\ log \subseteq log' \cup deleted'
  /\ UNCHANGED durable

Next == Append \/ Confirm \/ Crash \/ Delete

Spec == Init /\ [][Next]_<<log, durable, deleted>>
=============================================================================
