----------------------------- MODULE MCExecutor -----------------------------
(* Two workers; the broadcast queue and the response queues hold one message.  *)
EXTENDS Executor
=============================================================================
