--------------------------- MODULE MCAgentProcess ---------------------------
(* AgentProcess on a small instance: one connection, one opaque task, one    *)
(* blocking thread, one failing read, and one start: only audit entries       *)
(* outlive a process.                                                         *)
EXTENDS AgentProcess
=============================================================================
