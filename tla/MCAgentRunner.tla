--------------------------- MODULE MCAgentRunner ---------------------------
(* Small instances of AgentRunner. *)
EXTENDS AgentRunner

\* Handlers the tests wrap so that a failure is retryable.
WrappedTools == {"refresh", "report"}
NoTools      == {}
=============================================================================
