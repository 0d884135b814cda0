------------------------------- MODULE MCPtyIO -------------------------------
(* TLC instances of PtyIO: queues of a few bytes, so that every call meets   *)
(* a full one, and the child a full one too where OutRoom < OutLimit.        *)
EXTENDS PtyIO

MCQueries == {2}
MCDataLens == {1, 2}
=============================================================================
