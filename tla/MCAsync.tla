------------------------------- MODULE MCAsync -------------------------------
(* A TLC instance of Async: a pipe with room for every signal the children    *)
(* can raise.                                                                 *)
EXTENDS Async

MCPipeRoom == PrintLimit * Cardinality(Term)
=============================================================================
