------------------------------- MODULE MCHost --------------------------------
(* How a host hears of its children: the parser of what they send, the calls *)
(* that read and write a pty, and the signals that say there is something to *)
(* read.  No variable is common to two of them, so each is searched while    *)
(* the others rest as they began.                                            *)
EXTENDS MCParser, MCPtyIO, MCAsync

VARIABLE part   \* the one that takes the steps

hostVars == <<part, parserVars, vars, asyncVars>>

\* The parser rests in a terminal of UTF-8.
HostInit ==
  /\ ParserInit /\ Init /\ AsyncInit
  /\ part \in {"parser", "pty", "signals"}
  /\ part # "parser" => kind = K(TRUE, TRUE, FALSE, {})

HostNext ==
  /\ \/ part = "parser" /\ ParserNext /\ UNCHANGED <<vars, asyncVars>>
     \/ part = "pty" /\ Next /\ UNCHANGED <<parserVars, asyncVars>>
     \/ part = "signals" /\ AsyncNext /\ UNCHANGED <<parserVars, vars>>
  /\ UNCHANGED part

\* The pty and the signals have the fairness they have alone.
HostFairness ==
  /\ WF_vars(part = "pty" /\ InCall)
  /\ WF_vars(part = "pty" /\ (NoticeExit \/ ReadPipe))
  /\ WF_vars(part = "pty" /\ Child)
  /\ WF_asyncVars(part = "signals" /\ Deliver)
  /\ WF_asyncVars(part = "signals" /\ signal_io)
  /\ WF_asyncVars(part = "signals" /\ Call)
  /\ WF_asyncVars(part = "signals" /\ HostLoop)
  /\ SF_asyncVars(part = "signals" /\ StartRound)

HostSpec == HostInit /\ [][HostNext]_hostVars /\ HostFairness
==============================================================================
