--------------------------- MODULE MCTerminalStop ---------------------------
(* Liveness of TerminalConnection, in two scenes: what is under way when the    *)
(* connection is told to stop is a transfer, or an exchange or a BREAK with      *)
(* output in the queue.                                                      *)
EXTENDS TerminalConnection

CONSTANT a
VARIABLE scene
Calls == INSTANCE TerminalConnection WITH
  Callers <- {a}, Kinds <- {"encoding", "service"}, Capacity <- 1, Chunk <- 1,
  Input <- 1, Typed <- 1, Header <- {}, Partial <- {}, Exchanges <- 1, Losses <- 0,
  Events <- {"stop"}

Transfer == scene = "transfer"
MCInit == \/ Transfer /\ Init
          \/ scene = "calls" /\ Calls!Init
MCNext == /\ scene' = scene
          /\ IF Transfer THEN Next ELSE Calls!Next
\* The fairness of TerminalConnection in each scene.
MCSpec == /\ MCInit /\ [][MCNext]_<<scene, vars>>
          /\ SF_vars(IF Transfer THEN Main ELSE Calls!Main)
          /\ SF_vars(IF Transfer THEN Reader ELSE Calls!Reader)
          /\ SF_vars(IF Transfer THEN Writer ELSE Calls!Writer)
          /\ SF_vars(IF Transfer THEN Proceeds(a) ELSE Calls!Proceeds(a))
          /\ SF_vars(IF Transfer THEN Dispatch \/ DispatchNothing
                     ELSE Calls!Dispatch \/ Calls!DispatchNothing)
          /\ SF_vars(IF Transfer THEN TransportAnswers("main") ELSE Calls!TransportAnswers("main"))
=============================================================================
