------------------------ MODULE MCTerminalConnection ------------------------
(******************************************************************************)
(* Five instances of TerminalConnection; "scene" says which one a behaviour is   *)
(* of.  The constants of the configuration are those of "handover": a header      *)
(* starts a transfer, and the queues hold all that the peer sends.              *)
(******************************************************************************)
EXTENDS TerminalConnection, TLC

CONSTANTS a, b
VARIABLE scene

Alike == Permutations({a, b})

\* Two callers, full queues, a character of two bytes, failures and a stop.
Line == INSTANCE TerminalConnection WITH
  Callers <- {a, b}, Kinds <- {"encoding", "service", "resize"}, Capacity <- 1, Chunk <- 1,
  Input <- 2, Typed <- 1, Header <- {}, Partial <- {1}, Exchanges <- 1, Losses <- 0,
  Events <- {"stop", "failure"}
\* The carrier is lost once, with output in the queue and in the writer.
Carrier == INSTANCE TerminalConnection WITH
  Callers <- {a}, Kinds <- {"encoding", "service"}, Capacity <- 1, Chunk <- 1,
  Input <- 2, Typed <- 2, Header <- {}, Partial <- {1}, Exchanges <- 1, Losses <- 1, Events <- {}
\* The stream breaks off within a header and within a character of two bytes, which leaves
\* the reader more than the queue holds behind its end; a carrier that drops undoes an
\* exchange and lets another one come.
Cut == INSTANCE TerminalConnection WITH
  Callers <- {a}, Kinds <- {"encoding"}, Capacity <- 1, Chunk <- 1,
  Input <- 3, Typed <- 0, Header <- 1..4, Partial <- {3}, Exchanges <- 1, Losses <- 1, Events <- {"stop"}
\* A transfer begins and ends while the reader waits for room in its queue.
Full == INSTANCE TerminalConnection WITH
  Callers <- {a}, Kinds <- {"transfer"}, Capacity <- 1, Chunk <- 1,
  Input <- 3, Typed <- 0, Header <- {}, Partial <- {}, Exchanges <- 0, Losses <- 0, Events <- {"cancel"}
In(name) == scene = name
MCInit ==
  \/ In("line") /\ Line!Init
  \/ In("carrier") /\ Carrier!Init
  \/ In("cut") /\ Cut!Init
  \/ In("full") /\ Full!Init
  \/ In("handover") /\ Init
MCNext ==
  /\ scene' = scene
  /\ \/ In("line") /\ Line!Next
     \/ In("carrier") /\ Carrier!Next
     \/ In("cut") /\ Cut!Next
     \/ In("full") /\ Full!Next
     \/ In("handover") /\ Next
MCSpec == MCInit /\ [][MCNext]_<<scene, vars>>

\* The properties of TerminalConnection, commented there, in the scenes that reach
\* the hard case of each.

\* Every byte is in one place, and those of a closed connection are shown or gone to a
\* transfer (Accounted, ClosedDelivers); only an exchange that begins while the reader
\* queues what end of file left can lose some (LosesNone).
Accounts ==
  /\ [] /\ In("line") => Line!Accounted /\ Line!ClosedDelivers
        /\ In("carrier") => Carrier!Accounted
        /\ In("cut") => Cut!Accounted /\ Cut!ClosedDelivers
        /\ In("full") => Full!Accounted
        /\ In("handover") => Accounted
  /\ [][/\ In("line") => Line!LosesNone
        /\ In("carrier") => Carrier!LosesNone
        /\ In("cut") => Cut!LosesNone
        /\ In("full") => Full!LosesNone
        /\ In("handover") => LosesNone]_vars
\* One sender, one waiter for each condition, and nothing under way when the transport is
\* closed (OneSender, OneWaiter, TransportJoined); a carrier that drops takes old output
\* with it and loses no dispatch (Fenced, NoLostFrame).
WireSound ==
  /\ In("line") => /\ Line!TypeOK
                   /\ Line!OneSender /\ Line!OneWaiter /\ Line!TransportJoined
  /\ In("carrier") => Carrier!TypeOK /\ Carrier!Fenced /\ Carrier!NoLostFrame
  /\ In("cut") => Cut!TypeOK /\ Cut!OneWaiter
  /\ In("full") => Full!TypeOK
  /\ In("handover") => TypeOK
\* Text keeps its order through exchanges, carrier drops and a transfer that returns what
\* it read ahead, until a reader passes what a transfer left (KeepsOrder).
TextInOrder ==
  [][/\ In("line") => Line!KeepsOrder
     /\ In("carrier") => Carrier!KeepsOrder
     /\ In("cut") => Cut!KeepsOrder
     /\ In("full") => Full!KeepsOrder
     /\ In("handover") => KeepsOrder]_vars
=============================================================================
