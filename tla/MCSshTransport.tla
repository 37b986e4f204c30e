--------------------------- MODULE MCSshTransport ---------------------------
(* Two channels; one of them carries data, the other one takes its packets off    *)
(* the socket.  More than the window both ways while nothing fails, a server that  *)
(* hangs up, and operations and connections that are cancelled.                 *)
EXTENDS SshTransport

CONSTANTS a, b

Of(n) == [c \in {a, b} |-> IF c = a THEN n ELSE 0]
MCLoads == {[sends |-> Of(1), payload |-> Of(2), trouble |-> "none"],
            [sends |-> Of(1), payload |-> Of(1), trouble |-> "hangup"],
            [sends |-> Of(1), payload |-> Of(0), trouble |-> "cancel"]}
=============================================================================
