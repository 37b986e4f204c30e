------------------------------ MODULE SmbClient ------------------------------
(***************************************************************************)
(* One share of the SMB client (smb-client.cpp): the operations of several callers on a *)
(* libsmb2 context, one command at a time, each with a callback in the frame of its       *)
(* coroutine.  An action runs from one await to the next; when a command has completed,   *)
(* its operation issues the next one in the same turn.                                *)
(*                                                                         *)
(* abort() destroys the context, which ends the connection and with it the handles at     *)
(* the server, and tells the application once.  A caller has one handle at a time.        *)
(***************************************************************************)
EXTENDS Naturals, Sequences

CONSTANTS Callers,
          Roles,         \* what the callers may be, each "stat", "modify", "read" or "write"
          Length,        \* bytes of a file that is read or written
          Chunk,         \* bytes of one request at most
          MaxTroubles    \* bound: errors and losses

ASSUME SmbAssumption ==
  /\ Roles \subseteq [Callers -> {"stat", "modify", "read", "write"}]
  /\ "nobody" \notin Callers /\ "stop" \notin Callers
  /\ Length \in Nat \ {0} /\ Chunk \in Nat \ {0} /\ MaxTroubles \in Nat

VARIABLES
  kind,      \* of each caller
  session,   \* context, stopping, and whose command is active
  queue,     \* the mutex operations: its owner first
  stage,     \* of each caller: "new", "waits" for the mutex, "runs", "held", "over"
  call,      \* what it asks for, and whether that has failed already
  todo,      \* the commands of its call, the active one first
  cancel,    \* its cancellation is requested
  streams,   \* its reader or writer
  net,       \* the answer to the active command
  server,    \* who has a handle, and the file of each writer
  stop,      \* stop_async
  troubles

callers == <<kind, stage, call, todo, cancel, streams>>
smb == <<session, queue, callers, net, server, stop, troubles>>

Streams == {c \in Callers : kind[c] \in {"read", "write"}}
Writers == {c \in Callers : kind[c] = "write"}
Commands == {"open", "create", "read", "write", "flush", "set", "close"}

SmbTypeOK ==
  /\ kind \in Roles
  /\ session \in [context : BOOLEAN, stopping : BOOLEAN, active : Callers \cup {"nobody"}]
  /\ queue \in Seq(Callers \cup {"stop"}) /\ stage \in [Callers -> {"new", "waits", "runs", "held", "over"}]
  /\ call \in [Callers -> [asks : {"stat", "modify", "open", "read", "write", "close"}, failed : BOOLEAN]]
  /\ todo \in [Callers -> Seq(Commands)] /\ cancel \in [Callers -> BOOLEAN]
  /\ streams \in [Callers -> [handle : BOOLEAN, closed : BOOLEAN, offset : 0..Length, given : 0..Length,
                             left : 0..Length, got : Seq(1..Length), broken : BOOLEAN,
                             creation : {"not_created", "unknown", "created"}]]
  /\ net \in [answer : {"none", "ok", "error", "bad", "never"}, count : 0..Chunk]
  /\ server \in [handles : SUBSET Callers, files : [Callers ->
       [created : BOOLEAN, flushed : BOOLEAN, content : Seq(1..Length)]]]
  /\ stop \in {"new", "waits", "over"} /\ troubles \in 0..MaxTroubles

NoAnswer == [answer |-> "none", count |-> 0]
SmbInit ==
  /\ kind \in Roles
  /\ session = [context |-> TRUE, stopping |-> FALSE, active |-> "nobody"]
  /\ queue = << >> /\ stage = [c \in Callers |-> "new"]
  /\ call = [c \in Callers |-> [asks |-> "stat", failed |-> FALSE]] /\ todo = [c \in Callers |-> << >>]
  /\ cancel = [c \in Callers |-> FALSE]
  /\ streams = [c \in Callers |-> [handle |-> FALSE, closed |-> FALSE, offset |-> 0, given |-> 0, left |-> 0,
                                  got |-> << >>, broken |-> FALSE, creation |-> "not_created"]]
  /\ net = NoAnswer
  /\ server = [handles |-> {}, files |-> [w \in Callers |->
                 [created |-> FALSE, flushed |-> FALSE, content |-> << >>]]]
  /\ stop = "new" /\ troubles = 0

Connected == session.context /\ ~session.stopping
Idle == session.active = "nobody"

-----------------------------------------------------------------------------
(* The session.                                                             *)

\* abort: the connection ends, and the server closes its handles.
Aborts(stopping) ==
  /\ session' = [context |-> FALSE, stopping |-> stopping, active |-> "nobody"]
  /\ net' = NoAnswer /\ server' = [server EXCEPT !.handles = {}]

\* request_stop: only the active command may abort the session.
RequestStop ==
  IF Idle THEN Aborts(TRUE)
  ELSE session' = [session EXCEPT !.stopping = TRUE] /\ UNCHANGED <<net, server>>

\* The call ends, and its lock is released.
Leaves(c, failed) ==
  /\ queue' = Tail(queue) /\ todo' = [todo EXCEPT ![c] = << >>]
  /\ call' = [call EXCEPT ![c].failed = failed]
  /\ stage' = [stage EXCEPT ![c] = IF call[c].asks \in {"read", "write", "close"} \/ (call[c].asks = "open" /\ ~failed)
                             THEN "held" ELSE "over"]

-----------------------------------------------------------------------------
(* The commands of a call.                                                   *)

Creates(c) == IF streams[c].handle THEN << >> ELSE <<"create">>
Program(c) ==
  CASE call[c].asks = "stat"   -> <<"open", "close">>
    [] call[c].asks = "modify" -> <<"open", "close", "open", "set", "close">>
    [] call[c].asks = "open"   -> <<"open">>
    [] call[c].asks = "read"   -> <<"read">>
    [] call[c].asks = "write"  -> Creates(c) \o <<"write">>
    [] call[c].asks = "close"  ->
         IF kind[c] = "read" THEN <<"close">>
         ELSE Creates(c) \o (IF streams[c].offset = Length THEN <<"flush">> ELSE << >>) \o <<"close">>

\* execute_async: it throws before anything is sent when it may not begin.  Only modify_async
\* ends the session then; what else had opened the item leaves its handle at the server.
Issues(c, commands, s) ==
  /\ call' = [call EXCEPT ![c].failed = FALSE] /\ stage' = [stage EXCEPT ![c] = "runs"]
  /\ session' = [session EXCEPT !.active = c] /\ todo' = [todo EXCEPT ![c] = commands]
  /\ streams' = [streams EXCEPT ![c] = IF Head(commands) = "create" THEN [s EXCEPT !.creation = "unknown"] ELSE s]
  /\ net' = NoAnswer /\ UNCHANGED <<queue, server>>
MayIssue(c) == ~cancel[c] /\ Connected
Modifies(c, commands) == call[c].asks = "modify" /\ Len(commands) <= 2
Continues(c, commands, s, failed) ==
  IF commands = << >>
  THEN /\ Leaves(c, failed) /\ streams' = [streams EXCEPT ![c] = s]
       /\ session' = [session EXCEPT !.active = "nobody"] /\ net' = NoAnswer /\ UNCHANGED server
  ELSE IF MayIssue(c)
  THEN /\ call' = [call EXCEPT ![c].failed = failed] /\ UNCHANGED <<stage, queue, server>>
       /\ session' = session /\ todo' = [todo EXCEPT ![c] = commands] /\ net' = NoAnswer
       /\ streams' = [streams EXCEPT ![c] = s]
  ELSE /\ Leaves(c, TRUE) /\ streams' = [streams EXCEPT ![c] = s]
       /\ IF Modifies(c, commands) THEN Aborts(TRUE)
          ELSE session' = [session EXCEPT !.active = "nobody"] /\ net' = NoAnswer /\ UNCHANGED server

\* The lock is granted: require_connected, and what the stream says of itself.
Enters(c) ==
  /\ stage[c] = "waits" /\ queue # << >> /\ Head(queue) = c
  /\ LET useless == ~Connected \/ streams[c].closed \/ streams[c].broken IN
     IF useless \/ cancel[c]
     THEN /\ Leaves(c, ~(streams[c].closed /\ call[c].asks = "close"))
          /\ UNCHANGED <<session, net, server, streams>>
     ELSE Issues(c, Program(c), streams[c])
  /\ UNCHANGED <<kind, cancel, stop, troubles>>

-----------------------------------------------------------------------------
(* The server, and the way to it.                                             *)

Fails == troubles < MaxTroubles /\ troubles' = troubles + 1
Lower(a, b) == IF a < b THEN a ELSE b
Positions(first, n) == [i \in 1..n |-> first + i]
Answers(answer, n) == net' = [answer |-> answer, count |-> n]

\* The command is carried out; a read or a write may be short.
Applies ==
  /\ ~Idle /\ net.answer = "none" /\ UNCHANGED <<session, queue, callers, stop, troubles>>
  /\ LET c == session.active
         command == Head(todo[c])
         s == streams[c]
         file == server.files[c]
         writes(f) == server' = [server EXCEPT !.files[c] = f]
     IN  \/ command = "open" /\ Answers("ok", 0) /\ server' = [server EXCEPT !.handles = @ \cup {c}]
         \/ command = "close" /\ Answers("ok", 0) /\ server' = [server EXCEPT !.handles = @ \ {c}]
         \/ command = "set" /\ Answers("ok", 0) /\ UNCHANGED server
         \/ /\ command = "create" /\ Answers("ok", 0)
            /\ server' = [handles |-> server.handles \cup {c}, files |-> [server.files EXCEPT ![c].created = TRUE]]
         \/ command = "flush" /\ Answers("ok", 0) /\ writes([file EXCEPT !.flushed = TRUE])
         \/ /\ command = "read" /\ UNCHANGED server
            /\ \E n \in 0..Lower(Chunk, Length - s.offset) : (n = 0 => s.offset = Length) /\ Answers("ok", n)
         \/ /\ command = "write" /\ \E n \in 1..Lower(Chunk, s.left) :
                 /\ Answers("ok", n)
                 /\ writes([file EXCEPT !.flushed = FALSE,
                              !.content = SubSeq(@, 1, s.offset) \o Positions(s.given - s.left, n)])
\* It is refused, or the reply to a read or a write is nonsense.
Refuses ==
  /\ ~Idle /\ net.answer = "none" /\ Fails
  /\ \/ Answers("error", 0)
     \/ Head(todo[session.active]) \in {"read", "write"} /\ Answers("bad", 0)
  /\ UNCHANGED <<session, queue, callers, server, stop>>
\* The command or its answer is lost; the wait ends with an error or the idle timeout.
LosesAnswer ==
  /\ ~Idle /\ net.answer # "never" /\ Fails /\ Answers("never", 0)
  /\ UNCHANGED <<session, queue, callers, server, stop>>

-----------------------------------------------------------------------------
(* The end of a command.                                                     *)

\* What its caller makes of the answer.
Taken(c, command) ==
  LET s == streams[c] IN
  CASE command \in {"open", "create"} ->
         IF c \in Streams THEN [s EXCEPT !.handle = TRUE, !.creation = IF command = "create" THEN "created" ELSE @] ELSE s
    [] command = "read" -> [s EXCEPT !.got = @ \o Positions(s.offset, net.count), !.offset = @ + net.count]
    [] command = "write" -> [s EXCEPT !.offset = @ + net.count, !.left = @ - net.count]
    [] command = "close" -> [s EXCEPT !.closed = c \in Streams]
    [] command \in {"flush", "set"} -> s
Succeeds(c) ==
  /\ net.answer = "ok"
  /\ LET command == Head(todo[c])
         s == Taken(c, command)
         rest == IF command = "write" /\ s.left > 0 THEN todo[c] ELSE Tail(todo[c])
         short == command = "close" /\ c \in Writers /\ s.offset # Length
     IN  Continues(c, rest, s, call[c].failed \/ short)

\* Fault: an error that may have come too late counts as no creation.
NeverCreated(c) == [streams[c] EXCEPT !.broken = TRUE, !.creation = "not_created"]
\* A failed creation stays failed; it is certain only when the server said so.
CreationFails(c) == [streams[c] EXCEPT !.broken = TRUE]
\* An error ends the call, except that an item opened to be changed is closed first; a
\* handle that cannot be closed ends the session.
CommandRefused(c) ==
  /\ net.answer \in {"error", "bad"}
  /\ LET command == Head(todo[c]) IN
     IF command = "set" THEN Continues(c, <<"close">>, streams[c], TRUE)
     ELSE /\ Leaves(c, TRUE)
          /\ streams' = [streams EXCEPT ![c] =
               IF command = "create" THEN [CreationFails(c) EXCEPT !.creation = "not_created"] ELSE @]
          /\ IF command = "close" THEN Aborts(TRUE)
             ELSE session' = [session EXCEPT !.active = "nobody"] /\ net' = NoAnswer /\ UNCHANGED server
\* Cancellation, a stop, a lost connection or the idle timeout: the context goes first.
Breaks(c) ==
  /\ Leaves(c, TRUE) /\ Aborts(session.stopping)
  /\ streams' = [streams EXCEPT ![c] = IF Head(todo[c]) = "create" THEN CreationFails(c) ELSE @]

CommandEnds(c) ==
  /\ session.active = c /\ UNCHANGED <<kind, cancel, stop, troubles>>
  /\ \/ Succeeds(c)
     \/ CommandRefused(c)
     \/ (net.answer = "never" \/ cancel[c] \/ session.stopping) /\ Breaks(c)

-----------------------------------------------------------------------------
(* The callers.                                                             *)

Queues(c, what) ==
  /\ queue' = Append(queue, c) /\ stage' = [stage EXCEPT ![c] = "waits"]
  /\ call' = [call EXCEPT ![c] = [asks |-> what, failed |-> FALSE]]
  /\ UNCHANGED <<kind, session, todo, cancel, net, server, stop, troubles>>
BeginsCall(c) ==
  /\ stage[c] = "new" /\ kind[c] # "write" /\ Queues(c, IF kind[c] = "read" THEN "open" ELSE kind[c])
  /\ UNCHANGED streams
\* open_write_async sends nothing.
OpensWriter(c) ==
  /\ stage[c] = "new" /\ kind[c] = "write"
  /\ stage' = [stage EXCEPT ![c] = IF MayIssue(c) THEN "held" ELSE "over"]
  /\ UNCHANGED <<kind, session, queue, call, todo, cancel, streams, net, server, stop, troubles>>
Reads(c) ==
  /\ stage[c] = "held" /\ kind[c] = "read" /\ ~call[c].failed /\ ~streams[c].closed
  /\ Len(streams[c].got) < Length /\ Queues(c, "read") /\ UNCHANGED streams
Writes(c) ==
  /\ stage[c] = "held" /\ kind[c] = "write" /\ ~call[c].failed /\ ~streams[c].closed
  /\ streams[c].given < Length /\ Queues(c, "write")
  /\ \E n \in 1..(Length - streams[c].given) :
       streams' = [streams EXCEPT ![c].given = @ + n, ![c].left = n]
ClosesStream(c) ==
  /\ stage[c] = "held" /\ ~streams[c].closed /\ call[c].asks # "close"
  /\ Queues(c, "close") /\ UNCHANGED streams
\* The destructor of a stream that is not closed ends the session.
Drops(c) ==
  /\ stage[c] = "held" /\ stage' = [stage EXCEPT ![c] = "over"]
  /\ IF streams[c].handle /\ ~streams[c].closed THEN RequestStop ELSE UNCHANGED <<session, net, server>>
  /\ UNCHANGED <<kind, queue, call, todo, cancel, streams, stop, troubles>>
CancelsCall(c) ==
  /\ stage[c] \in {"waits", "runs"} /\ ~cancel[c] /\ cancel' = [cancel EXCEPT ![c] = TRUE]
  /\ UNCHANGED <<kind, session, queue, stage, call, todo, streams, net, server, stop, troubles>>
\* The wait for the lock is canceled.
WithdrawsCall(c) ==
  /\ stage[c] = "waits" /\ cancel[c] /\ Head(queue) # c
  /\ \E i \in 1..Len(queue) :
       queue[i] = c /\ queue' = SubSeq(queue, 1, i - 1) \o SubSeq(queue, i + 1, Len(queue))
  /\ call' = [call EXCEPT ![c].failed = TRUE]
  /\ stage' = [stage EXCEPT ![c] = IF call[c].asks \in {"read", "write", "close"} THEN "held" ELSE "over"]
  /\ UNCHANGED <<kind, session, todo, cancel, streams, net, server, stop, troubles>>

StopBegins ==
  /\ stop = "new" /\ stop' = "waits" /\ RequestStop /\ queue' = Append(queue, "stop")
  /\ UNCHANGED <<callers, troubles>>
StopEnds ==
  /\ stop = "waits" /\ queue # << >> /\ Head(queue) = "stop"
  /\ stop' = "over" /\ Aborts(TRUE) /\ queue' = Tail(queue)
  /\ UNCHANGED <<callers, troubles>>

Turn(c) == Enters(c) \/ CommandEnds(c) \/ WithdrawsCall(c)
SmbNext ==
  \/ Applies \/ Refuses \/ LosesAnswer \/ StopBegins \/ StopEnds
  \/ \E c \in Callers :
       Turn(c) \/ BeginsCall(c) \/ OpensWriter(c) \/ Reads(c) \/ Writes(c) \/ ClosesStream(c) \/ Drops(c) \/ CancelsCall(c)
\* The server answers, or the idle timeout ends the wait.
Proceeds == Applies \/ StopEnds \/ \E c \in Callers : Turn(c)
SmbProgress == WF_smb(Proceeds)
SmbSpec == SmbInit /\ [][SmbNext]_smb /\ SmbProgress

-----------------------------------------------------------------------------
(* Properties.                                                             *)

\* The context lives as long as a command whose callback writes into its caller's frame,
\* and that caller owns the lock.
CallbackSafe == ~Idle =>
  /\ session.context /\ stage[session.active] = "runs" /\ queue # << >> /\ Head(queue) = session.active

\* On a connection that goes on, a handle at the server belongs to a stream or to the running
\* call, unless that call was canceled between two of its commands.
HandlesOwned == Connected => \A c \in server.handles :
  session.active = c \/ (streams[c].handle /\ ~streams[c].closed /\ stage[c] # "over") \/ cancel[c]

\* What a writer says of the file it was to create is true although replies are lost, and
\* it is not sure only when it has failed.
CreationTrue == \A c \in Writers :
  /\ streams[c].creation = "not_created" => ~server.files[c].created
  /\ streams[c].creation = "created" => server.files[c].created
  /\ streams[c].creation = "unknown" /\ stage[c] # "runs" => streams[c].broken

\* A reader has got the file's bytes in order, and a file that was closed with success is
\* complete and flushed.
BytesExact == \A c \in Streams :
  /\ streams[c].got = Positions(0, Len(streams[c].got))
  /\ c \in Writers /\ streams[c].closed /\ ~call[c].failed =>
       server.files[c] = [created |-> TRUE, flushed |-> TRUE, content |-> Positions(0, Length)]

SmbSound == SmbTypeOK /\ CallbackSafe /\ HandlesOwned /\ CreationTrue /\ BytesExact

\* Every call ends, and so does the stop.
SmbUnsettled == stop = "waits" \/ \E c \in Callers : stage[c] \in {"waits", "runs"}
=============================================================================
