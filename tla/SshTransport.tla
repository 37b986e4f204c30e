---------------------------- MODULE SshTransport ----------------------------
(***************************************************************************)
(* One authenticated SSH session shared by several channels: every libssh  *)
(* call runs on one worker thread, the coroutines of the channels wait     *)
(* between two attempts on the session's socket and on a wakeup of their   *)
(* own (ssh-channel-connection.cpp:1167-1492, 1837-2117).                  *)
(*                                                                         *)
(* A libssh call made for one channel handles the packets of every channel *)
(* it finds on the socket.  Bytes are numbered in the order in which the   *)
(* server sends them; what the client writes is counted.                   *)
(***************************************************************************)
EXTENDS Integers, Sequences

CONSTANTS
    Channels,   \* the channels opened on the session
    Loads,      \* what behaviours are about: records of
                \*   sends:   channel -> bytes the server sends before its EOF
                \*   payload: channel -> bytes the client writes
                \*   trouble: "none", "hangup": the server may close the socket, or "cancel":
                \*            an operation may be cancelled, a connection closed before its end
    Window,     \* the server's receive window of each channel, in bytes
    Room        \* bytes of output the kernel takes for the session's socket

ASSUME SshAssumption ==
    /\ \A l \in Loads : /\ l.sends \in [Channels -> Nat] /\ l.payload \in [Channels -> Nat]
                        /\ l.trouble \in {"none", "hangup", "cancel"}
    /\ Window \in Nat \ {0} /\ Room \in Nat \ {0}

VARIABLES
    load,      \* one of Loads
    conn,      \* channel -> "new" | "opening" | "open" | "closed", the connection object
    pc,        \* operation -> "idle" | "queued" | "ready" | "waiting"
    stage,     \* operation -> the libssh call it makes
    result,    \* operation -> what its last call returned
    cancelled, \* operation -> its cancellation is requested
    offset,    \* channel -> bytes of the payload the writer counts as written
    got,       \* channel -> bytes returned to the reader, in order
    wake,      \* operation -> its eventfd is set (SshOperationWaiter::wakeup_fd)
    queue,     \* Impl::commands
    worker,    \* the next step of the worker: "take" | "retire" | "notify" | "ended"
    running,   \* the operation whose command the worker holds, or {}
    progress,  \* the counters differ from those last observed (notify_progress)
    stopping,  \* Impl::stopping
    libssh,    \* channel -> its state in libssh
    output,    \* bytes libssh has not given to the socket, oldest first: the channel of each
    connected, \* ssh_is_connected
    incoming,  \* packets on the socket, oldest first
    wire,      \* bytes in the kernel's send buffer, likewise
    server     \* channel -> what the server has sent and received

client  == <<conn, pc, stage, cancelled, offset, got>>
session == <<libssh, output, connected, incoming, wire, progress>>
moving  == <<client, result, wake, queue, worker, running, stopping, session, server>>
vars    == <<load, moving>>

Ops == Channels \X {"in", "out"}
Reader(c) == <<c, "in">>
Writer(c) == <<c, "out">>
Sends == load.sends
Payload == load.payload
Interrupts == load.trouble = "cancel"
Hangups == load.trouble = "hangup"
Bytes == Nat \ {0}
Least(m, n) == IF m <= n THEN m ELSE n
Nothing == [kind |-> "none", bytes |-> <<>>, count |-> 0, polls |-> FALSE]
Packets == ({"reply", "eof", "adjust"} \X Channels) \cup ({"data"} \X Channels \X Bytes)

TypeOK ==
    /\ load \in Loads
    /\ conn \in [Channels -> {"new", "opening", "open", "closed"}]
    /\ pc \in [Ops -> {"idle", "queued", "ready", "waiting"}]
    /\ stage \in [Ops -> {"alloc", "request", "read", "write", "flush"}]
    /\ result \in [Ops -> [kind : {"none", "ok", "again", "data", "wrote", "eof", "failed"},
                            bytes : Seq(Bytes), count : Nat, polls : BOOLEAN]]
    /\ cancelled \in [Ops -> BOOLEAN] /\ offset \in [Channels -> Nat]
    /\ got \in [Channels -> Seq(Bytes)]
    /\ wake \in [Ops -> BOOLEAN]
    /\ queue \in Seq(Ops \cup (Channels \X {"close"})) /\ running \subseteq Ops
    /\ worker \in {"take", "retire", "notify", "ended"}
    /\ progress \in BOOLEAN /\ stopping \in BOOLEAN
    /\ libssh \in [Channels -> [state : {"none", "listed", "freed"}, asked : BOOLEAN,
                                opened : BOOLEAN, eof : BOOLEAN, buffer : Seq(Bytes),
                                window : Nat, accepted : Nat]]
    /\ output \in Seq(Channels) /\ connected \in BOOLEAN
    /\ incoming \in Seq(Packets \cup {<<"hangup">>})
    /\ wire \in Seq(Channels) /\ Len(wire) <= Room
    /\ server \in [Channels -> [sent : Nat, eof : BOOLEAN, replied : BOOLEAN,
                                received : Nat, hungup : BOOLEAN]]

Init ==
    /\ load \in Loads
    /\ conn = [c \in Channels |-> "new"]
    /\ pc = [w \in Ops |-> "idle"]
    /\ stage = [w \in Ops |-> IF w[2] = "in" THEN "alloc" ELSE "write"]
    /\ result = [w \in Ops |-> Nothing] /\ cancelled = [w \in Ops |-> FALSE]
    /\ offset = [c \in Channels |-> 0] /\ got = [c \in Channels |-> <<>>]
    /\ wake = [w \in Ops |-> FALSE] /\ queue = <<>> /\ running = {} /\ worker = "take"
    /\ progress = FALSE /\ stopping = FALSE
    /\ libssh = [c \in Channels |-> [state |-> "none", asked |-> FALSE, opened |-> FALSE, eof |-> FALSE,
                                     buffer |-> <<>>, window |-> Window, accepted |-> 0]]
    /\ output = <<>> /\ connected = TRUE
    /\ incoming = <<>> /\ wire = <<>>
    /\ server = [c \in Channels |-> [sent |-> 0, eof |-> FALSE, replied |-> FALSE,
                                     received |-> 0, hungup |-> FALSE]]

-----------------------------------------------------------------------------
(* The dispatcher: the coroutines of the channels. *)

\* Who shares the transport: whoever is to open a channel, the connection
\* objects, the coroutine of every operation, the command the worker holds.
Owners == {c \in Channels : conn[c] # "closed"} \cup {w \in Ops : pc[w] # "idle"} \cup running

\* The last owner's release runs stop_worker, which joins the worker.
Share == stopping' = (stopping \/ Owners' = {})

\* One turn of an operation's loop: its own wakeup is drained before the
\* command is queued (execute_async, enqueue).
Attempt(w, call) ==
    /\ wake' = [wake EXCEPT ![w] = FALSE]
    /\ queue' = Append(queue, w)
    /\ pc' = [pc EXCEPT ![w] = "queued"]
    /\ stage' = [stage EXCEPT ![w] = call]
    /\ result' = [result EXCEPT ![w] = Nothing]

\* The operation ends; after a failure or a cancellation of the opening the
\* connection is closed.
Finish(w, c, failed) ==
    /\ pc' = [pc EXCEPT ![w] = "idle"]
    /\ conn' = [conn EXCEPT ![c] = IF @ # "opening" THEN @ ELSE IF failed THEN "closed" ELSE "open"]
    /\ queue' = IF failed /\ stage[w] = "request" THEN Append(queue, <<c, "close">>) ELSE queue
    /\ UNCHANGED <<wake, stage, result>>

Open(c) ==
    /\ conn[c] = "new"
    /\ conn' = [conn EXCEPT ![c] = "opening"]
    /\ Attempt(Reader(c), "alloc")
    /\ UNCHANGED <<cancelled, offset, got, worker, running, stopping, session, server>>

\* read_async, repeated by its owner until the end of the stream.
Read(c) ==
    /\ conn[c] = "open" /\ pc[Reader(c)] = "idle"
    /\ result[Reader(c)].kind \notin {"eof", "failed"}
    /\ Attempt(Reader(c), "read")
    /\ cancelled' = [cancelled EXCEPT ![Reader(c)] = FALSE]
    /\ UNCHANGED <<conn, offset, got, worker, running, stopping, session, server>>

\* write_all_async of the payload, once.
Write(c) ==
    /\ conn[c] = "open" /\ pc[Writer(c)] = "idle"
    /\ Payload[c] > 0 /\ result[Writer(c)] = Nothing /\ ~cancelled[Writer(c)]
    /\ Attempt(Writer(c), "write")
    /\ UNCHANGED <<conn, cancelled, offset, got, worker, running, stopping, session, server>>

\* A cancelled caller learns it when its command is retired; what the command
\* returned is dropped with it.
Throw(w) ==
    /\ pc[w] = "ready" /\ (cancelled[w] \/ result[w].kind = "failed")
    /\ Finish(w, w[1], TRUE)
    /\ UNCHANGED <<cancelled, offset, got, worker, running, session, server>>
    /\ Share

\* Fault: a write accepted in part counts as a whole one.
FaultContinues(c, written) == FALSE

\* write_all_async goes on when libssh took a part of what is left.
Continues(c, written) == written < Payload[c]

\* What a call returned is used, and the loop goes on, waits, or ends.
Resume(w) ==
    LET c == w[1]  r == result[w]  written == offset[c] + r.count IN
    /\ pc[w] = "ready" /\ ~cancelled[w] /\ r.kind # "failed"
    /\ got' = [got EXCEPT ![c] = @ \o r.bytes]
    /\ offset' = [offset EXCEPT ![c] = written]
    /\ \/ r.kind = "again"
          /\ pc' = [pc EXCEPT ![w] = "waiting"]
          /\ UNCHANGED <<wake, queue, stage, conn, result>>
       \/ r.kind = "wrote"
          /\ IF Continues(c, written) THEN Attempt(w, "write") /\ UNCHANGED conn
             ELSE IF r.polls THEN Attempt(w, "flush") /\ UNCHANGED conn
             ELSE Finish(w, c, FALSE)
       \/ r.kind = "ok" /\ stage[w] = "alloc"
          /\ Attempt(w, "request")
          /\ UNCHANGED conn
       \/ r.kind \in {"ok", "data", "eof"} /\ stage[w] # "alloc"
          /\ Finish(w, c, FALSE)
    /\ UNCHANGED <<cancelled, worker, running, session, server>>
    /\ Share

\* The socket or the operation's own wakeup is ready (SshOperationWaiter::wait_async).
SocketReady(w) ==
    /\ connected
    /\ \/ incoming # <<>>
       \/ result[w].polls /\ Len(wire) < Room

Wake(w) ==
    /\ pc[w] = "waiting" /\ (wake[w] \/ SocketReady(w))
    /\ Attempt(w, stage[w])
    /\ UNCHANGED <<conn, cancelled, offset, got, worker, running, stopping, session, server>>

\* Fault: a cancelled caller does not wait for the worker.
FaultCancel(w) ==
    /\ Interrupts /\ pc[w] # "idle" /\ ~cancelled[w]
    /\ cancelled' = [cancelled EXCEPT ![w] = TRUE]
    /\ Finish(w, w[1], TRUE)
    /\ UNCHANGED <<offset, got, worker, running, session, server>>
    /\ Share

\* A waiting operation ends at once, one whose command is queued or running
\* when the worker has retired it.
Cancel(w) ==
    /\ Interrupts /\ pc[w] # "idle" /\ ~cancelled[w]
    /\ cancelled' = [cancelled EXCEPT ![w] = TRUE]
    /\ IF pc[w] = "waiting" THEN Finish(w, w[1], TRUE)
       ELSE UNCHANGED <<pc, conn, queue, wake, stage, result>>
    /\ UNCHANGED <<offset, got, worker, running, session, server>>
    /\ Share

\* The owner of a connection closes it when its operations have ended.
Close(c) ==
    /\ conn[c] = "open" /\ pc[Reader(c)] = "idle" /\ pc[Writer(c)] = "idle"
    /\ Interrupts \/ (result[Reader(c)].kind = "eof" /\ (result[Writer(c)] # Nothing \/ Payload[c] = 0))
    /\ conn' = [conn EXCEPT ![c] = "closed"]
    /\ queue' = Append(queue, <<c, "close">>)
    /\ UNCHANGED <<pc, stage, cancelled, offset, got, result, wake, worker, running, session, server>>
    /\ Share

-----------------------------------------------------------------------------
(* The worker.  libssh as its calls use it: a call handles the packets it   *)
(* finds on the socket, whatever channel they are for, and gives the kernel *)
(* what fits of the output.                                                 *)

Adjusted(l, c) == [l EXCEPT ![c].window = @ + Window]

\* What a packet does to the channel it names.
Handled(l, p) ==
    IF p[1] = "hangup" \/ l[p[2]].state # "listed" THEN l
    ELSE CASE p[1] = "data"   -> [l EXCEPT ![p[2]].buffer = Append(@, p[3])]
           [] p[1] = "eof"    -> [l EXCEPT ![p[2]].eof = TRUE]
           [] p[1] = "reply"  -> [l EXCEPT ![p[2]].opened = TRUE]
           [] p[1] = "adjust" -> Adjusted(l, p[2])

\* The channels' states after the first n packets of the socket.
After[n \in 0 .. Len(incoming)] == IF n = 0 THEN libssh ELSE Handled(After[n - 1], incoming[n])

\* Fault: the end of the connection is not compared with the last observation.
FaultObserved(n) == \E i \in 1 .. n : incoming[i] # <<"hangup">>

\* What notify_progress compares has changed: data came in, or the connection ended.
Observed(n) == n > 0

\* Handle the first n packets and send what the kernel takes of the output pending.
Pump(n, pending) ==
    /\ incoming' = SubSeq(incoming, n + 1, Len(incoming))
    /\ connected' = (connected /\ \A i \in 1 .. n : incoming[i] # <<"hangup">>)
    /\ IF connected'
       THEN LET taken == Least(Len(pending), Room - Len(wire)) IN
            /\ wire' = wire \o SubSeq(pending, 1, taken)
            /\ output' = SubSeq(pending, taken + 1, Len(pending))
       ELSE output' = pending /\ wire' = wire
    /\ progress' = (progress \/ Observed(n) \/ wire' # wire)

\* read_async's command: what is buffered first, then the end of the stream; a
\* broken connection ends a stream whose end has not come.
ReadReturns(l, up) ==
    IF l.buffer # <<>> /\ (up \/ l.eof) THEN "data"
    ELSE IF l.eof \/ ~up THEN "eof" ELSE "again"

Return(w, kind, bytes, count) ==
    result' = [result EXCEPT ![w] = [kind |-> kind, bytes |-> bytes, count |-> count,
                                     polls |-> output' # <<>>]]

\* What libssh takes of a write.
Fits(w, l) ==
    IF stage[w] # "write" \/ ~connected THEN 0
    ELSE Least(Payload[w[1]] - offset[w[1]], l[w[1]].window)

\* The call of operation w, when the packets it found have made l of the channels.
Answer(w, l) ==
    LET c == w[1]  fits == Fits(w, l) IN
    \/ /\ stage[w] = "request"
       /\ libssh' = [l EXCEPT ![c].asked = TRUE]
       /\ Return(w, IF l[c].opened THEN "ok" ELSE IF connected' THEN "again" ELSE "failed", <<>>, 0)
    \/ /\ stage[w] = "read" /\ ReadReturns(l[c], connected') = "data"
       /\ libssh' = [l EXCEPT ![c].buffer = <<>>]
       /\ Return(w, "data", l[c].buffer, 0)
    \/ /\ stage[w] = "read" /\ ReadReturns(l[c], connected') # "data"
       /\ libssh' = l
       /\ Return(w, ReadReturns(l[c], connected'), <<>>, 0)
    \/ /\ stage[w] = "write"
       /\ libssh' = [l EXCEPT ![c].window = @ - fits, ![c].accepted = @ + fits]
       /\ Return(w, IF ~connected' THEN "failed" ELSE IF fits > 0 THEN "wrote" ELSE "again", <<>>, fits)
    \/ /\ stage[w] = "flush"
       /\ libssh' = l
       /\ Return(w, IF ~connected' THEN "failed" ELSE IF output' = <<>> THEN "ok" ELSE "again", <<>>, 0)

Alloc(w) ==
    /\ libssh' = [libssh EXCEPT ![w[1]].state = "listed"]
    /\ result' = [result EXCEPT ![w] = [kind |-> "ok", bytes |-> <<>>, count |-> 0, polls |-> FALSE]]
    /\ UNCHANGED <<output, connected, incoming, wire, progress>>

\* The libssh call of operation w.
Call(w) ==
    \/ stage[w] = "alloc" /\ Alloc(w)
    \/ /\ stage[w] # "alloc"
       /\ \E n \in 0 .. Len(incoming) :
            /\ connected /\ incoming # <<>> => n > 0
            /\ Pump(n, output \o [i \in 1 .. Fits(w, After[n]) |-> w[1]])
            /\ Answer(w, After[n])

\* worker_loop: the next command; a closing one frees its channel.
Execute ==
    /\ worker = "take" /\ queue # <<>>
    /\ queue' = Tail(queue)
    /\ LET w == Head(queue) IN
       IF w[2] = "close"
       THEN /\ libssh' = [libssh EXCEPT ![w[1]].state = "freed", ![w[1]].buffer = <<>>]
            /\ worker' = "notify"
            /\ UNCHANGED <<output, connected, incoming, wire, progress, result, running>>
       ELSE /\ Call(w)
            /\ running' = {w} /\ worker' = "retire"
    /\ UNCHANGED <<client, wake, stopping, server>>

\* The command gives up what it shares, then its caller is signalled.
Retire ==
    /\ worker = "retire"
    /\ running' = {}
    /\ pc' = [w \in Ops |-> IF w \in running THEN "ready" ELSE pc[w]]
    /\ worker' = "notify"
    /\ UNCHANGED <<conn, stage, cancelled, offset, got, result, wake, queue, session, server>>
    /\ Share

\* Every operation is woken when the call has made progress.
NotifyProgress ==
    /\ worker = "notify"
    /\ wake' = [w \in Ops |-> wake[w] \/ (progress /\ pc[w] # "idle")]
    /\ progress' = FALSE
    /\ worker' = "take" /\ running' = {}
    /\ UNCHANGED <<client, result, queue, stopping, libssh, output, connected, incoming, wire, server>>

\* worker_loop ends when it is told to and nothing is queued.
Drained == worker = "take" /\ stopping /\ queue = <<>>

\* The stopped worker runs what is queued, then closes the session.
Stop ==
    /\ Drained
    /\ libssh' = [c \in Channels |-> [libssh[c] EXCEPT !.buffer = <<>>,
                                      !.state = IF @ = "listed" THEN "freed" ELSE @]]
    /\ connected' = FALSE
    /\ worker' = "ended"
    /\ UNCHANGED <<client, result, wake, queue, running, stopping, output, incoming, wire, progress, server>>

-----------------------------------------------------------------------------
(* The server. *)

Server(c, changed, packet) ==
    /\ connected /\ ~server[c].hungup
    /\ server' = [server EXCEPT ![c] = changed]
    /\ incoming' = Append(incoming, packet)
    /\ UNCHANGED <<client, result, wake, queue, worker, running, stopping, libssh, output, connected, wire, progress>>

Replies(c) == libssh[c].asked /\ ~server[c].replied
              /\ Server(c, [server[c] EXCEPT !.replied = TRUE], <<"reply", c>>)
SendsData(c) == server[c].replied /\ server[c].sent < Sends[c]
                /\ Server(c, [server[c] EXCEPT !.sent = @ + 1], <<"data", c, server[c].sent + 1>>)
SendsEof(c) == server[c].replied /\ server[c].sent = Sends[c] /\ ~server[c].eof
               /\ Server(c, [server[c] EXCEPT !.eof = TRUE], <<"eof", c>>)

\* The window is given back when it is used up.
Receives(c) ==
    /\ wire # <<>> /\ Head(wire) = c /\ ~server[c].hungup
    /\ wire' = Tail(wire)
    /\ server' = [server EXCEPT ![c].received = @ + 1]
    /\ incoming' = IF server'[c].received % Window = 0 THEN Append(incoming, <<"adjust", c>>) ELSE incoming
    /\ UNCHANGED <<client, result, wake, queue, worker, running, stopping, libssh, output, connected, progress>>

HangsUp ==
    /\ Hangups /\ connected /\ \A c \in Channels : ~server[c].hungup
    /\ server' = [c \in Channels |-> [server[c] EXCEPT !.hungup = TRUE]]
    /\ incoming' = Append(incoming, <<"hangup">>)
    /\ UNCHANGED <<client, result, wake, queue, worker, running, stopping, libssh, output, connected, wire, progress>>

-----------------------------------------------------------------------------
Dispatcher == \/ \E w \in Ops : Resume(w) \/ Throw(w) \/ Wake(w)
              \/ \E c \in Channels : Open(c) \/ Read(c) \/ Write(c)
Worker == Execute \/ Retire \/ NotifyProgress \/ Stop
Network == \E c \in Channels : Replies(c) \/ SendsData(c) \/ SendsEof(c) \/ Receives(c)

Next == /\ load' = load
        /\ \/ Dispatcher \/ Worker \/ Network \/ HangsUp
           \/ (\E w \in Ops : Cancel(w)) \/ (\E c \in Channels : Close(c))

Spec == Init /\ [][Next]_vars

\* The worker runs, a ready coroutine is resumed, the network and the server
\* go on; nothing is assumed of whoever closes or cancels.
FairSpec ==
    /\ Spec /\ WF_moving(Worker)
    /\ \A w \in Ops : WF_moving(Resume(w) \/ Throw(w) \/ Wake(w))
    /\ \A c \in Channels : /\ WF_moving(Open(c) \/ Read(c)) /\ WF_moving(Write(c)) /\ WF_moving(Replies(c))
                           /\ WF_moving(SendsData(c)) /\ WF_moving(SendsEof(c)) /\ WF_moving(Receives(c))

-----------------------------------------------------------------------------
\* What operation w waits for has happened.
Answered(w) ==
    LET l == libssh[w[1]] IN
    \/ ~connected
    \/ stage[w] = "request" /\ l.opened
    \/ stage[w] = "read" /\ (l.buffer # <<>> \/ l.eof)
    \/ stage[w] = "write" /\ l.window > 0
    \/ stage[w] = "flush" /\ output = <<>>

\* An operation does not sleep on what has arrived, whichever channel's call
\* took it from the socket: it has been woken, will be, or the socket is ready
\* (ssh-channel-connection.cpp:1189-1239, 1311-1324).
NoLostWake ==
    \A w \in Ops : pc[w] = "waiting" /\ Answered(w) =>
        wake[w] \/ SocketReady(w) \/ (progress /\ worker \in {"retire", "notify"})

\* The reader gets the server's bytes in order, none twice and none skipped,
\* and hears of the end after all of them (ssh-channel-connection.cpp:1960-2015).
ReadExact ==
    \A c \in Channels :
        /\ \A i \in DOMAIN got[c] : got[c][i] = i
        /\ result[Reader(c)].kind = "eof" /\ connected => Len(got[c]) = Sends[c]

\* A write that has ended well gave every byte of its payload to libssh once
\* and to the socket (ssh-channel-connection.cpp:2073-2117).
WriteExact ==
    \A c \in Channels : LET w == Writer(c) IN
        /\ pc[w] \in {"idle", "waiting"} /\ ~cancelled[w] /\ result[w].kind # "failed"
              => libssh[c].accepted = offset[c]
        /\ pc[w] = "idle" /\ ~cancelled[w] /\ result[w].kind \in {"wrote", "ok"}
              => offset[c] = Payload[c] /\ \A i \in DOMAIN output : output[i] # c

\* The worker never runs a call whose caller, with the buffer it lends, has
\* gone (ssh-channel-connection.cpp:1370-1377).
CallerOutlives ==
    \A w \in Ops : w \in running \/ (\E i \in DOMAIN queue : queue[i] = w) => pc[w] = "queued"

\* The last owner of the transport is never released by the worker, which
\* would join itself (ssh-channel-connection.cpp:1351-1354).
NeverSelfJoin == [][Owners # {} /\ worker' # worker => Owners' # {}]_vars

\* Every channel and every command is retired before the worker ends
\* (ssh-channel-connection.cpp:1286-1308, 1427-1448).
Torn == worker = "ended" => queue = <<>> /\ Owners = {} /\ \A c \in Channels : libssh[c].state # "listed"

\* Every operation ends, and both directions carry all they are given
\* (ssh-channel-connection.cpp:1472-1492, 1960-2015, 2073-2117).
Carried ==
    \A c \in Channels :
        /\ Len(got[c]) = Sends[c] /\ server[c].received = Payload[c]
        /\ pc[Reader(c)] = "idle" /\ pc[Writer(c)] = "idle"
AllCarried == []<>Carried

\* Both directions carry each byte once and in order (ReadExact while no read is
\* cancelled: a cancelled one may lose what it was given)
\* (ssh-channel-connection.cpp:1943-2015, 2058-2117).
DataExact == TypeOK /\ WriteExact /\ (~Interrupts => ReadExact)

\* Whoever goes, the worker runs no command of a caller that has gone, ends with
\* nothing left, and is not joined by itself (ssh-channel-connection.cpp:1286-1308,
\* 1345-1377, 1427-1461).
Teardown == [](CallerOutlives /\ Torn) /\ NeverSelfJoin

=============================================================================
