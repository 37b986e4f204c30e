------------------------------ MODULE SshForward ------------------------------
(***************************************************************************)
(* The local SOCKS server in front of an SSH gateway (ssh-socks-proxy.cpp) and *)
(* the bridge between a socket and a channel (ssh-proxy.cpp).                  *)
(*                                                                         *)
(* Everything runs on one dispatcher: an action is what one coroutine does      *)
(* between two awaits.  The sockets are those of the kernel (AF_UNIX streams);   *)
(* bytes are counted, since each direction has one queue after the other.  What  *)
(* a channel promises is SshTransport's; here it carries a count each way.       *)
(***************************************************************************)
EXTENDS Naturals, FiniteSets

CONSTANTS Clients,
          Limit,      \* clients served at a time (64)
          Room,       \* what a socket queues
          Loads       \* bound: which clients come, and what one and its destination send

ASSUME ForwardAssumption ==
  /\ Limit \in Nat \ {0} /\ Room \in Nat \ {0}
  /\ Loads \subseteq [clients : SUBSET Clients, up : Nat, down : Nat]

VARIABLES
  load,      \* the load of this behaviour
  server,    \* serve_socks_async
  stopping,  \* state->stopping is cancelled
  lost,      \* the gateway's session has failed
  peer,      \* the client's end of its socket
  lsent, lgot, \* bytes the client has written, and has read
  leof,      \* it has read the end
  upq, downq, \* bytes queued in the socket, each way
  reset,     \* ECONNRESET is pending at the server's end
  shut,      \* what of its end the bridge has shut down
  others,    \* descriptors that other parts of the process hold
  phase,     \* serve_socks_client_async
  fd,        \* the descriptor of its socket; 0: closed, or not there yet
  bstop,     \* bridge->stop is cancelled
  callback,  \* of the cancellation: none, registered, queued or run
  bfd,       \* bridge->fd; 0: -1
  strayed,   \* history: the bridge has shut down what its client does not own
  up, uhold, \* copy_to_gateway_async and the bytes in its buffer
  down, dhold, \* copy_from_gateway_async and the bytes in its buffer
  chan,      \* the channel
  chUp, chEof, \* bytes and the end the destination has got
  chDown, srvEof \* bytes it has sent and the channel holds; it has ended

sides == <<peer, lsent, lgot, leof>>
socket == <<upq, downq, reset, shut>>
owner == <<server, stopping, lost, others>>
serving == <<phase, fd>>
bridge == <<bstop, callback, bfd, strayed>>
pumps == <<up, uhold, down, dhold>>
channel == <<chan, chUp, chEof, chDown, srvEof>>
vars == <<load, owner, sides, socket, serving, bridge, pumps, channel>>

Up == load.up
Down == load.down
Live == {"greet", "open", "reply", "refuse", "bridge", "joined", "closing"}
Serving == {c \in Clients : phase[c] \in Live}

\* bound: the descriptors, as many as clients are served; the process has more, but only one
\* that a client had can be mistaken for it
Descriptors == 1..Limit
Free == Descriptors \ (others \cup {fd[c] : c \in Clients})

TypeOK ==
  /\ load \in Loads
  /\ server \in {"accept", "join", "ended"} /\ stopping \in BOOLEAN /\ lost \in BOOLEAN
  /\ others \subseteq Descriptors
  /\ fd \in [Clients -> 0..Limit] /\ bfd \in [Clients -> 0..Limit]
  /\ peer \in [Clients -> {"absent", "queued", "open", "closed"}]
  /\ lsent \in [Clients -> 0..Up] /\ lgot \in [Clients -> 0..Down] /\ leof \in [Clients -> BOOLEAN]
  /\ upq \in [Clients -> 0..Room] /\ downq \in [Clients -> 0..Room]
  /\ reset \in [Clients -> BOOLEAN] /\ shut \in [Clients -> {"no", "write", "both"}]
  /\ phase \in [Clients -> Live \cup {"none", "closed"}]
  /\ bstop \in [Clients -> BOOLEAN] /\ strayed \in [Clients -> BOOLEAN]
  /\ callback \in [Clients -> {"none", "registered", "queued", "run"}]
  /\ up \in [Clients -> {"off", "look", "wait", "write", "eof", "done"}]
  /\ down \in [Clients -> {"off", "read", "send", "wait", "done"}]
  /\ uhold \in [Clients -> 0..Up] /\ dhold \in [Clients -> 0..Down]
  /\ chan \in [Clients -> {"none", "open", "gone"}]
  /\ chUp \in [Clients -> 0..Up] /\ chEof \in [Clients -> BOOLEAN]
  /\ chDown \in [Clients -> [sent : 0..Down, left : 0..Down]] /\ srvEof \in [Clients -> BOOLEAN]
  /\ Cardinality(Serving) <= Limit

Init ==
  /\ load \in Loads
  /\ server = "accept" /\ stopping = FALSE /\ lost = FALSE /\ others = {}
  /\ peer = [c \in Clients |-> "absent"]
  /\ lsent = [c \in Clients |-> 0] /\ lgot = lsent /\ leof = [c \in Clients |-> FALSE]
  /\ upq = lsent /\ downq = lsent /\ reset = leof /\ shut = [c \in Clients |-> "no"]
  /\ phase = [c \in Clients |-> "none"] /\ fd = lsent /\ bfd = lsent
  /\ bstop = leof /\ strayed = leof /\ callback = [c \in Clients |-> "none"]
  /\ up = [c \in Clients |-> "off"] /\ down = up /\ uhold = lsent /\ dhold = lsent
  /\ chan = [c \in Clients |-> "none"] /\ chUp = lsent /\ chEof = leof /\ srvEof = leof
  /\ chDown = [c \in Clients |-> [sent |-> 0, left |-> 0]]

At(f, c, v) == [f EXCEPT ![c] = v]

(***************************************************************************)
(* The client (curl), the destination and the gateway's session                *)
(***************************************************************************)
Connects(c) ==
  /\ c \in load.clients /\ peer[c] = "absent" /\ server = "accept"
  /\ peer' = At(peer, c, "queued")
  /\ UNCHANGED <<owner, lsent, lgot, leof, socket, serving, bridge, pumps, channel>>

\* Its request; what follows is data, which the bridge carries.
Writes(c) ==
  /\ peer[c] = "open" /\ phase[c] \in {"bridge", "joined", "closing"}
  /\ shut[c] # "both" /\ lsent[c] < Up /\ upq[c] < Room
  /\ lsent' = [lsent EXCEPT ![c] = @ + 1] /\ upq' = [upq EXCEPT ![c] = @ + 1]
  /\ UNCHANGED <<owner, peer, lgot, leof, downq, reset, shut, serving, bridge, pumps, channel>>

Reads(c) ==
  /\ peer[c] = "open" /\ ~leof[c]
  /\ \/ /\ downq[c] > 0
        /\ lgot' = [lgot EXCEPT ![c] = @ + downq[c]] /\ downq' = At(downq, c, 0)
        /\ leof' = leof
     \/ /\ downq[c] = 0 /\ (shut[c] # "no" \/ phase[c] = "closed")
        /\ leof' = At(leof, c, TRUE) /\ UNCHANGED <<lgot, downq>>
  /\ UNCHANGED <<owner, peer, lsent, upq, reset, shut, serving, bridge, pumps, channel>>

\* To close with data unread resets an AF_UNIX connection.
Closes(c) ==
  /\ peer[c] \in {"queued", "open"}
  /\ peer' = At(peer, c, "closed")
  /\ reset' = At(reset, c, reset[c] \/ downq[c] > 0) /\ downq' = At(downq, c, 0)
  /\ UNCHANGED <<owner, lsent, lgot, leof, upq, shut, serving, bridge, pumps, channel>>

Answers(c) ==
  /\ chan[c] = "open" /\ ~lost /\ ~srvEof[c]
  /\ \/ /\ chDown[c].sent < Down
        /\ chDown' = [chDown EXCEPT ![c] = [sent |-> @.sent + 1, left |-> @.left + 1]]
        /\ srvEof' = srvEof
     \/ srvEof' = At(srvEof, c, TRUE) /\ chDown' = chDown
  /\ UNCHANGED <<owner, sides, socket, serving, bridge, pumps, chan, chUp, chEof>>

Lost == ~lost /\ lost' = TRUE /\ UNCHANGED <<server, stopping, others, sides, socket, serving, bridge, pumps, channel>>

(***************************************************************************)
(* serve_socks_async and stop_ssh_socks_proxy_async                            *)
(***************************************************************************)
\* Every client awaits with this cancellation; a bridge has registered a callback.
StopsAll ==
  /\ stopping' = TRUE
  /\ callback' = [c \in Clients |-> IF callback[c] = "registered" THEN "queued" ELSE callback[c]]
Stop ==
  /\ ~stopping /\ StopsAll
  /\ UNCHANGED <<server, lost, others, sides, socket, serving, bstop, bfd, strayed, pumps, channel>>

HasRoom == Cardinality(Serving) < Limit

Accept(c) ==
  /\ server = "accept" /\ ~stopping /\ peer[c] \in {"queued", "closed"} /\ phase[c] = "none"
  /\ \/ HasRoom /\ phase' = At(phase, c, "greet") /\ \E n \in Free : fd' = At(fd, c, n)
     \/ ~HasRoom /\ phase' = At(phase, c, "closed") /\ fd' = fd
  /\ peer' = IF peer[c] = "queued" THEN At(peer, c, "open") ELSE peer
  /\ UNCHANGED <<owner, lsent, lgot, leof, socket, bridge, pumps, channel>>
\* The error or the cancellation that ends the loop also cancels the clients.
EndLoop ==
  /\ server = "accept" /\ stopping
  /\ server' = "join"
  /\ UNCHANGED <<stopping, lost, others, sides, socket, serving, bridge, pumps, channel>>
AcceptFails ==
  /\ server = "accept" /\ ~stopping /\ StopsAll
  /\ server' = "join"
  /\ UNCHANGED <<lost, others, sides, socket, serving, bstop, bfd, strayed, pumps, channel>>
AllJoined == Serving = {}
Joined ==
  /\ server = "join" /\ AllJoined
  /\ server' = "ended"
  /\ UNCHANGED <<stopping, lost, others, sides, socket, serving, bridge, pumps, channel>>

(***************************************************************************)
(* serve_socks_client_async                                                    *)
(***************************************************************************)
\* SocksSocket closes the descriptor when the coroutine ends; from then on it may be anybody's.
Goes(c, p) ==
  /\ phase' = At(phase, c, p)
  /\ fd' = IF p = "closed" THEN At(fd, c, 0) ELSE fd
Phase(c, p) ==
  /\ Goes(c, p)
  /\ UNCHANGED <<owner, sides, socket, bridge, pumps, channel>>
\* A request that is bad is refused with its code, one that never ends just fails.
Request(c) ==
  /\ phase[c] = "greet"
  /\ \/ stopping /\ Phase(c, "closed")
     \/ ~stopping /\ peer[c] = "open" /\ \E p \in {"open", "refuse", "closed"} : Phase(c, p)
     \/ peer[c] = "closed" /\ Phase(c, "closed")
\* open_forward_async ends with a channel, or with the reason why there is none.
Open(c) ==
  /\ phase[c] = "open"
  /\ \/ /\ ~lost /\ ~stopping /\ Goes(c, "reply") /\ chan' = At(chan, c, "open")
     \/ /\ Goes(c, IF stopping THEN "closed" ELSE "refuse") /\ chan' = chan
  /\ UNCHANGED <<owner, sides, socket, bridge, pumps, chUp, chEof, chDown, srvEof>>
Refuse(c) == phase[c] = "refuse" /\ Phase(c, "closed")
\* The reply is sent and bridge_ssh_channel_async starts both directions, or the
\* client is gone or the server stops, and the channel is dropped.
Reply(c) ==
  /\ phase[c] = "reply"
  /\ \/ /\ peer[c] = "open" /\ ~stopping
        /\ Goes(c, "bridge") /\ callback' = At(callback, c, "registered") /\ bfd' = At(bfd, c, fd[c])
        /\ up' = At(up, c, "look") /\ down' = At(down, c, "read") /\ chan' = chan
     \/ /\ stopping \/ peer[c] = "closed"
        /\ Goes(c, IF stopping THEN "closed" ELSE "refuse")
        /\ chan' = At(chan, c, "gone") /\ UNCHANGED <<callback, bfd, up, down>>
  /\ UNCHANGED <<owner, sides, socket, bstop, strayed, uhold, dhold, chUp, chEof, chDown, srvEof>>

BothDone(c) == up[c] = "done" /\ down[c] = "done"
RunBridge(c) ==
  /\ phase[c] = "bridge" /\ BothDone(c)
  /\ Goes(c, "joined") /\ chan' = At(chan, c, "gone")
  /\ UNCHANGED <<owner, sides, socket, bridge, pumps, chUp, chEof, chDown, srvEof>>
\* Fault: the bridge keeps the descriptor's number.
FaultForgotten(c) == bfd[c]
Forgotten(c) == 0
\* The bridge forgets the descriptor: a callback that is queued finds -1.
Forget(c) ==
  /\ phase[c] = "joined" /\ Goes(c, "closing") /\ bfd' = At(bfd, c, Forgotten(c))
  /\ UNCHANGED <<owner, sides, socket, bstop, callback, strayed, pumps, channel>>
Close(c) ==
  /\ phase[c] = "closing" /\ Goes(c, "closed")
  /\ callback' = IF callback[c] = "registered" THEN At(callback, c, "run") ELSE callback
  /\ UNCHANGED <<owner, sides, socket, bstop, bfd, strayed, pumps, channel>>

(***************************************************************************)
(* SshProxyBridge                                                              *)
(***************************************************************************)
\* shutdown(bridge->fd, SHUT_RDWR): of both ends of the stream of whoever holds the number.
Foreign(c) == bfd[c] \in others \/ \E d \in Clients \ {c} : fd[d] = bfd[c] /\ fd[d] # 0
ShutsDown(c) ==
  /\ shut' = [d \in Clients |-> IF fd[d] = bfd[c] /\ fd[d] # 0 THEN "both" ELSE shut[d]]
  /\ strayed' = At(strayed, c, strayed[c] \/ Foreign(c))
Cancelled(c) == bstop' = At(bstop, c, TRUE) /\ ShutsDown(c)
\* Fault: the callback only shuts the socket down.
FaultInterrupts(c) == bstop
Interrupts(c) == At(bstop, c, TRUE)
\* A callback that was queued runs also when the bridge has ended and its client is closed.
Callback(c) ==
  /\ callback[c] = "queued" /\ callback' = At(callback, c, "run")
  /\ bstop' = Interrupts(c) /\ ShutsDown(c)
  /\ UNCHANGED <<owner, sides, upq, downq, reset, serving, bfd, pumps, channel>>

\* Another part of the process opens a descriptor: it gets one that is free.
Opens == \E n \in Free :
  /\ others' = others \cup {n}
  /\ UNCHANGED <<server, stopping, lost, sides, socket, serving, bridge, pumps, channel>>

\* copy_to_gateway_async: what the socket holds comes before its end.
UpLook(c) ==
  /\ up[c] = "look" /\ ~bstop[c]
  /\ \/ /\ upq[c] > 0
        /\ up' = At(up, c, "write") /\ uhold' = At(uhold, c, upq[c]) /\ upq' = At(upq, c, 0)
        /\ reset' = reset
     \/ /\ upq[c] = 0 /\ (peer[c] = "closed" \/ reset[c] \/ shut[c] = "both")
        /\ up' = At(up, c, "eof") /\ reset' = At(reset, c, FALSE) /\ UNCHANGED <<uhold, upq>>
     \/ /\ upq[c] = 0 /\ peer[c] = "open" /\ ~reset[c] /\ shut[c] # "both"
        /\ up' = At(up, c, "wait") /\ UNCHANGED <<uhold, upq, reset>>
  /\ UNCHANGED <<owner, sides, downq, shut, serving, bridge, down, dhold, channel>>
Readable(c) == upq[c] > 0 \/ peer[c] = "closed" \/ reset[c] \/ shut[c] = "both"
UpWake(c) ==
  /\ up[c] = "wait" /\ ~bstop[c] /\ Readable(c)
  /\ up' = At(up, c, "look")
  /\ UNCHANGED <<owner, sides, socket, serving, bridge, uhold, down, dhold, channel>>
UpCarry(c) ==
  /\ up[c] = "write" /\ ~bstop[c] /\ ~lost
  /\ chUp' = [chUp EXCEPT ![c] = @ + 1] /\ uhold' = [uhold EXCEPT ![c] = @ - 1]
  /\ up' = IF uhold[c] = 1 THEN At(up, c, "look") ELSE up
  /\ UNCHANGED <<owner, sides, socket, serving, bridge, down, dhold, chan, chEof, chDown, srvEof>>
UpEof(c) ==
  /\ up[c] = "eof" /\ ~bstop[c] /\ ~lost
  /\ chEof' = At(chEof, c, TRUE) /\ up' = At(up, c, "done")
  /\ UNCHANGED <<owner, sides, socket, serving, bridge, uhold, down, dhold, chan, chUp, chDown, srvEof>>
\* A cancellation, or a gateway that is lost, ends both directions.
UpFails(c) ==
  /\ up[c] \in {"look", "wait", "write", "eof"}
  /\ bstop[c] \/ (lost /\ up[c] \in {"write", "eof"})
  /\ Cancelled(c) /\ up' = At(up, c, "done")
  /\ UNCHANGED <<owner, sides, upq, downq, reset, serving, callback, bfd, uhold, down, dhold, channel>>

\* copy_from_gateway_async
AtEnd(c) == chDown[c].left = 0 /\ srvEof[c]
DownRead(c) ==
  /\ down[c] = "read" /\ ~bstop[c]
  /\ \/ /\ chDown[c].left > 0
        /\ down' = At(down, c, "send") /\ dhold' = At(dhold, c, chDown[c].left)
        /\ chDown' = [chDown EXCEPT ![c].left = 0] /\ shut' = shut
     \/ /\ AtEnd(c) /\ ~lost
        /\ down' = At(down, c, "done")
        /\ shut' = IF shut[c] = "no" THEN At(shut, c, "write") ELSE shut
        /\ UNCHANGED <<dhold, chDown>>
  /\ UNCHANGED <<owner, sides, upq, downq, reset, serving, bridge, up, uhold, chan, chUp, chEof, srvEof>>
\* EPIPE or ECONNRESET: the upload it wrote before goes on.
Broken(c) == down' = At(down, c, "done") /\ reset' = At(reset, c, FALSE) /\ UNCHANGED <<bstop, shut, strayed>>
DownSend(c) ==
  /\ down[c] = "send" /\ ~bstop[c]
  /\ \/ /\ peer[c] = "closed" \/ reset[c]
        /\ Broken(c) /\ UNCHANGED <<dhold, downq>>
     \/ /\ peer[c] = "open" /\ ~reset[c] /\ downq[c] = Room
        /\ down' = At(down, c, "wait") /\ UNCHANGED <<dhold, downq, reset, bstop, shut, strayed>>
     \/ /\ peer[c] = "open" /\ ~reset[c] /\ downq[c] < Room
        /\ \E n \in 1..dhold[c] :
             /\ downq[c] + n <= Room
             /\ downq' = [downq EXCEPT ![c] = @ + n] /\ dhold' = [dhold EXCEPT ![c] = @ - n]
             /\ down' = IF n = dhold[c] THEN At(down, c, "read") ELSE down
        /\ UNCHANGED <<reset, bstop, shut, strayed>>
  /\ UNCHANGED <<owner, sides, upq, serving, callback, bfd, up, uhold, channel>>
DownWake(c) ==
  /\ down[c] = "wait" /\ ~bstop[c] /\ (downq[c] < Room \/ peer[c] = "closed")
  /\ down' = At(down, c, "send")
  /\ UNCHANGED <<owner, sides, socket, serving, bridge, up, uhold, dhold, channel>>
DownFails(c) ==
  /\ down[c] \in {"read", "send", "wait"}
  /\ bstop[c] \/ (lost /\ down[c] = "read" /\ chDown[c].left = 0)
  /\ Cancelled(c) /\ down' = At(down, c, "done")
  /\ UNCHANGED <<owner, sides, upq, downq, reset, serving, callback, bfd, up, uhold, dhold, channel>>

PumpUp(c) == UpLook(c) \/ UpWake(c) \/ UpCarry(c) \/ UpEof(c) \/ UpFails(c)
PumpDown(c) == DownRead(c) \/ DownSend(c) \/ DownWake(c) \/ DownFails(c)
Serve(c) ==
  Request(c) \/ Open(c) \/ Refuse(c) \/ Reply(c) \/ RunBridge(c) \/ Forget(c) \/ Close(c) \/ Callback(c)
World(c) == Connects(c) \/ Writes(c) \/ Reads(c) \/ Closes(c) \/ Answers(c)
Next ==
  /\ load' = load
  /\ \/ Lost \/ Stop \/ EndLoop \/ AcceptFails \/ Joined \/ Opens
     \/ \E c \in Clients : Accept(c) \/ Serve(c) \/ PumpUp(c) \/ PumpDown(c) \/ World(c)

Spec == Init /\ [][Next]_vars

(***************************************************************************)
(* Properties                                                                  *)
(***************************************************************************)
\* The destination hears the end of an upload only behind all its bytes, and a
\* bridge that ended while nobody stopped the server and the gateway lived has passed on all that its
\* client wrote, also when that client closed with answers unread
\* (ssh-proxy.cpp:60-62, 97-101).
UploadWhole == \A c \in Clients :
  /\ chEof[c] => chUp[c] = lsent[c] /\ peer[c] = "closed"
  /\ phase[c] \in {"joined", "closing", "closed"} /\ chan[c] = "gone" /\ up[c] = "done" /\ ~stopping /\ ~lost => chEof[c]

\* A client that reads the end of its stream has read all its destination sent,
\* unless the server was stopped or the gateway lost (ssh-proxy.cpp:79-82, 111-113).
DownloadWhole == \A c \in Clients :
  leof[c] /\ down[c] = "done" /\ ~stopping /\ ~lost => lgot[c] = chDown[c].sent /\ srvEof[c]

\* A cancellation that was queued while the bridge ended never shuts down a descriptor that
\* its client closed and that another client, or another part of the process, has been given
\* since (ssh-proxy.cpp:123-128).
NoStray == \A c \in Clients : ~strayed[c]

\* A direction that still runs has its channel, and the server gives up the
\* gateway when no client uses it and no socket of it is open
\* (ssh-proxy.cpp:111-114, ssh-socks-proxy.cpp:178-181).
Outlives ==
  /\ \A c \in Clients : up[c] \notin {"off", "done"} \/ down[c] \notin {"off", "done"} => chan[c] = "open"
  /\ server = "ended" => \A c \in Clients : chan[c] # "open" /\ phase[c] \notin Live

\* Both directions of a bridge are whole, no descriptor of anybody else is
\* shut down, and nothing outlives what it uses.
ForwardSound == TypeOK /\ UploadWhole /\ DownloadWhole /\ NoStray /\ Outlives

\* The steps of the program are taken; a client ends its connection, or a
\* destination ends its answer, only when it likes to.
FairSpec ==
  /\ Spec /\ WF_vars(EndLoop) /\ WF_vars(Joined)
  /\ \A c \in Clients : WF_vars(Serve(c)) /\ WF_vars(PumpUp(c)) /\ WF_vars(PumpDown(c))

\* What must end whatever the clients and the gateway do or do not do: a server that is stopped
\* (ssh-socks-proxy.cpp:177-181, 223-227), and a bridge whose client is gone and whose
\* destination has ended too.
Unsettled ==
  \/ stopping /\ server # "ended"
  \/ \E c \in Clients : phase[c] \in {"bridge", "joined", "closing"} /\ peer[c] = "closed" /\ srvEof[c]
AllEnds == Unsettled ~> ~Unsettled
=============================================================================
