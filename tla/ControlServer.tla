---------------------------- MODULE ControlServer ----------------------------
(***************************************************************************)
(* The control socket of the launcher (control-server.cpp, with the handler of *)
(* main.cpp) and the program etctl that uses it (control-client.cpp).         *)
(*                                                                         *)
(* Launchers that share a runtime directory start, end and crash at any time.  *)
(* The lock file is an inode: a launcher opens it and then locks what it        *)
(* opened.  The socket is a name in the directory; it outlives a crash.  An     *)
(* action of a launcher is one system call on these two, or what its loop does  *)
(* between two awaits; an action of a client is one turn of its loop.           *)
(***************************************************************************)
EXTENDS Naturals, FiniteSets

CONSTANTS Launchers, Clients, None,
          Setups,     \* the clients that run "etctl setup"; the others open something
          Starters,   \* those that start a launcher: setup and open-connection-id
          Limit,      \* clients a launcher serves at a time (32)
          MaxStarts   \* bound: launchers that are started

ASSUME ControlAssumption ==
  /\ Limit \in Nat \ {0} /\ MaxStarts \in Nat /\ None \notin Launchers
  /\ Setups \subseteq Starters /\ Starters \subseteq Clients /\ IsFiniteSet(Clients)

VARIABLES
  server,     \* what each launcher has done for its control server
  shutting,   \* application_shutting_down or quitting
  lockfile,   \* the inode that "control.lock" names
  locks,      \* the inode that state->lock has open, 0 for none
  path,       \* the socket that "control.sock" names: its launcher, and whether that lives
  served,     \* unfinished promises of state->clients
  finished,   \* ready promises of state->clients
  starts, born,   \* launchers started so far; the number of each launcher's start
  client,     \* where etctl is
  conn,       \* the launcher its connection leads to
  turn,       \* how far its request has been handled
  reply,      \* what it can read
  executed,   \* how often its command was carried out
  child,      \* launched_pid: the start it caused, 0 for none
  late        \* its deadline of 120 s has passed

files == <<lockfile, locks, path>>
launchers == <<server, shutting, starts, born>>
tasks == <<served, finished>>
request == <<conn, turn, reply, executed>>
etctl == <<client, child, late>>
socket == <<files, launchers, tasks, request, etctl>>

Stages == {"off", "starting", "opened", "locked", "clean", "bound", "up",
           "closing", "unlinked", "without"}
\* flock is held from its success until the descriptor is closed.
Locked == {"locked", "clean", "bound", "up", "closing", "unlinked"}
Ended == {"ok", "failed"}

SocketTypeOK ==
  /\ server \in [Launchers -> Stages] /\ shutting \in [Launchers -> BOOLEAN]
  /\ lockfile \in Nat \ {0} /\ locks \in [Launchers -> Nat]
  /\ path \in {None} \cup [owner : Launchers, live : BOOLEAN]
  /\ served \in [Launchers -> SUBSET Clients] /\ finished \in [Launchers -> Nat]
  /\ \A l \in Launchers : Cardinality(served[l]) <= Limit
  /\ starts \in 0..MaxStarts /\ born \in [Launchers -> 0..MaxStarts]
  /\ client \in [Clients -> {"begin", "connected", "sent"} \cup Ended]
  /\ conn \in [Clients -> Launchers \cup {None}] /\ turn \in [Clients -> {"none", "reading", "done", "refused"}]
  /\ reply \in [Clients -> {"none", "OK", "PENDING", "ERROR", "closed"}]
  /\ executed \in [Clients -> Nat]
  /\ child \in [Clients -> 0..MaxStarts] /\ late \in [Clients -> BOOLEAN]

SocketInit ==
  /\ server = [l \in Launchers |-> "off"] /\ shutting = [l \in Launchers |-> FALSE]
  /\ lockfile = 1 /\ locks = [l \in Launchers |-> 0] /\ path = None
  /\ served = [l \in Launchers |-> {}] /\ finished = [l \in Launchers |-> 0]
  /\ starts = 0 /\ born = [l \in Launchers |-> 0]
  /\ client = [c \in Clients |-> "begin"] /\ conn = [c \in Clients |-> None]
  /\ turn = [c \in Clients |-> "none"] /\ reply = [c \in Clients |-> "none"]
  /\ executed = [c \in Clients |-> 0]
  /\ child = [c \in Clients |-> 0] /\ late = [c \in Clients |-> FALSE]

-----------------------------------------------------------------------------
(* create_control_server                                                    *)

To(l, stage) == server' = [server EXCEPT ![l] = stage]
CloseLock(l) == locks' = [locks EXCEPT ![l] = 0]

Started(l) ==
  /\ server[l] = "off" /\ starts < MaxStarts
  /\ To(l, "starting") /\ shutting' = [shutting EXCEPT ![l] = FALSE]
  /\ starts' = starts + 1 /\ born' = [born EXCEPT ![l] = starts + 1]

\* A user or the session starts a launcher.
Start(l) == Started(l) /\ UNCHANGED <<files, tasks, request, etctl>>

OpenLock(l) ==
  /\ server[l] = "starting"
  /\ \/ To(l, "opened") /\ locks' = [locks EXCEPT ![l] = lockfile]
     \/ To(l, "without") /\ UNCHANGED locks          \* the directory or the file is refused
  /\ UNCHANGED <<lockfile, path, shutting, starts, born, tasks, request, etctl>>

Taken(inode) == \E m \in Launchers : server[m] \in Locked /\ locks[m] = inode

\* A failed creation runs destroy_control_server too.
\* Fault: it removes the name although it has not bound it.
UnlinksAlways == TRUE
UnlinksUnbound == FALSE

GivesUp(l) ==
  /\ To(l, "without") /\ CloseLock(l)
  /\ path' = IF UnlinksUnbound THEN None ELSE path

TakeLock(l) ==
  /\ server[l] = "opened"
  /\ IF Taken(locks[l]) THEN GivesUp(l)
     ELSE To(l, "locked") /\ UNCHANGED <<locks, path>>
  /\ UNCHANGED <<lockfile, shutting, starts, born, tasks, request, etctl>>

\* The owner of the lock reclaims an abandoned socket.
Reclaim(l) ==
  /\ server[l] = "locked"
  /\ \/ To(l, "clean") /\ path' = None /\ UNCHANGED locks
     \/ path # None /\ GivesUp(l)                        \* unlink fails
  /\ UNCHANGED <<lockfile, shutting, starts, born, tasks, request, etctl>>

Bind(l) ==
  /\ server[l] = "clean"
  /\ \/ /\ path = None
        /\ To(l, "bound") /\ path' = [owner |-> l, live |-> TRUE] /\ UNCHANGED locks
     \/ GivesUp(l)                                       \* also EADDRINUSE
  /\ UNCHANGED <<lockfile, shutting, starts, born, tasks, request, etctl>>

Listen(l) ==
  /\ server[l] = "bound"
  /\ \/ To(l, "up")
     \/ To(l, "closing")                                 \* chmod or listen fails
  /\ UNCHANGED <<files, shutting, starts, born, tasks, request, etctl>>

-----------------------------------------------------------------------------
(* destroy_control_server, and a crash                                      *)

Connected(l) == {c \in Clients : conn[c] = l}
CloseConnections(gone) ==
  /\ conn' = [c \in Clients |-> IF c \in gone THEN None ELSE conn[c]]
  /\ turn' = [c \in Clients |-> IF c \in gone THEN "none" ELSE turn[c]]
  /\ reply' = [c \in Clients |->
       IF c \in gone /\ reply[c] = "none" THEN "closed" ELSE reply[c]]
  /\ UNCHANGED executed

Quit(l) ==
  /\ server[l] = "up" /\ ~shutting[l]
  /\ shutting' = [shutting EXCEPT ![l] = TRUE]
  /\ UNCHANGED <<files, server, starts, born, tasks, request, etctl>>

\* on_application_shutdown: cancel() and clients.clear().
Shutdown(l) ==
  /\ server[l] = "up" /\ shutting[l] /\ To(l, "closing")
  /\ served' = [served EXCEPT ![l] = {}] /\ finished' = [finished EXCEPT ![l] = 0]
  /\ CloseConnections(served[l])
  /\ UNCHANGED <<files, shutting, starts, born, etctl>>

LockfileAfter == lockfile

UnlinkSocket(l) ==
  /\ server[l] = "closing" /\ To(l, "unlinked") /\ path' = None
  /\ UNCHANGED <<lockfile, locks, shutting, starts, born, tasks, request, etctl>>

\* delete state: the listener, and then the lock, are closed.
Release(l) ==
  /\ server[l] = "unlinked"
  /\ To(l, IF shutting[l] THEN "off" ELSE "without")
  /\ CloseLock(l) /\ lockfile' = LockfileAfter
  /\ CloseConnections(Connected(l))
  /\ UNCHANGED <<path, shutting, starts, born, tasks, etctl>>

\* A launcher without a control server ends.
End(l) ==
  /\ server[l] = "without" /\ To(l, "off")
  /\ UNCHANGED <<files, shutting, starts, born, tasks, request, etctl>>

Crash(l) ==
  /\ server[l] # "off" /\ To(l, "off") /\ CloseLock(l)
  /\ path' = IF path # None /\ path.owner = l THEN [path EXCEPT !.live = FALSE] ELSE path
  /\ served' = [served EXCEPT ![l] = {}] /\ finished' = [finished EXCEPT ![l] = 0]
  /\ CloseConnections(Connected(l))
  /\ UNCHANGED <<lockfile, shutting, starts, born, etctl>>

-----------------------------------------------------------------------------
(* accept_clients, serve_client, dispatch_request and handle_control_request *)

\* Faults: promises that are ready still count; one more than the limit is served.
CountsReady(l) == Cardinality(served[l]) + finished[l] >= Limit
OverLimit(l) == Cardinality(served[l]) > Limit
Full(l) == Cardinality(served[l]) >= Limit

Backlog(l) == {c \in Connected(l) \ served[l] : reply[c] = "none"}

Accept(l, c) ==
  /\ server[l] = "up" /\ c \in Backlog(l)
  /\ finished' = [finished EXCEPT ![l] = 0]
  /\ IF Full(l)
       THEN CloseConnections({c}) /\ UNCHANGED served
       ELSE served' = [served EXCEPT ![l] = @ \cup {c}] /\ UNCHANGED request
  /\ UNCHANGED <<files, launchers, etctl>>

Serving(l, c) == server[l] = "up" /\ c \in served[l]

Answer(l, c, answer) ==
  /\ served' = [served EXCEPT ![l] = @ \ {c}] /\ finished' = [finished EXCEPT ![l] = @ + 1]
  /\ conn' = [conn EXCEPT ![c] = None] /\ turn' = [turn EXCEPT ![c] = "none"]
  /\ reply' = [reply EXCEPT ![c] = answer]

\* dispatch_launcher_action refuses when the launcher is shutting down.
Carry(l, c) ==
  /\ turn' = [turn EXCEPT ![c] = IF shutting[l] THEN "refused" ELSE "done"]
  /\ executed' = [executed EXCEPT ![c] = @ + IF shutting[l] THEN 0 ELSE 1]
  /\ UNCHANGED <<conn, reply, tasks>>

\* setup_hotkeys reports what it finds.
SetupAnswers == {"OK", "PENDING", "ERROR"}

\* A setup is answered at once; an opening names a known profile or not, and
\* an identity is looked up in the profiles, which are read.
Handle(l, c) ==
  /\ Serving(l, c) /\ client[c] # "connected" /\ turn[c] = "none"
  /\ \/ /\ c \in Setups /\ ~shutting[l]
        /\ \E answer \in SetupAnswers : Answer(l, c, answer)
        /\ UNCHANGED executed
     \/ Answer(l, c, "ERROR") /\ UNCHANGED executed
     \/ c \notin Starters /\ Carry(l, c)
     \/ /\ c \in Starters \ Setups /\ ~shutting[l]
        /\ turn' = [turn EXCEPT ![c] = "reading"]
        /\ UNCHANGED <<conn, reply, executed, tasks>>
  /\ UNCHANGED <<files, launchers, etctl>>

Resolved(l, c) ==
  /\ Serving(l, c) /\ turn[c] = "reading"
  /\ \/ Answer(l, c, "ERROR") /\ UNCHANGED executed
     \/ Carry(l, c)
  /\ UNCHANGED <<files, launchers, etctl>>

Told(c) == IF turn[c] = "done" THEN "OK" ELSE "ERROR"

Respond(l, c) ==
  /\ Serving(l, c) /\ turn[c] \in {"done", "refused"}
  /\ Answer(l, c, Told(c))
  /\ UNCHANGED <<executed, files, launchers, etctl>>

\* The 10 s of serve_client pass in one of its awaits.
Expire(l, c) ==
  /\ Serving(l, c) /\ (client[c] = "connected" \/ turn[c] = "reading")
  /\ Answer(l, c, "closed") /\ UNCHANGED executed
  /\ UNCHANGED <<files, launchers, etctl>>

-----------------------------------------------------------------------------
(* etctl                                                                    *)

Become(c, where) == client' = [client EXCEPT ![c] = where]

\* connect succeeds while somebody listens on the socket that the path names.
Listening == path # None /\ path.live /\ server[path.owner] \in {"up", "closing"}

Connect(c) ==
  /\ client[c] = "begin" /\ Listening
  /\ Become(c, "connected") /\ conn' = [conn EXCEPT ![c] = path.owner]
  /\ reply' = [reply EXCEPT ![c] = "none"]
  /\ UNCHANGED <<files, launchers, tasks, turn, executed, child, late>>

\* The request is sent and the connection half-closed; a stopped etctl does neither.
Send(c) ==
  /\ client[c] = "connected" /\ Become(c, "sent")
  /\ UNCHANGED <<files, launchers, tasks, request, child, late>>

Exited(start) == \A l \in Launchers : server[l] = "off" \/ born[l] # start

\* Fault: an unreachable launcher is awaited for ever.
NeverExpires(c) == FALSE
Expired(c) == late[c]

\* LauncherUnavailable: a launcher is started once, and then awaited.
Unavailable(c) ==
  /\ client[c] = "begin" /\ ~Listening
  /\ \/ /\ \/ c \notin Starters
           \/ child[c] # 0 /\ Exited(child[c])
           \/ Expired(c)
        /\ Become(c, "failed") /\ UNCHANGED <<child, launchers>>
     \/ /\ c \in Starters /\ child[c] = 0
        /\ \/ Become(c, "failed") /\ UNCHANGED <<child, launchers>>      \* no display, no spawn
           \/ \E l \in Launchers : Started(l) /\ child' = [child EXCEPT ![c] = starts']
                                   /\ UNCHANGED client
  /\ UNCHANGED <<files, tasks, request, late>>

\* Fault: an answer that never came is asked for again.
AsksOnSilence(c) == ~Expired(c) /\ reply[c] \in {"PENDING", "closed"}
AsksAgain(c) == c \in Setups /\ reply[c] = "PENDING" /\ ~Expired(c)

ReadReply(c) ==
  /\ client[c] \in {"connected", "sent"} /\ reply[c] # "none"
  /\ Become(c, IF reply[c] = "OK" THEN "ok"
               ELSE IF AsksAgain(c) THEN "begin" ELSE "failed")
  /\ UNCHANGED <<files, launchers, tasks, request, child, late>>

\* No answer for 10 s; what was sent stays with the launcher.
GiveUp(c) ==
  /\ client[c] = "sent" /\ reply[c] = "none" /\ Become(c, "failed")
  /\ UNCHANGED <<files, launchers, tasks, request, child, late>>

Deadline(c) ==
  /\ ~late[c] /\ client[c] \notin Ended /\ late' = [late EXCEPT ![c] = TRUE]
  /\ UNCHANGED <<files, launchers, tasks, request, client, child>>

-----------------------------------------------------------------------------
LauncherStep(l) ==
  \/ Start(l) \/ OpenLock(l) \/ TakeLock(l) \/ Reclaim(l) \/ Bind(l) \/ Listen(l)
  \/ Quit(l) \/ Shutdown(l) \/ UnlinkSocket(l) \/ Release(l) \/ End(l) \/ Crash(l)
Serve(l, c) == Accept(l, c) \/ Handle(l, c) \/ Resolved(l, c) \/ Respond(l, c) \/ Expire(l, c)
Answered(c) == ReadReply(c) \/ GiveUp(c)
ClientStep(c) == Connect(c) \/ Send(c) \/ Unavailable(c) \/ Answered(c) \/ Deadline(c)

SocketNext ==
  \/ \E l \in Launchers : LauncherStep(l) \/ \E c \in Clients : Serve(l, c)
  \/ \E c \in Clients : ClientStep(c)

SocketSpec == SocketInit /\ [][SocketNext]_socket

\* etctl keeps running unless it is stopped before it has sent its request; its
\* timeouts pass.  Nothing is assumed of the launchers.
Fairness ==
  \A c \in Clients :
    /\ WF_socket(Connect(c) \/ Unavailable(c)) /\ WF_socket(Send(c))
    /\ WF_socket(Answered(c)) /\ WF_socket(Deadline(c))
FairSpec == SocketSpec /\ Fairness

-----------------------------------------------------------------------------
(* Properties                                                               *)

\* A launcher that serves is reached by the name of the socket, whatever other
\* launchers do that start, fail, end or crash (control-server.cpp:197-218, 226-236).
Reachable ==
  \A l \in Launchers : server[l] \in {"bound", "up"} => path = [owner |-> l, live |-> TRUE]

\* The path is free when it is bound: nobody binds it between its reclaiming and
\* bind, for all that start share one lock (control-server.cpp:197-206).
FreeToBind == \A l \in Launchers : server[l] = "clean" => path = None

\* A command that opens something is carried out at most once, although
\* etctl connects again and again (control-client.cpp:209-256).
AtMostOnce == \A c \in Clients \ Setups : executed[c] <= 1

\* etctl reports success of an opening only after it was carried out.
SuccessTrue == \A c \in Clients \ Setups : client[c] = "ok" => executed[c] = 1

\* A launcher that stays up turns a client away only while as many others as it
\* may serve are unfinished (control-server.cpp:162-166).
RefusesJustly ==
  \A l \in Launchers, c \in Clients :
    (c \in Backlog(l) /\ reply'[c] = "closed" /\ server[l] = "up" /\ server'[l] = "up")
      => Cardinality(served[l]) = Limit

\* A launcher that serves is reached, binds a free path, and refuses only when full; what
\* opens something happens at most once, and once when it is reported
\* (control-server.cpp:162-166, 197-236; control-client.cpp:209-256).
SocketSound ==
  /\ [](SocketTypeOK /\ Reachable /\ FreeToBind /\ AtMostOnce /\ SuccessTrue)
  /\ [][RefusesJustly]_socket

\* etctl ends, whether the launcher is absent, starting or always "PENDING".
Ends == \A c \in Clients : client[c] = "begin" ~> client[c] \in Ended
=============================================================================
