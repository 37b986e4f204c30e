---------------------------- MODULE WebdavStream ----------------------------
(***************************************************************************)
(* One WebDAV transfer: the reader or writer of webdav-stream.cpp over one    *)
(* request of the HTTP session (curl-http-session.cpp), which drives          *)
(* libcurl's multi interface on the dispatcher.  Everything runs on one        *)
(* thread; an action is the code from one co_await to the next, except that    *)
(* the turn of the request (hpc = "act") is one action per libcurl callback     *)
(* and nobody else runs during it.                                           *)
(*                                                                         *)
(* The ring of 256 KiB is the queue "bytes"; a byte is its position in the    *)
(* file.  The user gives every call the cancellation of the open ("parent"),   *)
(* as the transfer engine does.                                              *)
(***************************************************************************)
EXTENDS Naturals, Sequences

CONSTANTS Capacity,      \* bytes the ring holds
          Length,        \* declared size of an upload, size of a download
          CallSizes,     \* sizes the user passes to read and write
          CurlSizes,     \* sizes curl passes to its callbacks
          MaxRedirects,  \* redirects of a GET that are followed (5)
          MaxConfirmations \* repetitions after an accepted certificate (16)

ASSUME WebdavAssumption ==
  /\ Capacity \in Nat \ {0} /\ Length \in Nat
  /\ CallSizes \subseteq Nat \ {0} /\ CurlSizes \subseteq Nat \ {0}
  /\ MaxRedirects \in Nat /\ MaxConfirmations \in Nat

VARIABLES
  upload,                                  \* a writer, or a reader
  bytes, produced, consumed,               \* the ring, what went in, what came out
  paused, chunk,                           \* writer's paused, reader's paused_chunk
  finished, closed, failure, creation,     \* flags of the stream
  stopping, parent, waiting,               \* its cancellations, its one waiter
  upc, rest, told,                         \* the user's call
  lock, stopped, spc,                      \* CurlHttpSession
  resume_pending, winner,                  \* and its wait for an event
  hpc, mask, status, redirects, confirmations,   \* the request
  curl, link, held, sockets, expired,      \* libcurl's own state
  file, stored                             \* the server

ring == <<bytes, produced, consumed>>
pauses == <<paused, chunk>>
flags == <<finished, closed, failure, creation>>
signals == <<stopping, parent>>
calling == <<upc, rest, told>>
session == <<lock, stopped, spc>>
wake == <<resume_pending, winner>>
request == <<hpc, mask, status>>
counters == <<redirects, confirmations>>
libcurl == <<curl, link, held, sockets, expired>>
server == <<file, stored>>
vars == <<upload, ring, pauses, flags, signals, waiting, calling, session, wake,
          request, counters, libcurl, server>>

Directions == {"send", "recv"}
Statuses == {"none", "ok", "created", "exists", "redirect", "refused"}
WholeBody == Len(consumed) = Length      \* the server has it all
Least(a, b) == IF a < b THEN a ELSE b

Room == Capacity - Len(bytes)

TypeOK ==
  /\ upload \in BOOLEAN /\ bytes \in Seq(1..Length) /\ Len(bytes) <= Capacity
  /\ produced \in 0..Length /\ consumed \in Seq(1..Length)
  /\ paused \in BOOLEAN /\ chunk \in {0} \cup CurlSizes
  /\ finished \in BOOLEAN /\ closed \in BOOLEAN /\ failure \in BOOLEAN
  /\ creation \in {"unknown", "created", "not_created"}
  /\ stopping \in BOOLEAN /\ parent \in BOOLEAN
  /\ waiting \in {"none", "waiting", "fired", "canceled"}
  /\ upc \in {"new", "open", "idle", "read", "write", "close", "drain", "leave", "gone"}
  /\ rest \in {0} \cup UNION {1..n : n \in CallSizes} /\ told \in BOOLEAN
  /\ lock \in {"free", "request", "other", "stop"} /\ stopped \in BOOLEAN
  /\ spc \in {"none", "lock", "done"}
  /\ resume_pending \in BOOLEAN /\ winner \in {"none", "armed", "fired"}
  /\ hpc \in {"none", "lock", "begin", "act", "wait", "certify", "done"}
  /\ mask \subseteq Directions /\ status \in Statuses
  /\ redirects \in 0..MaxRedirects /\ confirmations \in 0..MaxConfirmations
  /\ curl \subseteq Directions /\ link \in {"none", "up", "set"}
  /\ held \in {0} \cup CurlSizes /\ sockets \in BOOLEAN /\ expired \in BOOLEAN
  /\ file \in {"absent", "foreign", "ours"} /\ stored \in BOOLEAN

-----------------------------------------------------------------------------
(* Signals.                                                                *)

\* wake_reader, wake_writer: lost without a waiter.
WakeUser == waiting' = IF waiting = "waiting" THEN "fired" ELSE waiting

\* try_resolve or try_cancel of session->waiting.
FireWinner == winner' = IF winner = "armed" THEN "fired" ELSE winner

\* resume_curl_http_session.
Resume == resume_pending' = TRUE /\ FireWinner

\* The linked cancellation of the request.  Fault: without that of the session.
CanceledByStream == parent \/ stopping
Canceled == parent \/ stopping \/ stopped

\* Nobody runs during a turn of the request.
Free == hpc # "act"

-----------------------------------------------------------------------------
(* The end of the request: send_webdav_request_async and                     *)
(* receive_webdav_response_async set the outcome and wake the user.           *)

Finish(failed) == /\ finished' = TRUE /\ failure' = failed
                  /\ hpc' = "done" /\ lock' = IF lock = "request" THEN "free" ELSE lock
                  /\ winner' = "none" /\ WakeUser

RequestFails == Finish(TRUE) /\ UNCHANGED <<creation, closed, stopped, spc, resume_pending>>

SentAll == Len(consumed) = Length

CreationOf == CASE status = "created" -> "created"
                [] status = "exists" -> "not_created"
                [] OTHER -> creation

PutEnds == /\ creation' = CreationOf
           /\ Finish(~(status = "created" /\ SentAll))
           /\ UNCHANGED <<closed, stopped, spc, resume_pending, redirects>>

GetEnds == /\ Finish(status # "ok")
           /\ UNCHANGED <<closed, creation, stopped, spc, resume_pending, redirects>>

\* A redirected GET performs a new request, which locks the session again.
GetFollows == /\ hpc' = "lock" /\ lock' = "free" /\ winner' = "none"
              /\ redirects' = redirects + 1
              /\ UNCHANGED <<flags, waiting, stopped, spc, resume_pending>>

-----------------------------------------------------------------------------
(* perform_http_request_async and perform_http_attempt_async.                *)

\* What a new attempt starts with.  libcurl's own pause bits may be those of
\* an earlier request of the session.
AttemptBegins == /\ hpc' = "begin" /\ mask' = {} /\ status' = "none"
                 /\ resume_pending' = FALSE /\ winner' = "none"
                 /\ link' = "none" /\ held' = 0 /\ sockets' = TRUE /\ expired' = FALSE
                 /\ UNCHANGED curl

HttpLocks ==
  /\ hpc = "lock"
  /\ \/ /\ Canceled /\ RequestFails
        /\ UNCHANGED <<mask, status, libcurl>>
     \/ /\ ~Canceled /\ lock = "free" /\ lock' = "request"
        /\ AttemptBegins
        /\ UNCHANGED <<flags, waiting, stopped, spc>>
  /\ UNCHANGED <<upload, ring, pauses, signals, calling, counters, server>>

\* The turn begins: a pending resumption restarts both directions.
HttpBegins ==
  /\ \/ hpc = "begin"
     \/ hpc = "wait" /\ winner = "fired"
  /\ IF Canceled
       THEN RequestFails /\ UNCHANGED <<mask, status, libcurl>>
       ELSE /\ hpc' = "act" /\ winner' = "none" /\ resume_pending' = FALSE
            /\ mask' = IF resume_pending THEN {} ELSE mask
            /\ curl' = IF resume_pending THEN {} ELSE curl
            /\ sockets' = (sockets \/ resume_pending)
            /\ expired' = (expired /\ ~resume_pending)
            /\ UNCHANGED <<flags, waiting, session, status, link, held>>
  /\ UNCHANGED <<upload, ring, pauses, signals, calling, counters, server>>

\* curl attaches a connection.
HttpConnects ==
  /\ hpc = "act" /\ link = "none" /\ link' = "up"
  /\ UNCHANGED <<upload, ring, pauses, flags, signals, waiting, calling, session, wake,
                 request, counters, curl, held, sockets, expired, server>>

\* send_stream_chunk: hand over what there is, or remember that curl is paused.
SendChunk(n) ==
  IF bytes = << >>
    THEN paused' = TRUE /\ UNCHANGED <<ring, waiting>>
    ELSE LET size == Least(n, Len(bytes))
         IN /\ consumed' = consumed \o SubSeq(bytes, 1, size)
            /\ bytes' = SubSeq(bytes, size + 1, Len(bytes))
            /\ WakeUser
            /\ UNCHANGED <<produced, paused>>

\* send_body: nothing to send pauses the upload.
ReadCallback(n) ==
  /\ hpc = "act" /\ upload /\ link # "none" /\ status = "none" /\ "send" \notin curl
  /\ Len(consumed) < Length
  /\ SendChunk(n)
  /\ IF bytes = << >>
       THEN mask' = mask \cup {"send"} /\ curl' = curl \cup {"send"} /\ UNCHANGED expired
       ELSE mask' = mask \ {"send"} /\ expired' = FALSE /\ UNCHANGED curl
  /\ UNCHANGED <<upload, chunk, flags, signals, calling, session, wake, hpc, status,
                 counters, link, held, sockets, server>>

\* receive_stream_chunk: take the whole chunk, or none of it and remember its size.
ReceiveChunk(n) ==
  IF n > Room
    THEN chunk' = n /\ UNCHANGED <<ring, waiting>>
    ELSE /\ bytes' = bytes \o [i \in 1..n |-> produced + i]
         /\ produced' = produced + n
         /\ WakeUser
         /\ UNCHANGED <<consumed, chunk>>

\* receive_body: a chunk without room pauses the download, and curl presents
\* exactly the same chunk again; one larger than the ring is an error.
WriteCallback(n) ==
  /\ hpc = "act" /\ ~upload /\ link # "none" /\ status = "ok" /\ "recv" \notin curl
  /\ IF held > 0 THEN n = held ELSE n <= Length - produced
  /\ IF n > Capacity
       THEN RequestFails /\ UNCHANGED <<ring, chunk, mask, curl, held, expired>>
       ELSE /\ ReceiveChunk(n)
            /\ IF n > Room
                 THEN mask' = mask \cup {"recv"} /\ curl' = curl \cup {"recv"} /\ held' = n
                 ELSE mask' = mask \ {"recv"} /\ held' = 0 /\ UNCHANGED curl
            /\ expired' = FALSE
            /\ UNCHANGED <<flags, session, wake, hpc>>
  /\ UNCHANGED <<upload, paused, signals, calling, status, counters, link, sockets, server>>

\* receive_header: the final status.
HttpAnswers ==
  /\ hpc = "act" /\ link # "none" /\ status = "none"
  /\ expired' = FALSE
  /\ \/ /\ upload /\ stored /\ status' = "created" /\ UNCHANGED server
     \/ /\ upload /\ file = "absent" /\ ~WholeBody      \* before the whole body
        /\ status' = "created" /\ file' = "ours" /\ stored' = TRUE
     \/ /\ upload /\ file # "absent" /\ ~stored
        /\ status' = "exists" /\ UNCHANGED server
     \/ /\ status' \in {"refused", "redirect"} \cup (IF upload THEN {} ELSE {"ok"})
        /\ UNCHANGED server
  /\ UNCHANGED <<upload, ring, pauses, flags, signals, waiting, calling, session, wake,
                 hpc, mask, counters, curl, link, held, sockets>>

\* Fault: the PUT may go over a connection that is reused, or be sent again.
AnyReplay == TRUE
Replayable == ~upload /\ produced = 0

\* curl repeats a request whose reused connection died without an answer.
HttpReplays ==
  /\ hpc = "act" /\ link # "none" /\ status = "none" /\ Replayable
  /\ stored' = FALSE
  /\ UNCHANGED <<upload, ring, pauses, flags, signals, waiting, calling, session, wake,
                 request, counters, libcurl, file>>

\* The request completes with an answer.
HttpCompletes ==
  /\ hpc = "act" /\ status # "none"
  /\ status = "ok" => produced = Length /\ held = 0
  /\ IF upload THEN PutEnds
     ELSE IF status = "redirect" /\ redirects < MaxRedirects THEN GetFollows
     ELSE GetEnds
  /\ UNCHANGED <<upload, ring, pauses, signals, calling, mask, status, confirmations,
                 libcurl, server>>

\* The connection fails, a callback throws (a 401 after input was consumed, a
\* malformed header), or the connection made no progress for too long.
HttpBreaks ==
  /\ hpc = "act" /\ RequestFails
  /\ UNCHANGED <<upload, ring, pauses, signals, calling, mask, status, counters,
                 libcurl, server>>

\* Fault: a refused upload stays paused.
StaysRefused == FALSE
ReleasesRefused == "send" \in mask /\ status \in {"exists", "redirect", "refused"}

\* The turn ends: an older curl may be left without socket interests by a
\* refusal that met a paused upload; the pauses are restored once connected.
HttpSuspends ==
  /\ hpc = "act"
  /\ LET stuck == "send" \in mask /\ status # "none"
         settles == link = "up"
     IN \E starved \in {FALSE, stuck} :
          LET released == starved /\ ReleasesRefused
          IN /\ mask' = IF released THEN mask \ {"send"} ELSE mask
             /\ curl' = IF released \/ settles THEN mask' ELSE curl
             /\ sockets' = (~starved \/ released)
             /\ link' = IF settles THEN "set" ELSE link
  /\ ~(expired /\ mask' = {})
  /\ hpc' = IF resume_pending THEN "begin" ELSE "wait"
  /\ winner' = IF resume_pending THEN "none" ELSE "armed"
  /\ UNCHANGED <<upload, ring, pauses, flags, signals, waiting, calling, session,
                 resume_pending, status, counters, held, expired, server>>

\* A socket or curl's timer is ready.
HttpEvent ==
  /\ hpc = "wait" /\ winner = "armed" /\ sockets
  /\ winner' = "fired"
  /\ UNCHANGED <<upload, ring, pauses, flags, signals, waiting, calling, session,
                 resume_pending, request, counters, libcurl, server>>

\* The idle deadline passes; there is none while a direction is paused.
IdleTimer ==
  /\ hpc = "wait" /\ winner = "armed" /\ mask = {}
  /\ winner' = "fired" /\ expired' = TRUE
  /\ UNCHANGED <<upload, ring, pauses, flags, signals, waiting, calling, session,
                 resume_pending, request, counters, curl, link, held, sockets, server>>

\* The certificate is not accepted: the user is asked, with the lock held.
HttpDistrusts ==
  /\ hpc = "act" /\ link = "none" /\ confirmations < MaxConfirmations
  /\ hpc' = "certify"
  /\ UNCHANGED <<upload, ring, pauses, flags, signals, waiting, calling, session, wake,
                 mask, status, counters, libcurl, server>>

Repeats == ~upload

\* An accepted read is tried again; an accepted upload stays failed; a refusal
\* stops the whole session.
CertificateAnswered ==
  /\ hpc = "certify"
  /\ \E accepted \in BOOLEAN :
       IF accepted /\ ~Canceled /\ Repeats
         THEN /\ AttemptBegins
              /\ confirmations' = confirmations + 1
              /\ UNCHANGED <<flags, waiting, session>>
         ELSE /\ Finish(TRUE)
              /\ stopped' = (stopped \/ (~accepted /\ ~Canceled))
              /\ UNCHANGED <<creation, closed, spc, resume_pending, confirmations,
                             mask, status, libcurl>>
  /\ UNCHANGED <<upload, ring, pauses, signals, calling, redirects, server>>

RequestRuns == HttpLocks \/ HttpBegins \/ HttpSuspends

Curl == \/ HttpConnects \/ HttpAnswers \/ HttpReplays \/ HttpCompletes \/ HttpBreaks
        \/ HttpDistrusts
        \/ \E n \in CurlSizes : ReadCallback(n) \/ WriteCallback(n)

-----------------------------------------------------------------------------
(* The user's calls.                                                       *)

\* co_await wait_reader_async or wait_writer_async.
Waits(place) == upc' = place /\ waiting' = "waiting"

\* The stream cancels its request unless that is over.
CancelsRequest == IF finished THEN UNCHANGED <<stopping, winner>>
                  ELSE stopping' = TRUE /\ FireWinner

\* A failed write or close, or an open that failed, first lets the request end.
GivesUp(next) == /\ CancelsRequest
                 /\ IF finished THEN upc' = next /\ waiting' = "none"
                    ELSE Waits(IF next = "gone" THEN "leave" ELSE "drain")
                 /\ rest' = 0

Open ==
  /\ Free /\ upc = "new" /\ hpc = "none"
  /\ IF stopped
       THEN /\ upc' = "gone" /\ hpc' = "done" /\ finished' = TRUE /\ failure' = TRUE
            /\ UNCHANGED waiting
       ELSE /\ hpc' = "lock"
            /\ IF upload THEN upc' = "idle" /\ UNCHANGED waiting ELSE Waits("open")
            /\ UNCHANGED <<finished, failure>>
  /\ UNCHANGED <<upload, ring, pauses, closed, creation, signals, rest, told, session,
                 wake, mask, status, counters, libcurl, server>>

Resumes == paused

\* write_all_async from the top of its loop: take what fits, then wait.
WriteLoop(left) ==
  LET size == Least(left, Room)
      failing == parent \/ failure \/ finished
  IN /\ IF failing THEN GivesUp("idle") /\ UNCHANGED <<ring, paused, resume_pending>>
        ELSE /\ bytes' = bytes \o [i \in 1..size |-> produced + i]
             /\ produced' = produced + size
             /\ rest' = left - size
             /\ IF size > 0 /\ Resumes
                  THEN paused' = FALSE /\ Resume
                  ELSE UNCHANGED <<paused, wake>>
             /\ IF size < left THEN Waits("write") ELSE upc' = "idle" /\ waiting' = "none"
             /\ UNCHANGED <<consumed, stopping>>
     /\ UNCHANGED told

WriteBegins(n) ==
  /\ Free /\ upc = "idle" /\ upload /\ ~closed
  /\ IF n > Length - produced
       THEN GivesUp("idle") /\ UNCHANGED <<ring, paused, resume_pending, told>>
       ELSE WriteLoop(n)
  /\ UNCHANGED <<upload, chunk, flags, parent, session, request, counters, libcurl, server>>

WriteContinues ==
  /\ Free /\ upc = "write" /\ waiting \in {"fired", "canceled"}
  /\ IF waiting = "canceled" THEN GivesUp("idle") /\ UNCHANGED <<ring, paused, resume_pending, told>>
     ELSE WriteLoop(rest)
  /\ UNCHANGED <<upload, chunk, flags, parent, session, request, counters, libcurl, server>>

\* Fault: room for exactly the paused chunk is not enough.
MoreThanChunk(size) == ~finished /\ chunk > 0 /\ Room + size > chunk
RoomForChunk(size) == ~finished /\ chunk > 0 /\ Room + size >= chunk

\* Fault: an empty ring is the end of the file, however the request ended.
IgnoresFailure == parent
Unreadable == parent \/ failure

\* read_async from its wait on: hand out what there is, or tell the end of file.
ReadLoop(n) ==
  /\ IF bytes = << >> /\ ~finished /\ ~parent
       THEN Waits("read") /\ rest' = n /\ UNCHANGED <<ring, chunk, wake, told>>
       ELSE /\ upc' = "idle" /\ waiting' = "none" /\ rest' = 0
            /\ IF Unreadable THEN UNCHANGED <<ring, chunk, wake, told>>
               ELSE LET size == Least(n, Len(bytes))
                    IN /\ consumed' = consumed \o SubSeq(bytes, 1, size)
                       /\ bytes' = SubSeq(bytes, size + 1, Len(bytes))
                       /\ told' = (told \/ size = 0)
                       /\ IF RoomForChunk(size) THEN chunk' = 0 /\ Resume
                          ELSE UNCHANGED <<chunk, wake>>
                       /\ UNCHANGED produced
  /\ UNCHANGED <<upload, paused, flags, signals, session, request, counters, libcurl, server>>

ReadBegins(n) == Free /\ upc = "idle" /\ ~upload /\ ~closed /\ ReadLoop(n)

ReadContinues ==
  /\ Free /\ upc = "read"
  /\ \/ waiting = "fired" /\ ReadLoop(rest)
     \/ /\ waiting = "canceled" /\ upc' = "idle" /\ waiting' = "none" /\ rest' = 0
        /\ UNCHANGED <<upload, ring, pauses, flags, signals, told, session, wake, request,
                       counters, libcurl, server>>

\* open_webdav_reader_async waits for the first bytes or the end; an open that
\* fails closes the reader before it throws.
OpenContinues ==
  /\ Free /\ upc = "open" /\ waiting \in {"fired", "canceled"}
  /\ IF waiting = "canceled" \/ parent \/ (failure /\ finished)
       THEN /\ closed' = TRUE /\ GivesUp("gone")
       ELSE /\ IF bytes = << >> /\ ~finished THEN Waits("open")
               ELSE upc' = "idle" /\ waiting' = "none"
            /\ UNCHANGED <<closed, rest, stopping, winner>>
  /\ UNCHANGED <<upload, ring, pauses, finished, failure, creation, parent, told, session,
                 resume_pending, request, counters, libcurl, server>>

MayClose == ~parent /\ produced = Length

\* close_async: a writer waits for the final answer, a reader cancels its request.
CloseBegins ==
  /\ Free /\ upc = "idle" /\ ~closed /\ closed' = TRUE
  /\ IF upload /\ MayClose
       THEN /\ IF finished THEN upc' = "idle" /\ UNCHANGED waiting ELSE Waits("close")
            /\ told' = (finished /\ ~failure)
            /\ UNCHANGED <<rest, stopping, winner>>
       ELSE GivesUp("idle") /\ UNCHANGED told
  /\ UNCHANGED <<upload, ring, pauses, finished, failure, creation, parent, session,
                 resume_pending, request, counters, libcurl, server>>

CloseContinues ==
  /\ Free /\ upc = "close" /\ waiting \in {"fired", "canceled"}
  /\ IF waiting = "canceled" \/ (finished /\ (parent \/ failure))
       THEN GivesUp("idle") /\ UNCHANGED told
       ELSE /\ IF finished THEN upc' = "idle" /\ waiting' = "none" ELSE Waits("close")
            /\ told' = finished
            /\ UNCHANGED <<rest, stopping, winner>>
  /\ UNCHANGED <<upload, ring, pauses, flags, parent, session, resume_pending, request,
                 counters, libcurl, server>>

\* The wait for the end of the request, which nothing cancels.
DrainContinues ==
  /\ Free /\ upc \in {"drain", "leave"} /\ waiting = "fired"
  /\ IF ~finished THEN Waits(upc)
     ELSE upc' = (IF upc = "drain" THEN "idle" ELSE "gone") /\ waiting' = "none"
  /\ UNCHANGED <<upload, ring, pauses, flags, signals, rest, told, session, wake, request,
                 counters, libcurl, server>>

\* ~WebdavReader, ~WebdavWriter: nobody waits, the request retains the state.
Destroy ==
  /\ Free /\ upc = "idle" /\ upc' = "gone" /\ CancelsRequest
  /\ UNCHANGED <<upload, ring, pauses, flags, parent, waiting, rest, told, session,
                 resume_pending, request, counters, libcurl, server>>

\* The batch is cancelled; the wait behind a failure is not cancelled with it.
RequestCancel ==
  /\ Free /\ ~parent /\ upc \notin {"new", "gone"} /\ parent' = TRUE
  /\ FireWinner
  /\ waiting' = IF waiting = "waiting" /\ upc \in {"open", "read", "write", "close"}
                THEN "canceled" ELSE waiting
  /\ UNCHANGED <<upload, ring, pauses, flags, stopping, calling, session, resume_pending,
                 request, counters, libcurl, server>>

UserContinues == \/ WriteContinues \/ ReadContinues \/ OpenContinues
                 \/ CloseContinues \/ DrainContinues

UserChoice == \/ Open \/ CloseBegins \/ Destroy \/ RequestCancel
              \/ \E n \in CallSizes : WriteBegins(n) \/ ReadBegins(n)

-----------------------------------------------------------------------------
(* The session: another request, and its stop.                               *)

OtherBegins ==
  /\ Free /\ lock = "free" /\ ~stopped /\ lock' = "other"
  /\ UNCHANGED <<upload, ring, pauses, flags, signals, waiting, calling, stopped, spc, wake,
                 request, counters, libcurl, server>>

\* It may leave libcurl's pause bits behind.
OtherEnds ==
  /\ Free /\ lock = "other" /\ lock' = "free"
  /\ curl' \in SUBSET Directions
  /\ UNCHANGED <<upload, ring, pauses, flags, signals, waiting, calling, stopped, spc, wake,
                 request, counters, link, held, sockets, expired, server>>

\* stop_curl_http_session_async cancels every request and takes the lock.
StopBegins ==
  /\ Free /\ spc = "none" /\ spc' = "lock" /\ stopped' = TRUE /\ FireWinner
  /\ UNCHANGED <<upload, ring, pauses, flags, signals, waiting, calling, lock,
                 resume_pending, request, counters, libcurl, server>>

Lockable == lock = "free"

StopLocks ==
  /\ Free /\ spc = "lock" /\ Lockable /\ lock' = "stop" /\ spc' = "done"
  /\ UNCHANGED <<upload, ring, pauses, flags, signals, waiting, calling, stopped, wake,
                 request, counters, libcurl, server>>

\* The server stores the complete body; another user may have been first.
ServerStores ==
  /\ upload /\ hpc \in {"begin", "act", "wait"} /\ WholeBody /\ file = "absent"
  /\ file' = "ours" /\ stored' = TRUE
  /\ UNCHANGED <<upload, ring, pauses, flags, signals, waiting, calling, session, wake,
                 request, counters, libcurl>>

ForeignStores ==
  /\ upload /\ file = "absent" /\ file' = "foreign"
  /\ UNCHANGED <<upload, ring, pauses, flags, signals, waiting, calling, session, wake,
                 request, counters, libcurl, stored>>

Finished == /\ upc = "gone" /\ hpc \in {"none", "done"} /\ spc = "done"
            /\ UNCHANGED vars

Init == /\ upload \in BOOLEAN
        /\ bytes = << >> /\ produced = 0 /\ consumed = << >>
        /\ paused = FALSE /\ chunk = 0
        /\ finished = FALSE /\ closed = FALSE /\ failure = FALSE /\ creation = "unknown"
        /\ stopping = FALSE /\ parent = FALSE /\ waiting = "none"
        /\ upc = "new" /\ rest = 0 /\ told = FALSE
        /\ lock = "free" /\ stopped = FALSE /\ spc = "none"
        /\ resume_pending = FALSE /\ winner = "none"
        /\ hpc = "none" /\ mask = {} /\ status = "none" /\ redirects = 0 /\ confirmations = 0
        /\ curl = {} /\ link = "none" /\ held = 0 /\ sockets = TRUE /\ expired = FALSE
        /\ file = "absent" /\ stored = FALSE

Next == \/ RequestRuns \/ Curl \/ HttpEvent \/ IdleTimer \/ CertificateAnswered
        \/ UserChoice \/ UserContinues
        \/ OtherBegins \/ OtherEnds \/ StopBegins \/ StopLocks
        \/ ServerStores \/ ForeignStores \/ Finished

Spec == Init /\ [][Next]_vars

(***************************************************************************)
(* The dispatcher is a queue: what was triggered runs.  Time passes: a request  *)
(* that may expire does so however often its sockets wake it (strong).  The     *)
(* user answers the question about the certificate.  The network and the        *)
(* user's calls owe nothing.                                                 *)
(***************************************************************************)
Fairness ==
  /\ WF_vars(RequestRuns) /\ WF_vars(Curl /\ expired /\ mask = {}) /\ SF_vars(IdleTimer)
  /\ SF_vars(HttpLocks) /\ SF_vars(UserContinues) /\ SF_vars(StopLocks)
  /\ WF_vars(CertificateAnswered) /\ WF_vars(OtherEnds)

FairSpec == Spec /\ Fairness

-----------------------------------------------------------------------------
(* Properties.                                                             *)

\* What the writer reports of the creation is true of the server, whatever is
\* lost: "created" of a file this PUT created, "not_created" only when nothing
\* of ours is there (webdav-stream.cpp:238-244).  The engine deletes by it.
CreationProven ==
  /\ creation = "created" => file = "ours"
  /\ creation = "not_created" => file # "ours"

\* A writer whose close returned has its whole body at the server, and a reader
\* that was told the end of file has had all of it.
ToldIsWhole == told => /\ Len(consumed) = Length
                       /\ upload => file = "ours"

\* What the user is told is true.
ToldTrue == TypeOK /\ CreationProven /\ ToldIsWhole

\* A user who waits although the request is over, or has what it waits for, has
\* its wake on the way (webdav-stream.cpp:209-212).
NoLostWake ==
  waiting = "waiting" =>
    /\ ~finished
    /\ upc \in {"read", "open"} => bytes = << >>
    /\ upc = "write" => Room = 0

\* A request that is paused although the ring could serve it has a resumption
\* pending, whatever pause bits an earlier request left in libcurl: the writer that
\* fills and the reader that empties the ring look at the pause in the same turn (webdav-stream.cpp:146-150, 280-283).
NoLostResume ==
  hpc = "wait" /\ link = "set" /\ ~resume_pending =>
    /\ "send" \in curl => bytes = << >>
    /\ "recv" \in curl => held > Room

\* The idle deadline is off only while the user is slow (curl-http-session.cpp:521).
PausedByUser ==
  hpc = "wait" /\ mask # {} => resume_pending \/ bytes = << >> \/ held > Room

\* Neither the user nor libcurl sleeps on what has happened, and none but a slow user
\* keeps the idle deadline off.
NoneSleeps == NoLostWake /\ NoLostResume /\ PausedByUser

\* What the user of the stream is told is true, and nobody sleeps on what has happened.
StreamSound == ToldTrue /\ NoneSleeps

\* One request at a time uses the easy handle, and none when it is freed.
OneRequest == /\ hpc \in {"begin", "act", "wait", "certify"} => lock = "request"
              /\ spc = "done" => lock = "stop"

\* The channel promised by RemoteFileReader and RemoteFileWriter.
Channel == INSTANCE ByteChannel WITH
  sent <- produced,
  received <- consumed,
  outcome <- IF told THEN "complete"
             ELSE IF failure \/ stopping \/ parent \/ upc = "gone" THEN "broken" ELSE "open"

IsChannel == Channel!Spec

\* What must end although the server says nothing more: a call that has begun to give up
\* or to close (webdav-stream.cpp:291-294, 312-315), a stop that waits for the session, and an
\* upload that was refused, although its user writes no more and libcurl watches no socket
\* (curl-http-session.cpp:496-504).
Unsettled ==
  \/ upc \in {"drain", "leave", "close"} \/ spc = "lock"
  \/ upload /\ status = "refused" /\ hpc = "wait" /\ ~sockets /\ ~finished

\* Whatever is given up, stopped or refused ends, one request after the other.
RequestsEnd == (Unsettled ~> ~Unsettled) /\ []OneRequest
=============================================================================
