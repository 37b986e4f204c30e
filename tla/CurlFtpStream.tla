--------------------------- MODULE CurlFtpStream ---------------------------
(***************************************************************************)
(* One FTP file transfer: a CurlStream (ftp-client.cpp) between the caller's *)
(* dispatcher and the curl worker thread (curl-ftp-session.cpp).             *)
(*                                                                         *)
(* The dispatcher runs one coroutine at a time, from one co_await to the     *)
(* next; "disp" names the one that runs.  The worker thread interleaves with   *)
(* it at every mutex, condition variable and atomic.  The coroutines are the   *)
(* user's calls (open, read, write, close, destroy), run_stream_async, the     *)
(* client's stop_async, and one other operation of the client ("next": a       *)
(* listing, a rename...).                                                    *)
(*                                                                         *)
(* A byte is named by its position in the file.  CurlWorker::revision is only  *)
(* ever compared with the worker's "observed": moved is revision # observed     *)
(* (2^64 wakes within one wait are not reached).                             *)
(***************************************************************************)
EXTENDS Naturals, Sequences

CONSTANTS Capacity,    \* size of the ring buffer (256 KiB in the code)
          Length,      \* bytes in the file that is transferred
          CurlSizes,   \* sizes curl passes to its read and write callbacks
          CallSizes    \* sizes the user passes to read and write

ASSUME CapacityAssumption == Capacity \in Nat \ {0}
ASSUME LengthAssumption == Length \in Nat
ASSUME CurlSizesAssumption == CurlSizes \subseteq Nat \ {0}
ASSUME CallSizesAssumption == CallSizes \subseteq Nat \ {0}

Ops == {"stream", "next"}
Failures == {"refused", "accepted", "error", "canceled"}

VARIABLES
  buffer, begin, count,              \* the ring of CurlStream, under its mutex
  ready, input_ended, finished, abandoned, failure,      \* and its flags
  waiter,                            \* the one waiter of "changed"
  acknowledged, failed, stopping, operations,      \* used by the dispatcher only
  pending, worker_stopping, cancelled, completion, \* CurlWorker, shared
  wpc, moved,                        \* where the worker is, and what wakes it
  operation, chunk, answer, curl_ended, curl_result,     \* the worker's own
  upc, call, rest, requested,        \* the user's call
  disp, apc, spc, upload,            \* whose turn, abandon(), stop_async()
  sent, delivered, succeeded         \* bytes put in, bytes taken out, success told

ring == <<buffer, begin, count, sent, delivered>>
flags == <<ready, input_ended, finished, abandoned, failure>>
client == <<acknowledged, failed, stopping, operations, succeeded>>
session == <<pending, worker_stopping, cancelled, completion>>
sleeper == <<wpc, moved>>
thread == <<operation, chunk, answer, curl_ended, curl_result>>
calling == <<upc, call, rest, requested>>
turn == <<disp, apc, spc, upload>>
vars == <<ring, flags, waiter, client, session, sleeper, thread, calling, turn>>

Slots == 0..(Capacity - 1)
Least(a, b) == IF a < b THEN a ELSE b

TypeOK ==
  /\ buffer \in [Slots -> 0..Length] /\ begin \in Slots /\ count \in 0..Capacity
  /\ ready \in BOOLEAN /\ input_ended \in BOOLEAN /\ finished \in BOOLEAN
  /\ abandoned \in BOOLEAN /\ failure \in BOOLEAN
  /\ waiter \in {"none", "waiting", "fired"}
  /\ acknowledged \in BOOLEAN /\ failed \in BOOLEAN /\ stopping \in BOOLEAN
  /\ operations \in {"free"} \cup Ops
  /\ pending \in Seq(Ops) /\ worker_stopping \in BOOLEAN /\ cancelled \subseteq Ops
  /\ completion \in [Ops -> {"none", "ok"} \cup Failures]
  /\ wpc \in {"idle", "curl", "observe", "check", "call", "signal", "sleep",
              "asleep", "end", "exited"}
  /\ moved \in BOOLEAN
  /\ operation \in {"none"} \cup Ops /\ chunk \in {0} \cup CurlSizes
  /\ answer \in {"bytes", "zero", "pause"} /\ curl_ended \in BOOLEAN
  /\ curl_result \in {"ok"} \cup Failures
  /\ upc \in {"new", "check", "end", "resume", "await", "abandon", "idle", "gone"}
  /\ call \in {"none", "open", "read", "write", "closeWriter", "closeReader", "drop"}
  /\ rest \in {0} \cup UNION {1..n : n \in CallSizes} /\ requested \in BOOLEAN
  /\ disp \in {"idle", "user", "stop"}
  /\ apc \in {"none", "mark", "cancel", "wake", "settle"}
  /\ spc \in {"none", "abandon", "confirm", "request", "wake", "join", "done"}
  /\ upload \in BOOLEAN
  /\ sent \in 0..Length /\ delivered \in Seq(0..Length) /\ succeeded \in BOOLEAN

-----------------------------------------------------------------------------
(* The ring: append and take copy a range in the part before the end of the    *)
(* array and the part that wraps.                                            *)

Wrapped(p) == p % Capacity

\* Fault: the last slot of the array is left out.
ShortPart(n, from) == Least(n, Capacity - from - 1)
FirstPart(n, from) == Least(n, Capacity - from)

RingAppend(n) ==
  LET end == Wrapped(begin + count)
      first == FirstPart(n, end)
  IN /\ buffer' = [p \in Slots |->
                     IF end <= p /\ p < end + first THEN sent + 1 + (p - end)
                     ELSE IF p < n - first THEN sent + 1 + first + p
                     ELSE buffer[p]]
     /\ count' = count + n
     /\ sent' = sent + n
     /\ UNCHANGED <<begin, delivered>>

RingTake(n) ==
  LET size == Least(n, count)
      first == FirstPart(size, begin)
  IN /\ delivered' = delivered \o
          [i \in 1..size |-> IF i <= first THEN buffer[begin + (i - 1)]
                             ELSE buffer[(i - 1) - first]]
     /\ begin' = Wrapped(begin + size)
     /\ count' = count - size
     /\ UNCHANGED <<buffer, sent>>

\* changed.trigger(): resolves a registered waiter, is lost without one.
Trigger == waiter' = IF waiter = "waiting" THEN "fired" ELSE waiter

\* Fault: notify_all without a new revision.
WakeOnly == /\ wpc' = IF wpc = "asleep" THEN "sleep" ELSE wpc
            /\ UNCHANGED moved

\* CurlWorker::wake(): ++revision, then notify_all (the wait predicate runs again).
Wake == /\ wpc' = IF wpc = "asleep" THEN "sleep" ELSE wpc
        /\ moved' = TRUE

\* Fault: only the stop flag interrupts a transfer.
InterruptedByStop == worker_stopping
Interrupted == worker_stopping \/ operation \in cancelled

\* CurlWorker::submit.
Submit(op) ==
  IF worker_stopping
  THEN completion' = [completion EXCEPT ![op] = "canceled"] /\ UNCHANGED pending
  ELSE pending' = Append(pending, op) /\ UNCHANGED completion

-----------------------------------------------------------------------------
(* The worker thread: CurlWorker::run, perform and exchange_bytes.           *)

others == <<client, worker_stopping, cancelled, calling, turn>>
quiet == <<ring, flags, waiter, pending, completion, others>>

Fails == wpc' = "end" /\ curl_result' = "error"
Proceeds(pc) == wpc' = pc /\ UNCHANGED curl_result

\* run takes the next operation; perform checks its cancellation first.
WorkerBegin ==
  /\ wpc = "idle" /\ ~worker_stopping /\ pending # << >>
  /\ operation' = Head(pending)
  /\ pending' = Tail(pending)
  /\ IF Head(pending) \in cancelled THEN Fails ELSE Proceeds("curl")
  /\ UNCHANGED <<ring, flags, waiter, completion, moved, chunk, answer, curl_ended, others>>

\* run ends: what is still pending is cancelled.
WorkerExit ==
  /\ wpc = "idle" /\ worker_stopping
  /\ wpc' = "exited"
  /\ completion' = [op \in Ops |-> IF \E i \in 1..Len(pending) : pending[i] = op
                                   THEN "canceled" ELSE completion[op]]
  /\ pending' = << >>
  /\ UNCHANGED <<ring, flags, waiter, moved, thread, others>>

\* libcurl calls the write callback (RETR) or the read callback (STOR).
CurlCallback ==
  /\ wpc = "curl" /\ operation = "stream"
  /\ chunk' \in {n \in CurlSizes : upload \/ n <= Length - sent}
  /\ upload => ~curl_ended
  /\ wpc' = "observe"
  /\ UNCHANGED <<quiet, moved, operation, answer, curl_ended, curl_result>>

\* libcurl returns.  A successful transfer has delivered every byte (RETR) or
\* has been told that the input ended (STOR); a failure can come at any time.
CurlReturn ==
  /\ wpc = "curl"
  /\ \/ curl_result' \in Failures \ {"canceled"}
     \/ /\ curl_result' = "ok"
        /\ operation = "stream" => IF upload THEN curl_ended ELSE sent = Length
  /\ wpc' = "end"
  /\ UNCHANGED <<quiet, moved, operation, chunk, answer, curl_ended>>

\* progress() returns nonzero, or the sockets that were shut down fail.
CurlAbort ==
  /\ wpc = "curl" /\ Interrupted
  /\ Fails
  /\ UNCHANGED <<quiet, moved, operation, chunk, answer, curl_ended>>

\* exchange_bytes reads the revision before it asks the consumer.
WorkerObserve ==
  /\ wpc = "observe"
  /\ moved' = FALSE
  /\ wpc' = "check"
  /\ UNCHANGED <<quiet, thread>>

WorkerCheck ==
  /\ wpc = "check"
  /\ IF Interrupted THEN Fails ELSE Proceeds("call")
  /\ UNCHANGED <<quiet, moved, operation, chunk, answer, curl_ended>>

\* CurlStream::receive: all of the chunk or nothing; a pause signals nobody.
WorkerReceive ==
  /\ wpc = "call" /\ ~upload
  /\ \/ /\ abandoned \/ chunk > Capacity
        /\ Fails
        /\ UNCHANGED <<ring, ready, answer>>
     \/ /\ ~abandoned /\ chunk <= Capacity /\ chunk > Capacity - count
        /\ Proceeds("sleep")
        /\ UNCHANGED <<ring, ready, answer>>
     \/ /\ ~abandoned /\ chunk <= Capacity - count
        /\ RingAppend(chunk)
        /\ ready' = TRUE /\ answer' = "bytes"
        /\ Proceeds("signal")
  /\ UNCHANGED <<input_ended, finished, abandoned, failure, waiter, pending, completion,
                 moved, operation, chunk, curl_ended, others>>

\* CurlStream::send: some bytes, the end of the input, or a pause.
WorkerSend ==
  /\ wpc = "call" /\ upload
  /\ \/ abandoned /\ Fails /\ UNCHANGED <<ring, ready, answer>>
     \/ /\ ~abandoned
        /\ ready' = TRUE
        /\ \/ count > 0 /\ RingTake(chunk) /\ answer' = "bytes"
           \/ count = 0 /\ input_ended /\ answer' = "zero" /\ UNCHANGED ring
           \/ count = 0 /\ ~input_ended /\ answer' = "pause" /\ UNCHANGED ring
        /\ Proceeds("signal")
  /\ UNCHANGED <<input_ended, finished, abandoned, failure, waiter, pending, completion,
                 moved, operation, chunk, curl_ended, others>>

Announces == TRUE

\* The callback triggers "changed" after it released the stream's mutex.
WorkerSignal ==
  /\ wpc = "signal"
  /\ IF Announces THEN Trigger ELSE UNCHANGED waiter
  /\ wpc' = IF answer = "pause" THEN "sleep" ELSE "curl"
  /\ curl_ended' = (curl_ended \/ answer = "zero")
  /\ UNCHANGED <<ring, flags, pending, completion, moved, operation, chunk, answer,
                 curl_result, others>>

\* changed.wait(lock, predicate) of exchange_bytes, under the worker's mutex.
WorkerSleep ==
  /\ wpc = "sleep"
  /\ wpc' = IF moved \/ Interrupted THEN "observe" ELSE "asleep"
  /\ UNCHANGED <<quiet, moved, thread>>

\* The end of perform: the operation is reset and its promise settled.
WorkerEnd ==
  /\ wpc = "end"
  /\ completion' = [completion EXCEPT
                      ![operation] = IF Interrupted THEN "canceled" ELSE curl_result]
  /\ operation' = "none"
  /\ wpc' = "idle"
  /\ UNCHANGED <<ring, flags, waiter, pending, moved, chunk, answer, curl_ended,
                 curl_result, others>>

-----------------------------------------------------------------------------
(* The user's coroutine: open_stream_async, then reads or writes, then close   *)
(* and the destructor.  The mutex "calls" serialises the calls of one stream.  *)

worker == <<session, sleeper, thread>>

UserTurn(pc) == disp = "user" /\ upc = pc

NotFailed == ~failure
RequireAvailable == ~failure /\ ~abandoned

\* What every turn of a call checks first.
MayGoOn == ~requested /\ RequireAvailable

WriterClosed == input_ended \/ acknowledged

\* What a call looks for under the stream's mutex.
Satisfied ==
  CASE call = "open" -> ready \/ finished
    [] call = "read" -> count > 0 \/ finished
    [] call = "write" -> rest = 0 \/ count < Capacity
    [] OTHER -> finished

\* The call returns to its caller and the dispatcher runs something else.
Return == /\ disp' = "idle" /\ upc' = "idle" /\ call' = "none"
          /\ rest' = 0 /\ requested' = FALSE

\* acknowledge(): once, by the dispatcher; releases the operation lock.
Acknowledge == /\ acknowledged' = TRUE
               /\ operations' = IF acknowledged THEN operations ELSE "free"

UserAbandons == upc' = "abandon" /\ apc' = "mark"

Open ==
  /\ disp = "idle" /\ upc = "new" /\ operations = "free"
  /\ IF stopping \/ failed
     THEN upc' = "gone" /\ UNCHANGED <<operations, pending, completion, call, disp>>
     ELSE /\ operations' = "stream"
          /\ Submit("stream")
          /\ upc' = "check" /\ call' = "open" /\ disp' = "user"
  /\ UNCHANGED <<ring, flags, waiter, acknowledged, failed, stopping, succeeded,
                 worker_stopping, cancelled, sleeper, thread, rest, requested,
                 apc, spc, upload>>

\* read_async, write_all_async and close_async of the two adapters.
BeginCall ==
  /\ disp = "idle" /\ upc = "idle" /\ disp' = "user"
  /\ \/ /\ call' = IF upload THEN "write" ELSE "read"
        /\ rest' \in {n \in CallSizes : upload => n <= Length - sent}
        /\ upc' = "check"
     \/ /\ call' = IF upload THEN "closeWriter" ELSE "closeReader"
        /\ upc' = "end" /\ UNCHANGED rest
  /\ UNCHANGED <<ring, flags, waiter, client, worker, requested, apc, spc, upload>>

\* ~CurlFileReader, ~CurlFileWriter.
Destroy ==
  /\ disp = "idle" /\ upc = "idle" /\ disp' = "user"
  /\ call' = "drop" /\ UserAbandons
  /\ UNCHANGED <<ring, flags, waiter, client, worker, rest, requested, spc, upload>>

\* The cancellation given to a call is requested while it waits;
\* close_reader_async waits without one.
RequestCancel ==
  /\ disp = "idle" /\ upc = "await" /\ call # "closeReader" /\ ~requested
  /\ requested' = TRUE
  /\ UNCHANGED <<ring, flags, waiter, client, worker, upc, call, rest, turn>>

\* The first section of close_writer_async and of close_reader_async.
BeginClose ==
  /\ UserTurn("end")
  /\ IF call = "closeWriter" /\ RequireAvailable
     THEN /\ input_ended' = TRUE /\ upc' = "resume"
          /\ UNCHANGED <<call, rest, requested, disp, apc>>
     ELSE /\ UNCHANGED input_ended
          /\ IF call = "closeReader" /\ acknowledged
             THEN Return /\ UNCHANGED apc
             ELSE UserAbandons /\ UNCHANGED <<call, rest, requested, disp>>
  /\ UNCHANGED <<ring, ready, finished, abandoned, failure, waiter, client, worker,
                 spc, upload>>

\* An exception leaves the call: it abandons the stream first.
CallThrows ==
  /\ UserTurn("check") /\ call # "closeReader"
  /\ ~MayGoOn \/ (call = "write" /\ WriterClosed)
  /\ UserAbandons
  /\ UNCHANGED <<ring, flags, waiter, client, worker, call, rest, requested,
                 disp, spc, upload>>

\* Not there yet: the waiter is registered under the same lock.
CallWaits ==
  /\ UserTurn("check") /\ ~Satisfied
  /\ call # "closeReader" => MayGoOn
  /\ call = "write" => ~WriterClosed
  /\ waiter' = "waiting" /\ upc' = "await" /\ disp' = "idle"
  /\ UNCHANGED <<ring, flags, client, worker, call, rest, requested, apc, spc, upload>>

\* The waiter was triggered, or the cancellation of the call rejected it.
CallContinues ==
  /\ disp = "idle" /\ upc = "await" /\ (waiter = "fired" \/ requested)
  /\ waiter' = "none" /\ upc' = "check" /\ disp' = "user"
  /\ UNCHANGED <<ring, flags, client, worker, call, rest, requested, apc, spc, upload>>

\* open_stream_async, or write_stream_async with nothing left to write.
CallReturns ==
  /\ UserTurn("check") /\ MayGoOn
  /\ \/ call = "open" /\ Satisfied
     \/ call = "write" /\ ~WriterClosed /\ rest = 0
  /\ Return
  /\ UNCHANGED <<ring, flags, waiter, client, worker, apc, spc, upload>>

ReadSome ==
  /\ UserTurn("check") /\ call = "read" /\ MayGoOn /\ count > 0
  /\ RingTake(rest)
  /\ upc' = "resume"
  /\ UNCHANGED <<flags, waiter, client, worker, call, rest, requested, turn>>

WriteSome ==
  /\ UserTurn("check") /\ call = "write" /\ MayGoOn /\ ~WriterClosed
  /\ rest > 0 /\ count < Capacity
  /\ LET n == Least(rest, Capacity - count)
     IN RingAppend(n) /\ rest' = rest - n
  /\ upc' = "resume"
  /\ UNCHANGED <<flags, waiter, client, worker, call, requested, turn>>

\* session->resume() after the stream's mutex was released.
Resume ==
  /\ UserTurn("resume")
  /\ Wake
  /\ IF call = "read" THEN Return
     ELSE upc' = "check" /\ UNCHANGED <<disp, call, rest, requested>>
  /\ UNCHANGED <<ring, flags, waiter, client, session, thread, apc, spc, upload>>

\* End of file for a reader, the confirmed end for a writer: the operation is over.
CallSucceeds ==
  /\ UserTurn("check") /\ MayGoOn /\ finished
  /\ call = "closeWriter" \/ (call = "read" /\ count = 0)
  /\ succeeded' = TRUE
  /\ Acknowledge /\ Return
  /\ UNCHANGED <<ring, flags, waiter, failed, stopping, worker, apc, spc, upload>>

\* close_reader_async waits only for curl to have settled the transfer.
CloseReaderReturnsToUser ==
  /\ UserTurn("check") /\ call = "closeReader" /\ finished
  /\ Acknowledge /\ Return
  /\ UNCHANGED <<ring, flags, waiter, failed, stopping, succeeded, worker, apc, spc, upload>>

-----------------------------------------------------------------------------
(* CurlStream::abandon, called by the user's coroutine or by stop_async.      *)

Done == finished

\* Control goes back to whoever called abandon().
AfterAbandon ==
  /\ apc' = "none"
  /\ \/ disp = "stop" /\ spc' = "confirm" /\ UNCHANGED <<disp, calling>>
     \/ /\ disp = "user" /\ UNCHANGED spc
        /\ \/ call = "closeReader" /\ upc' = "check" /\ UNCHANGED <<disp, call, rest, requested>>
           \/ /\ call \in {"open", "drop"} /\ upc' = "gone" /\ call' = "none"
              /\ disp' = "idle" /\ requested' = FALSE /\ UNCHANGED rest
           \/ call \in {"read", "write", "closeWriter"} /\ Return

abandonKeeps == <<ring, ready, input_ended, finished, failure, stopping, succeeded, pending,
                  worker_stopping, completion, thread, upload>>

AbandonMark ==
  /\ apc = "mark"
  /\ IF acknowledged
     THEN AfterAbandon /\ UNCHANGED <<abandoned, failed>>
     ELSE /\ abandoned' = TRUE /\ failed' = TRUE /\ apc' = "cancel"
          /\ UNCHANGED <<disp, calling, spc>>
  /\ UNCHANGED <<abandonKeeps, waiter, acknowledged, operations, cancelled, sleeper>>

AbandonCancel ==
  /\ apc = "cancel"
  /\ cancelled' = cancelled \cup {"stream"}
  /\ apc' = "wake"
  /\ UNCHANGED <<abandonKeeps, abandoned, waiter, acknowledged, failed, operations,
                 sleeper, disp, calling, spc>>

\* The cancellation callback and resume() both wake the worker.
AbandonWake ==
  /\ apc = "wake"
  /\ Wake
  /\ apc' = "settle"
  /\ UNCHANGED <<abandonKeeps, abandoned, waiter, acknowledged, failed, operations,
                 cancelled, disp, calling, spc>>

AbandonSettle ==
  /\ apc = "settle"
  /\ IF Done THEN Acknowledge ELSE UNCHANGED <<acknowledged, operations>>
  /\ Trigger
  /\ AfterAbandon
  /\ UNCHANGED <<abandonKeeps, abandoned, failed, cancelled, sleeper>>

-----------------------------------------------------------------------------
(* The other coroutines of the dispatcher.                                  *)

\* Fault: a refusal after the transfer started is taken for an ordinary one.
FailsOnError(result) == result \in {"error", "canceled"}
FailsSession(result) == result \in {"error", "canceled"} \/ (result = "refused" /\ ready)

\* run_stream_async after perform_async: the transfer is over.
RunFinishes ==
  /\ disp = "idle" /\ ~finished /\ completion["stream"] # "none"
  /\ finished' = TRUE
  /\ failure' = (completion["stream"] # "ok")
  /\ failed' = (failed \/ FailsSession(completion["stream"]))
  /\ IF failure' \/ abandoned THEN Acknowledge
     ELSE UNCHANGED <<acknowledged, operations>>
  /\ Trigger
  /\ UNCHANGED <<ring, ready, input_ended, abandoned, stopping, succeeded, worker,
                 calling, turn>>

\* One other operation of the client (load_directory_async, rename_async, ...).
NextBegins ==
  /\ disp = "idle" /\ operations = "free" /\ completion["next"] = "none"
  /\ ~stopping /\ ~failed
  /\ operations' = "next"
  /\ Submit("next")
  /\ UNCHANGED <<ring, flags, waiter, acknowledged, failed, stopping, succeeded,
                 worker_stopping, cancelled, sleeper, thread, calling, turn>>

NextFinishes ==
  /\ disp = "idle" /\ operations = "next" /\ completion["next"] # "none"
  /\ operations' = "free"
  /\ failed' = (failed \/ completion["next"] \in {"error", "canceled"})
  /\ UNCHANGED <<ring, flags, waiter, acknowledged, stopping, succeeded, worker,
                 calling, turn>>

ActiveStream == operations = "stream"

stopKeeps == <<ring, flags, waiter, acknowledged, failed, operations, succeeded, pending,
               completion, thread, calling, upload>>

\* stop_async abandons the active stream; an acknowledged one is not active.
StopBegins ==
  /\ disp = "idle" /\ spc = "none"
  /\ stopping' = TRUE /\ disp' = "stop"
  /\ IF ActiveStream THEN spc' = "abandon" /\ apc' = "mark"
                     ELSE spc' = "confirm" /\ UNCHANGED apc
  /\ UNCHANGED <<stopKeeps, worker_stopping, cancelled, sleeper>>

\* confirmation_stop.cancel(): every request of the session is cancelled.
StopConfirmation ==
  /\ disp = "stop" /\ spc = "confirm"
  /\ cancelled' = Ops
  /\ Wake
  /\ spc' = "request"
  /\ UNCHANGED <<stopKeeps, stopping, worker_stopping, disp, apc>>

\* request_stop(): the flag first, then wake().
StopRequest ==
  /\ disp = "stop" /\ spc = "request"
  /\ worker_stopping' = TRUE
  /\ spc' = "wake"
  /\ UNCHANGED <<stopKeeps, stopping, cancelled, sleeper, disp, apc>>

StopWake ==
  /\ disp = "stop" /\ spc = "wake"
  /\ Wake
  /\ spc' = "join" /\ disp' = "idle"
  /\ UNCHANGED <<stopKeeps, stopping, worker_stopping, cancelled, apc>>

\* The worker has ended and the operation lock could be taken.
StopReturns ==
  /\ disp = "idle" /\ spc = "join" /\ wpc = "exited" /\ operations = "free"
  /\ spc' = "done"
  /\ UNCHANGED <<stopKeeps, stopping, worker_stopping, cancelled, sleeper, disp, apc>>

-----------------------------------------------------------------------------
Init ==
  /\ buffer = [p \in Slots |-> 0] /\ begin = 0 /\ count = 0
  /\ ready = FALSE /\ input_ended = FALSE /\ finished = FALSE
  /\ abandoned = FALSE /\ failure = FALSE /\ waiter = "none"
  /\ acknowledged = FALSE /\ failed = FALSE /\ stopping = FALSE
  /\ operations = "free"
  /\ pending = << >> /\ moved = FALSE /\ worker_stopping = FALSE
  /\ cancelled = {} /\ completion = [op \in Ops |-> "none"]
  /\ wpc = "idle" /\ operation = "none" /\ chunk = 0 /\ answer = "bytes"
  /\ curl_ended = FALSE /\ curl_result = "ok"
  /\ disp = "idle" /\ upload \in BOOLEAN
  /\ upc = "new" /\ call = "none" /\ rest = 0 /\ requested = FALSE
  /\ succeeded = FALSE
  /\ apc = "none" /\ spc = "none"
  /\ sent = 0 /\ delivered = << >>

Network == CurlCallback \/ CurlReturn

WorkerStep == \/ WorkerBegin \/ WorkerExit \/ CurlAbort \/ WorkerObserve
              \/ WorkerCheck \/ WorkerReceive \/ WorkerSend \/ WorkerSignal
              \/ WorkerSleep \/ WorkerEnd

\* What the user or the window decides to do.
UserChoice == Open \/ BeginCall \/ Destroy \/ RequestCancel \/ NextBegins \/ StopBegins

\* A coroutine that holds the dispatcher goes on.
UserRuns == \/ BeginClose \/ CallThrows \/ CallWaits \/ CallReturns \/ ReadSome
            \/ WriteSome \/ Resume \/ CallSucceeds \/ CloseReaderReturnsToUser
AbandonRuns == AbandonMark \/ AbandonCancel \/ AbandonWake \/ AbandonSettle
StopRuns == StopConfirmation \/ StopRequest \/ StopWake

\* A coroutine that awaited something gets its turn.
Resumed == CallContinues \/ RunFinishes \/ NextFinishes \/ StopReturns

\* Everything has ended: no call is left to make and no thread is left to run.
Finished == /\ upc = "gone" /\ spc = "done"
            /\ UNCHANGED vars

Next == \/ WorkerStep \/ Network \/ UserChoice \/ UserRuns \/ AbandonRuns
        \/ StopRuns \/ Resumed \/ Finished

Spec == Init /\ [][Next]_vars

(***************************************************************************)
(* The worker thread runs; the coroutine that holds the dispatcher runs; and   *)
(* the dispatcher is a queue, so every resumed coroutine gets its turn.  The   *)
(* network owes nothing: libcurl may wait forever for the server unless its    *)
(* operation is cancelled or the session stops.                              *)
(***************************************************************************)
Fairness ==
  /\ WF_vars(WorkerBegin) /\ WF_vars(WorkerExit) /\ WF_vars(CurlAbort)
  /\ WF_vars(WorkerObserve) /\ WF_vars(WorkerCheck) /\ WF_vars(WorkerReceive)
  /\ WF_vars(WorkerSend) /\ WF_vars(WorkerSignal) /\ WF_vars(WorkerSleep)
  /\ WF_vars(WorkerEnd)
  /\ WF_vars(UserRuns) /\ WF_vars(AbandonRuns) /\ WF_vars(StopRuns)
  /\ SF_vars(CallContinues) /\ SF_vars(RunFinishes) /\ SF_vars(NextFinishes)
  /\ SF_vars(StopReturns)

FairSpec == Spec /\ Fairness

-----------------------------------------------------------------------------
(* Properties.                                                             *)

\* The bytes that have left the ring are the file's first bytes, in order: the
\* two copies of append and take (ftp-client.cpp:391-407) never swap, skip or
\* repeat a byte where the ring wraps.
InOrder ==
  /\ Len(delivered) + count = sent
  /\ \A i \in 1..Len(delivered) : delivered[i] = i

\* A worker asleep in exchange_bytes whose byte exchange could go on, or whose
\* operation was cancelled, has a wake on its way: no wake is lost between the
\* consumer's answer and the sleep (curl-ftp-session.cpp:209-232).
CouldExchange ==
  \/ abandoned
  \/ IF upload THEN count > 0 \/ input_ended ELSE chunk <= Capacity - count

WakeOnItsWay == upc = "resume" \/ apc \in {"cancel", "wake"} \/ spc \in {"request", "wake"}

NoLostWake ==
  wpc = "asleep" /\ (CouldExchange \/ Interrupted) => WakeOnItsWay

\* A waiter is registered although the call need not wait any more.
HasWhatItAwaits == /\ upc = "await" /\ waiter = "waiting"
                   /\ Satisfied \/ (call # "closeReader" /\ (failure \/ abandoned))

\* A call asleep on "changed" that has what it waits for, or whose stream has
\* failed or been abandoned, has a trigger on its way (ftp-client.cpp:518-520).
NoLostTrigger ==
  HasWhatItAwaits => wpc = "signal" \/ apc \in {"cancel", "wake", "settle"}

\* Neither thread sleeps on what has happened.
NoneSleeps == NoLostWake /\ NoLostTrigger

\* The worker works for the operation that holds the client's lock and for no
\* other, and an acknowledged stream is out of curl's reach (362-369, 435-437).
OneOperation ==
  /\ operation # "none" => operations = operation
  /\ acknowledged => completion["stream"] # "none"

\* A transfer that was completed leaves the session usable, one that was given
\* up or failed after its start does not: no later command can be mistaken for a
\* reply of the old transfer (ftp-client.cpp:379, 460, 605-607).
SessionUsable ==
  /\ succeeded /\ completion["next"] \notin {"error", "canceled"} => ~failed
  /\ abandoned => failed
  /\ acknowledged /\ failure /\ ready /\ completion["stream"] # "accepted" => failed

\* The session is never worked on by two, nor used again when it must not be.
SessionSound == TypeOK /\ OneOperation /\ SessionUsable

\* The channel promised by RemoteFileReader and RemoteFileWriter.
Channel == INSTANCE ByteChannel WITH
  received <- delivered,
  outcome <- IF succeeded THEN "complete"
             ELSE IF abandoned \/ failure THEN "broken" ELSE "open"

IsChannel == Channel!Spec

\* An abandoned stream settles: curl gives the transfer up and the operation lock
\* is released, whatever the server does.
AbandonedSettles == abandoned ~> acknowledged

\* stop_async returns: the worker ends and the lock is free, from any state of a
\* transfer or of another operation.
StopCompletes == stopping ~> spc = "done"

\* Closing a reader returns even when the server stays silent.
CloseReaderReturns == (call = "closeReader") ~> (call = "none")

\* Whatever is given up ends.
GivenUpEnds == AbandonedSettles /\ StopCompletes /\ CloseReaderReturns
=============================================================================
