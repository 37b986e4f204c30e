--------------------------- MODULE TerminalRuntime ---------------------------
(***************************************************************************)
(* What a terminal window lets its connection do (terminal-runtime.cpp): connect *)
(* and reconnect, transfers, text, BREAK and a change of encoding, one at a time, *)
(* each only once the user's input is drained, until the window is closed.        *)
(*                                                                         *)
(* All code runs on one thread.  A request is accepted or refused at once; a frame  *)
(* (dispatch_frame with process_input_policy) starts what was accepted; a coroutine *)
(* that waits is a value of "running", and its end is an action.  The connection is *)
(* the contract of TerminalConnection: an operation it serves is in "busy", or is   *)
(* the exchange of its encoding, and it closes only when neither is left.           *)
(***************************************************************************)
EXTENDS Naturals

CONSTANTS Unset, Encodings, Devices,   \* Devices: whether a transport is watched for its return
          Requests,                   \* what this window is asked for
          MaxStarts, MaxLosses        \* bounds: connections started; losses of one carrier

ASSUME RuntimeAssumption ==
  /\ Devices \subseteq BOOLEAN /\ MaxStarts \in Nat /\ MaxLosses \in Nat
  /\ Unset \notin Encodings /\ Unset \notin [watched : BOOLEAN, encoding : Encodings]
  /\ Unset \notin {"reserved", "text", "transfer", "break", "selecting", "on", "cancelled"}
  /\ Requests \subseteq {"text", "transfer", "auto", "break", "encoding"}

VARIABLES
  connection,  \* terminal_connection_state, and the operation behind it
  pending,     \* requests that were accepted and wait for a frame
  running,     \* the coroutines that were started and did not return
  recovery,    \* the device that is watched, and its returns
  input,       \* the widget: its input state, input_allowed, ui_failed
  scheduled,   \* frame_source: a frame is scheduled
  window,      \* "open", or what its closing waits for
  handled,     \* handled_carrier_losses
  given        \* history: the encoding the user was told last, services that were accepted
               \* and not finished, connections started

runtime == <<connection, pending, running, recovery, input, scheduled, window, handled, given>>

NoConnection == [phase |-> "idle", live |-> FALSE, carrier |-> TRUE, losses |-> 0, ended |-> FALSE,
                 cancelled |-> FALSE, busy |-> Unset, changing |-> FALSE, encoding |-> Unset]
NothingPending == [connection |-> Unset, again |-> FALSE, encoding |-> Unset, service |-> Unset, auto |-> FALSE]
NothingRuns == [service |-> Unset, stop |-> FALSE, encoding |-> Unset, break |-> FALSE, watch |-> Unset]
Connections == [watched : BOOLEAN, encoding : Encodings]
Phases == {"idle", "starting", "connected", "stopping", "closed"}

RuntimeTypeOK ==
  /\ connection \in [phase : Phases, live : BOOLEAN, carrier : BOOLEAN, losses : 0..MaxLosses,
       ended : BOOLEAN, cancelled : BOOLEAN, busy : {Unset, "reserved", "text", "transfer", "break"},
       changing : BOOLEAN, encoding : Encodings \cup {Unset}]
  /\ pending \in [connection : {Unset} \cup Connections, again : BOOLEAN,
       encoding : {Unset} \cup Encodings, service : {Unset, "text", "transfer"}, auto : BOOLEAN]
  /\ running \in [service : {Unset, "text", "selecting", "transfer"}, stop : BOOLEAN,
       encoding : {Unset} \cup Encodings, break : BOOLEAN, watch : {Unset, "on", "cancelled"}]
  /\ recovery \in [request : {Unset} \cup Connections, returned : BOOLEAN]
  /\ input \in [state : {"enabled", "draining", "disabled"}, allowed : BOOLEAN, failed : BOOLEAN]
  /\ scheduled \in BOOLEAN /\ handled \in 0..MaxLosses
  /\ window \in {"open", "stopping", "recovery", "encoding", "service", "break", "closed"}
  /\ given \in [encoding : {Unset} \cup Encodings, owed : Nat, starts : 0..MaxStarts]

InitWith(atOnce) ==
  /\ connection = NoConnection /\ pending = NothingPending /\ running = NothingRuns
  /\ recovery = [request |-> Unset, returned |-> FALSE]
  /\ input = [state |-> "enabled", allowed |-> TRUE, failed |-> FALSE]
  /\ scheduled = atOnce /\ window = "open" /\ handled = 0
  /\ given = [encoding |-> Unset, owed |-> 0, starts |-> 0]
RuntimeInit == InitWith(TRUE)

\* A step of the code takes the whole state to the next one; f says whether it asked for
\* a frame.
Now == [c |-> connection, p |-> pending, r |-> running, v |-> recovery, i |-> input,
        h |-> handled, g |-> given, f |-> scheduled]
Becomes(state) ==
  \E s \in {state} :
    /\ connection' = s.c /\ pending' = s.p /\ running' = s.r /\ recovery' = s.v
    /\ input' = s.i /\ handled' = s.h /\ given' = s.g /\ scheduled' = s.f

Ready(c) == c.phase = "connected" /\ c.carrier
\* service_active: from the start of a service, or an accepted header, to its end.
Active(s) == s.p.auto \/ s.r.service # Unset
Serving(s) == s.p.service # Unset \/ Active(s)
Exclusive(s) == Serving(s) \/ s.r.encoding # Unset \/ s.r.break

\* terminal_connection_stop
Stop(s) ==
  IF s.c.phase \in {"idle", "closed"} THEN s
  ELSE [s EXCEPT !.c.cancelled = TRUE, !.c.phase = "stopping", !.c.live = FALSE, !.f = TRUE]
\* finish_service
Finish(s) == [s EXCEPT !.r.service = Unset, !.g.owed = @ - 1, !.f = TRUE]
\* run_service: a transfer joins its reservation whatever became of the connection.
Joins(s) == [s EXCEPT !.r.service = "transfer", !.c.busy = "transfer"]
SendsText(s) ==
  IF Ready(s.c) /\ ~s.c.changing /\ s.c.busy = Unset
  THEN [s EXCEPT !.r.service = "text", !.c.busy = "text"] ELSE Finish(s)
Unwatched(s) ==
  [s EXCEPT !.v.request = Unset, !.r.watch = IF @ = "on" THEN "cancelled" ELSE @]

\* Fault: a transfer that is reserved is withdrawn like a text.
WithdrawsAll(s) ==
  LET t == [s EXCEPT !.r.stop = TRUE, !.p.auto = FALSE, !.p.service = Unset] IN
  IF s.p.auto THEN [t EXCEPT !.r.service = "selecting"]
  ELSE IF s.p.service # Unset THEN Finish(t) ELSE t
\* terminal_runtime_cancel_transfer; a reserved transfer is joined, which ends it.
CancelTransfer(s) ==
  LET t == [s EXCEPT !.r.stop = TRUE, !.p.auto = FALSE, !.p.service = Unset] IN
  IF s.p.auto THEN [t EXCEPT !.r.service = "selecting"]
  ELSE IF s.p.service = "transfer" THEN Joins(t)
  ELSE IF s.p.service = "text" THEN Finish(t) ELSE t

\* change_encoding; told is the answer of the connection.
EncodingReturns(s, e, told) ==
  LET t == [s EXCEPT !.r.encoding = Unset, !.f = TRUE] IN
  IF ~told THEN t
  ELSE [t EXCEPT !.g.encoding = e, !.v.request = IF @ = Unset THEN Unset ELSE [@ EXCEPT !.encoding = e]]
ChangesEncoding(s, e) ==
  LET t == [s EXCEPT !.p.encoding = Unset] IN
  IF s.c.busy # Unset \/ s.c.changing \/ ~(s.c.phase = "starting" \/ Ready(s.c))
  THEN EncodingReturns(t, e, FALSE)
  ELSE IF s.c.phase = "starting" \/ s.c.encoding = e
  THEN EncodingReturns([t EXCEPT !.c.encoding = e], e, TRUE)
  ELSE [t EXCEPT !.c.changing = TRUE, !.r.encoding = e]

-----------------------------------------------------------------------------
(* process_input_policy, one operator for each of its steps.                 *)

Interrupted(s) == s.h # s.c.losses
Withdraws(s) ==
  LET a == IF s.c.phase # "starting" /\ (~Ready(s.c) \/ Interrupted(s))
           THEN [s EXCEPT !.p.encoding = Unset] ELSE s
      b == IF ~s.c.carrier \/ Interrupted(s) THEN CancelTransfer(a) ELSE a
  IN  IF (b.p.auto \/ b.r.service = "selecting") /\ s.c.ended THEN CancelTransfer(b) ELSE b
Recovers(s) ==
  IF /\ s.c.phase = "closed" /\ ~s.c.cancelled /\ s.v.request # Unset /\ s.v.returned
     /\ s.p.connection = Unset /\ ~Exclusive(s)
  THEN [s EXCEPT !.p.connection = s.v.request, !.p.again = TRUE, !.i.allowed = TRUE] ELSE s
\* Whether the user may type.
Enabled(s) ==
  /\ s.i.allowed /\ ~Interrupted(s) /\ s.p.connection = Unset
  /\ s.p.encoding = Unset /\ s.r.encoding = Unset /\ ~Serving(s)
  /\ s.c.phase # "idle" => Ready(s.c)
\* The widget takes a change of the input state, or is busy and will ask for a frame.
Inhibits(s, busy) ==
  IF Enabled(s) = (s.i.state = "enabled") THEN {s}
  ELSE IF busy THEN {[s EXCEPT !.f = TRUE]}
  ELSE {[s EXCEPT !.i.state = x] : x \in IF Enabled(s) THEN {"enabled"} ELSE {"draining", "disabled"}}
Drained(s) == s.i.state = "disabled"
Starts(s) ==
  LET request == s.p.connection
      watches == request # Unset /\ request.watched /\ ~s.p.again
  IN
  IF /\ request # Unset /\ Drained(s) /\ s.c.phase \in {"idle", "closed"}
     /\ s.p.again \/ s.r.watch = Unset
  THEN [s EXCEPT !.p.connection = Unset, !.p.again = FALSE,
          !.v = [request |-> IF watches THEN request ELSE @.request, returned |-> FALSE],
          !.r.watch = IF watches THEN "on" ELSE @,
          !.c = [NoConnection EXCEPT !.phase = "starting", !.live = TRUE, !.encoding = request.encoding],
          !.g.starts = @ + 1, !.f = TRUE]
  ELSE s
Begins(s) ==
  LET a == IF s.p.auto /\ Drained(s)
           THEN [s EXCEPT !.p.auto = FALSE, !.r.service = "selecting"] ELSE s
      b == IF a.p.encoding # Unset /\ Drained(a) THEN ChangesEncoding(a, a.p.encoding) ELSE a
  IN  IF b.p.service = Unset \/ ~Drained(b) THEN b
      ELSE IF b.p.service = "text" THEN SendsText([b EXCEPT !.p.service = Unset])
      ELSE Joins([b EXCEPT !.p.service = Unset])
\* The carrier loss is handled once the input is drained; what began since is not asked.
Handles(s, before) ==
  IF Interrupted(before) /\ Drained(s) THEN [s EXCEPT !.h = before.c.losses, !.f = TRUE] ELSE s

\* The steps in their order; each one takes what the step before left.
Policy(s, busy) ==
  LET left == {Recovers(t) : t \in {Withdraws(s)}}
      begun == {Begins(t) : t \in {Starts(u) : u \in UNION {Inhibits(t, busy) : t \in left}}}
  IN  {Handles(t, s) : t \in begun}


-----------------------------------------------------------------------------
(* Frames.                                                                 *)

Unframed == [Now EXCEPT !.f = FALSE]
\* dispatch_frame; while the window is shown the policy runs again behind the layout.
Passes(busy) ==
  LET once == Policy(Unframed, busy)
  IN  once \cup UNION {Policy(s, busy) : s \in once}
FrameWith(busy) ==
  /\ scheduled /\ window # "closed" /\ UNCHANGED window
  /\ IF input.failed THEN Becomes(Unframed) ELSE \E s \in Passes(busy) : Becomes(s)
Frame == \E busy \in BOOLEAN : FrameWith(busy)

\* fail_ui
FailsUi(s) ==
  LET t == Unwatched([s EXCEPT !.p.connection = Unset, !.p.encoding = Unset])
  IN  [Stop(CancelTransfer(t)) EXCEPT !.i.failed = TRUE, !.f = TRUE]
FrameFails ==
  /\ scheduled /\ window # "closed" /\ ~input.failed /\ UNCHANGED window
  /\ \E s \in {Unframed} \cup Policy(Unframed, FALSE) : Becomes(FailsUi(s))

-----------------------------------------------------------------------------
(* Requests of the window.                                                  *)

\* terminal_runtime_can_connect
CanConnect ==
  /\ pending.connection = Unset /\ ~Exclusive(Now)
  /\ connection.phase \in {"idle", "closed"} \/ (connection.phase = "connected" /\ ~connection.carrier)
Wants(s, request) ==
  [s EXCEPT !.p.connection = request, !.p.again = FALSE, !.g.encoding = request.encoding]
\* Fault: the request waits for a frame that somebody else asks for.
WantsOnly(s, request) == Wants(s, request)
Asks(s, request) == [Wants(s, request) EXCEPT !.f = TRUE]
\* terminal_runtime_connect_local and _transport; a failed widget is replaced.
Connect ==
  /\ window = "open" /\ CanConnect /\ given.starts < MaxStarts
  /\ \E watched \in Devices, e \in Encodings :
       LET t == Unwatched(Stop([Now EXCEPT
                  !.i = [state |-> IF @.failed THEN "enabled" ELSE @.state, allowed |-> TRUE, failed |-> FALSE]]))
       IN  Becomes(Asks(t, [watched |-> watched, encoding |-> e]))
  /\ UNCHANGED window

Accepts == ~input.failed /\ window # "closed" /\ pending.encoding = Unset /\ ~Exclusive(Now)
\* terminal_runtime_start_text_send
StartText ==
  /\ "text" \in Requests /\ Accepts /\ Ready(connection)
  /\ Becomes([Now EXCEPT !.r.stop = FALSE, !.p.service = "text", !.g.owed = @ + 1, !.f = TRUE])
  /\ UNCHANGED window
\* terminal_connection_prepare_transfer
Prepares == Ready(connection) /\ ~connection.changing /\ connection.busy = Unset
Reserved == [Now EXCEPT !.c.busy = "reserved", !.r.stop = FALSE, !.g.owed = @ + 1, !.f = TRUE]
StartTransfer ==
  /\ "transfer" \in Requests /\ Accepts /\ Prepares
  /\ Becomes([Reserved EXCEPT !.p.service = "transfer"]) /\ UNCHANGED window
\* The reader found the header of ZMODEM.
AutoStart ==
  /\ "auto" \in Requests /\ Accepts /\ connection.live /\ Prepares
  /\ Becomes([Reserved EXCEPT !.p.auto = TRUE]) /\ UNCHANGED window
\* terminal_runtime_request_encoding
RequestEncoding ==
  /\ "encoding" \in Requests /\ ~input.failed /\ window # "closed" /\ ~Exclusive(Now)
  /\ \E e \in Encodings :
       LET stored == pending.connection # Unset \/ (connection.phase = "closed" /\ recovery.request # Unset)
           With(request) == IF request = Unset THEN Unset ELSE [request EXCEPT !.encoding = e]
       IN
       \/ stored /\ Becomes([Now EXCEPT !.p.connection = With(@), !.v.request = With(@), !.g.encoding = e])
       \/ /\ ~stored /\ (connection.phase = "starting" \/ Ready(connection))
          /\ Becomes([Now EXCEPT !.p.encoding = e, !.f = TRUE])
  /\ UNCHANGED window
SendBreak ==
  /\ "break" \in Requests /\ Accepts /\ Prepares
  /\ Becomes([Now EXCEPT !.r.break = TRUE, !.c.busy = "break", !.f = TRUE]) /\ UNCHANGED window
UserCancels == Becomes(CancelTransfer(Now)) /\ UNCHANGED window /\ window # "closed" /\ Serving(Now)

\* stop_application_async with terminal_runtime_disconnect; it waits for one after another.
Disconnect ==
  /\ window = "open" /\ window' = "stopping"
  /\ LET t == Unwatched([Now EXCEPT !.p.connection = Unset, !.p.encoding = Unset])
         u == [CancelTransfer(t) EXCEPT !.i.allowed = FALSE]
     IN  \E state \in IF input.state = "enabled" /\ ~input.failed
                      THEN {"enabled", "draining", "disabled"} ELSE {input.state} :
           Becomes([Stop(u) EXCEPT !.i.state = state, !.f = TRUE])
\* terminal_connection_wait_stopped
Gone(c) == c.phase \in {"idle", "closed"}
Await(stage, over, next) == window = stage /\ over /\ window' = next
Closing ==
  /\ \/ Await("stopping", Gone(connection), "recovery")
     \/ Await("recovery", running.watch = Unset, "encoding")
     \/ Await("encoding", running.encoding = Unset, "service")
     \/ Await("service", running.service = Unset, "break")
     \/ Await("break", ~running.break, "closed")
  /\ UNCHANGED <<connection, pending, running, recovery, input, scheduled, handled, given>>

-----------------------------------------------------------------------------
(* The connection, the widget, the device and the user's answers.              *)

Opens == connection.phase = "starting" /\ connection.live
         /\ Becomes([Now EXCEPT !.c.phase = "connected", !.f = TRUE]) /\ UNCHANGED window
ReceiveEnds == connection.phase = "connected" /\ connection.live /\ ~connection.ended
               /\ Becomes([Now EXCEPT !.c.ended = TRUE, !.f = TRUE]) /\ UNCHANGED window
\* An end of the channel, a failed opening, or fail().
IoStops ==
  /\ connection.live /\ UNCHANGED window
  /\ \/ /\ connection.phase = "starting" \/ connection.ended
        /\ Becomes([Now EXCEPT !.c.live = FALSE])
     \/ /\ connection.phase = "connected"
        /\ Becomes([Now EXCEPT !.c.live = FALSE, !.c.phase = "stopping", !.f = TRUE])
ConnectionCloses ==
  /\ connection.phase \in {"starting", "connected", "stopping"} /\ ~connection.live
  /\ connection.busy = Unset /\ ~connection.changing
  /\ Becomes([Now EXCEPT !.c.phase = "closed", !.f = TRUE]) /\ UNCHANGED window
Carrier ==
  /\ connection.phase = "connected" /\ connection.live
  /\ connection.carrier => connection.losses < MaxLosses
  /\ Becomes([Now EXCEPT !.c.carrier = ~@, !.c.losses = IF connection.carrier THEN @ + 1 ELSE @, !.f = TRUE])
  /\ UNCHANGED window

\* The connection is done with what it served; then the coroutine of the window returns.
Served ==
  /\ connection.busy \in {"text", "transfer", "break"}
  /\ Becomes([Now EXCEPT !.c.busy = Unset, !.f = TRUE]) /\ UNCHANGED window
Exchanged ==
  /\ connection.changing
  /\ \E changed \in {FALSE} \cup {connection.live /\ connection.carrier} :
       Becomes([Now EXCEPT !.c.changing = FALSE, !.f = TRUE,
                           !.c.encoding = IF changed THEN running.encoding ELSE @])
  /\ UNCHANGED window
Returns ==
  /\ UNCHANGED window
  /\ \/ /\ running.service \in {"text", "transfer"} /\ connection.busy # running.service
        /\ Becomes(Finish(Now))
     \/ /\ running.encoding # Unset /\ ~connection.changing
        /\ Becomes(EncodingReturns(Now, running.encoding, connection.encoding = running.encoding))
     \/ /\ running.break /\ connection.busy # "break"
        /\ Becomes([Now EXCEPT !.r.break = FALSE, !.f = TRUE])
\* run_auto_start: without files the transfer is cancelled, but it joins.
Selected ==
  /\ running.service = "selecting" /\ UNCHANGED window
  /\ \E files \in BOOLEAN : Becomes(Joins([Now EXCEPT !.r.stop = @ \/ ~files]))

DeviceReturns ==
  /\ running.watch = "on" /\ ~recovery.returned
  /\ connection.phase \in {"closed", "stopping"} /\ given.starts < MaxStarts
  /\ Becomes([Now EXCEPT !.v.returned = TRUE, !.f = TRUE]) /\ UNCHANGED window
WatchEnds ==
  /\ running.watch # Unset /\ UNCHANGED window
  /\ Becomes([Now EXCEPT !.r.watch = Unset, !.f = TRUE,
                         !.v.request = IF running.watch = "on" THEN Unset ELSE @])
Drains ==
  /\ input.state = "draining" /\ ~input.failed
  /\ Becomes([Now EXCEPT !.i.state = "disabled", !.f = TRUE]) /\ UNCHANGED window

Ended == window = "closed" /\ UNCHANGED runtime
RuntimeNext ==
  \/ Frame \/ FrameFails \/ Connect \/ StartText \/ StartTransfer \/ AutoStart \/ RequestEncoding
  \/ SendBreak \/ UserCancels \/ Disconnect \/ Closing
  \/ Opens \/ ReceiveEnds \/ IoStops \/ ConnectionCloses \/ Carrier \/ Served \/ Exchanged \/ Returns
  \/ Selected \/ DeviceReturns \/ WatchEnds \/ Drains \/ Ended

-----------------------------------------------------------------------------
(* Properties.                                                             *)

\* A stream that is reserved for a transfer has someone who will join it; otherwise the
\* connection could neither be used again nor close.
ReservationHeld ==
  connection.busy = "reserved" =>
    pending.service = "transfer" \/ pending.auto \/ running.service = "selecting"

\* A service that was accepted is finished once, and no other one is accepted before.
FinishedOnce ==
  /\ given.owed \in {0, 1}
  /\ (given.owed = 1) = Serving(Now)
  /\ pending.service # Unset => ~Active(Now)

\* The line serves one at a time, and what it serves is what the window started.
OneAtATime ==
  /\ connection.busy \in {"text", "transfer"} => running.service = connection.busy
  /\ connection.busy = "break" => running.break
  /\ connection.changing => running.encoding # Unset
  /\ Serving(Now) => ~running.break /\ running.encoding = Unset

\* A connection, also one that was recovered, has the encoding the user was told last.
EncodingKept ==
  connection.phase \in {"starting", "connected"} =>
    connection.encoding \in {given.encoding, running.encoding}

\* A window that closes connects to nothing, and when it is gone nothing that uses it runs.
NothingOutlives ==
  /\ window # "open" => connection.phase \notin {"starting", "connected"}
  /\ window = "closed" =>
       /\ connection.phase \in {"idle", "closed"} /\ running = [NothingRuns EXCEPT !.stop = running.stop]
       /\ pending = [NothingPending EXCEPT !.again = pending.again] /\ given.owed = 0

\* No frame is missing: when none is scheduled, a frame would change nothing.
NoFrameLost ==
  ~scheduled /\ window # "closed" /\ ~input.failed => Policy(Unframed, FALSE) = {Unframed}

RuntimeSound ==
  RuntimeTypeOK /\ ReservationHeld /\ FinishedOnce /\ OneAtATime /\ EncodingKept /\ NothingOutlives
  /\ NoFrameLost

\* A connection that was asked for is started or withdrawn, and a window that is closed goes.
Unsettled == pending.connection # Unset \/ window \notin {"open", "closed"}
Settles == Unsettled ~> ~Unsettled

\* Frames are sources of the main loop; what is cancelled or lost its line ends; the user
\* leaves a question that is cancelled.
Serves ==
  \/ Closing \/ ConnectionCloses \/ Drains \/ Returns
  \/ Served /\ (~connection.live \/ running.stop)
  \/ Exchanged /\ ~connection.live
  \/ Selected /\ running.stop
  \/ WatchEnds /\ running.watch = "cancelled"
RuntimeProgress == WF_runtime(FrameWith(FALSE)) /\ WF_runtime(Serves)
RuntimeSpec == RuntimeInit /\ [][RuntimeNext]_runtime /\ RuntimeProgress
=============================================================================
