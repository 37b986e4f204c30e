------------------------- MODULE TerminalConnection -------------------------
(******************************************************************************)
(* One terminal line (terminal-connection.cpp): run_transport, the reader and *)
(* the writer that it starts, and the calls of the runtime (an encoding       *)
(* exchange, BREAK, text, a binary transfer, a resize).                       *)
(*                                                                            *)
(* All of them are coroutines on one dispatcher: "turn" is the one that runs, *)
(* at[p] the place of p in the code, wait[p] what it is suspended on.  A      *)
(* trigger or a cancellation only makes its waiter runnable ("go", "cancel"): *)
(* it runs in a later turn.  The code relies on that                          *)
(* (terminal_connection_dispatch uses the session after the trigger that lets *)
(* finish_stream destroy it), and on a trigger without a waiter being lost.   *)
(*                                                                            *)
(* A byte from the peer is its position in the stream.  A byte to the peer is *)
(* the encoding and the carrier under which the connection accepted it.       *)
(******************************************************************************)
EXTENDS Naturals, Sequences, FiniteSets

CONSTANTS Callers,   \* calls of the runtime that can be in flight together
          Kinds,     \* the calls it makes: "encoding", "service", "transfer", "resize"
          Capacity,  \* bytes in each queue
          Chunk,     \* bytes in one read or write
          Input,     \* bytes the peer sends before it ends the stream
          Typed,     \* bytes the core sends
          Header,    \* positions of a ZMODEM header in the stream
          Partial,   \* positions that begin a character which the next byte ends
          Exchanges, Losses,  \* bounds on encoding exchanges and carrier losses
          Events     \* what else happens: "stop", "delivery", "failure", "cancel"

ASSUME SizeAssumption == Capacity \in Nat \ {0} /\ Chunk \in 1..Capacity
ASSUME BoundAssumption == {Input, Typed, Exchanges, Losses} \subseteq Nat
\* The stream may break off before the last byte of a header.
ASSUME StreamAssumption == Header \subseteq 1..(Input + 1) /\ Partial \subseteq 1..Input
ASSUME CallAssumption == /\ Kinds \subseteq {"encoding", "service", "transfer", "resize"}
                         /\ Events \subseteq {"stop", "delivery", "failure", "cancel"}
                         /\ Callers \cap {"main", "reader", "writer", "nobody"} = {}

Proc == {"main", "reader", "writer"} \cup Callers
Conditions == {"read_resumed", "stream_changed", "receive_space", "send_ready", "drained",
               "transfer_ready", "transport", "joined"}

VARIABLES
  state,    \* TerminalConnectionState
  op,       \* ConnectionOperation
  turn, at, wait,
  back,     \* where a coroutine goes on after queue_decoded
  token,    \* the carrier (its number) whose loss cancels the coroutine
  kind, succeeded, requested,    \* a call, its result, its caller's cancellation
  chunk, room, converted,        \* locals of the reader and of the writer
  frame,    \* a dispatch has been requested (wake)
  core, typed,                   \* output waiting in the core, and all of it so far
  received, shown,               \* peer bytes: read, fed to the core,
  taken, consumed, lost          \* to this transfer, to an earlier one, dropped

coroutines == <<turn, at, wait>>
calls == <<kind, succeeded, requested>>
locals == <<chunk, room, converted>>
keys == <<core, typed>>
stream == <<received, shown, taken, consumed, lost>>
vars == <<state, op, coroutines, back, token, calls, locals, frame, keys, stream>>

NewOperation == [
  incoming |-> << >>, outgoing |-> << >>, transfer_incoming |-> << >>,
  transfer_prefetch |-> << >>, tail |-> << >>, held |-> << >>, decoded |-> << >>,
  auto_start |-> Header # {}, read_policy_changed |-> FALSE,
  receive_delivery_enabled |-> TRUE, eof |-> FALSE, transport_eof |-> FALSE,
  write_closed |-> FALSE, peer_closed |-> FALSE, finishing |-> FALSE, session |-> FALSE,
  decoder_finished |-> FALSE, changing_encoding |-> FALSE, service_active |-> FALSE,
  transfer_prepared |-> FALSE, read_paused |-> FALSE, read_active |-> FALSE,
  write_active |-> FALSE, write_paused |-> FALSE, pending_operations |-> 0,
  stop |-> FALSE]

Range(s) == {s[i] : i \in DOMAIN s}
Least(a, b) == IF a < b THEN a ELSE b
Take(s, n) == SubSeq(s, 1, n)
Drop(s, n) == SubSeq(s, n + 1, Len(s))
Room(s) == Capacity - Len(s)

Init ==
  /\ state = [phase |-> "idle", cancelled |-> FALSE, error |-> FALSE,
              carrier_connected |-> TRUE, carrier_losses |-> 0, encoding |-> 0]
  /\ op = NewOperation
  /\ turn = "nobody" /\ at = [p \in Proc |-> "none"] /\ wait = [p \in Proc |-> "none"]
  /\ back = [p \in Proc |-> "none"] /\ token = [p \in Proc |-> 0]
  /\ kind = [c \in Callers |-> "none"] /\ succeeded = [c \in Callers |-> FALSE]
  /\ requested = [c \in Callers |-> FALSE]
  /\ chunk = << >> /\ room = 0 /\ converted = << >>
  /\ frame = FALSE /\ core = 0 /\ typed = 0
  /\ received = 0 /\ shown = << >>
  /\ taken = << >> /\ consumed = {} /\ lost = {}

-----------------------------------------------------------------------------
(* Turns, triggers and cancellations.                                         *)

Idle == turn = "nobody"
Running(p) == \/ turn = p /\ wait[p] = "none"
              \/ Idle /\ wait[p] = "go"
Thrown(p) == Idle /\ wait[p] = "cancel"

Woken(conditions) == [q \in Proc |-> IF wait[q] \in conditions THEN "go" ELSE wait[q]]

Continue(p, place, waits) ==
  /\ at' = [at EXCEPT ![p] = place] /\ wait' = [waits EXCEPT ![p] = "none"] /\ turn' = p
Suspend(p, place, condition, waits) ==
  /\ at' = [at EXCEPT ![p] = place] /\ wait' = [waits EXCEPT ![p] = condition]
  /\ turn' = "nobody"
\* A wait with a token throws at once when the token is cancelled already.
Await(p, place, condition, cancelled, waits) ==
  Suspend(p, place, IF cancelled THEN "cancel" ELSE condition, waits)

\* io_stop.cancel() and stop.cancel(): every wait but the joins takes one of their tokens.
Stopped(waits) ==
  [q \in Proc |-> IF /\ waits[q] \in Conditions \ {"joined"}
                     /\ at[q] \notin {"joinPending", "finishPeer", "finishInput", "close", "rejoin"}
                  THEN "cancel" ELSE waits[q]]

\* operation.read_interrupt.cancel()
Interrupted(waits) ==
  IF at["reader"] = "read" /\ waits["reader"] = "transport"
  THEN [waits EXCEPT !["reader"] = "cancel"] ELSE waits

\* The token of a call or of the writer: io_stop, the carrier it began under, its caller.
Cancelled(p) == \/ op.stop \/ token[p] # state.carrier_losses
                \/ p \in Callers /\ requested[p]

\* fail()
FailWith(o) ==
  /\ state' = [state EXCEPT !.phase = "stopping", !.error = TRUE]
  /\ op' = [o EXCEPT !.stop = TRUE]
  /\ frame' = TRUE

-----------------------------------------------------------------------------
(* Decoding, and queue_decoded, which the reader and an exchange call.        *)

\* convert_terminal_text: an incomplete character waits in the decoder.
Decodable(bytes) == IF bytes # << >> /\ bytes[Len(bytes)] \in Partial
                    THEN Len(bytes) - 1 ELSE Len(bytes)
Decode(o, bytes) ==
  LET all == o.held \o bytes
  IN [o EXCEPT !.decoded = Take(all, Decodable(all)), !.held = Drop(all, Decodable(all))]

\* finish_auto_start_prefix
FinishPrefix(o) == [Decode(o, o.tail) EXCEPT !.tail = << >>]

\* finish_decoder
FinishDecoder(o) ==
  IF o.decoder_finished THEN [o EXCEPT !.decoded = << >>]
  ELSE [o EXCEPT !.decoded = o.held, !.held = << >>, !.decoder_finished = TRUE]

\* co_await queue_decoded(connection, ...): o.decoded holds the converted bytes.
Queue(p, o, return) ==
  /\ op' = o
  /\ back' = [back EXCEPT ![p] = return]
  /\ Continue(p, "queue", wait)

Returned(p) == back' = [back EXCEPT ![p] = "none"]

HasSpace == Len(op.incoming) < Capacity

QueueDecoded(p) ==
  /\ Running(p)
  /\ \/ /\ at[p] = "queue" /\ op.decoded = << >>
        /\ Continue(p, back[p], wait) /\ Returned(p) /\ UNCHANGED <<op, frame>>
     \/ /\ at[p] = "queue" /\ op.decoded # << >> /\ op.stop
        /\ Continue(p, IF p = "reader" THEN "end" ELSE "undo", wait)
        /\ Returned(p) /\ UNCHANGED <<op, frame>>
     \/ /\ at[p] = "room" \/ (at[p] = "queue" /\ op.decoded # << >> /\ ~op.stop)
        /\ IF HasSpace
           THEN LET n == Least(Len(op.decoded), Room(op.incoming))
                IN /\ op' = [op EXCEPT !.incoming = @ \o Take(op.decoded, n),
                                       !.decoded = Drop(@, n)]
                   /\ frame' = TRUE
                   /\ Continue(p, "queue", wait)
           ELSE Await(p, "room", "receive_space", op.stop, wait) /\ UNCHANGED <<op, frame>>
        /\ UNCHANGED back
  /\ UNCHANGED <<state, token, calls, locals, keys, stream>>

\* queue_pending_raw: what a transfer left, first its read-ahead, then its queue.
QueuePendingRaw(p) ==
  /\ Running(p) /\ at[p] = "pending"
  /\ IF op.transfer_prefetch # << >>
     THEN Queue(p, [Decode(op, op.transfer_prefetch) EXCEPT !.transfer_prefetch = << >>], "pending")
     ELSE IF op.transfer_incoming # << >>
     THEN LET n == Least(Len(op.transfer_incoming), Chunk)
          IN Queue(p, [Decode(op, Take(op.transfer_incoming, n)) EXCEPT
                         !.transfer_incoming = Drop(@, n)], "pending")
     ELSE /\ Continue(p, IF p # "reader" \/ op.transport_eof THEN "tail" ELSE "top", wait)
          /\ UNCHANGED <<op, back>>
  /\ UNCHANGED <<state, token, calls, locals, frame, keys, stream>>

-----------------------------------------------------------------------------
(* read_stream                                                                *)

readerOnly == <<state, token, calls, converted, keys>>

ReaderTop ==
  /\ Running("reader") /\ at["reader"] = "top"
  /\ IF op.stop THEN Continue("reader", "end", wait) /\ UNCHANGED op
     ELSE /\ op' = [op EXCEPT !.read_active = FALSE]
          /\ Continue("reader", "check", Woken({"stream_changed"}))
  /\ UNCHANGED <<readerOnly, back, chunk, room, frame, stream>>

LeftOver(o) == o.transfer_incoming # << >> \/ o.transfer_prefetch # << >>

ReaderCheck ==
  /\ Running("reader") /\ at["reader"] = "check"
  /\ LET active == [op EXCEPT !.read_active = TRUE]
     IN \/ /\ op.read_paused
           /\ Await("reader", "check", "read_resumed", op.stop, wait) /\ UNCHANGED <<op, back>>
        \/ /\ ~op.read_paused /\ op.read_policy_changed
           /\ Queue("reader", [FinishPrefix(active) EXCEPT !.read_policy_changed = FALSE], "top")
        \/ /\ ~op.read_paused /\ ~op.read_policy_changed
           /\ ~op.transfer_prepared /\ LeftOver(op)
           /\ op' = active /\ Continue("reader", "pending", wait) /\ UNCHANGED back
        \/ /\ ~op.read_paused /\ ~op.read_policy_changed
           /\ op.transfer_prepared \/ ~LeftOver(op)
           /\ Continue("reader", "target", wait) /\ UNCHANGED <<op, back>>
  /\ UNCHANGED <<readerOnly, chunk, room, frame, stream>>

\* The queue the next bytes are meant for is looked at again after every wait.
ReaderTarget ==
  /\ Running("reader") /\ at["reader"] = "target"
  /\ LET target == IF op.transfer_prepared THEN op.transfer_incoming ELSE op.incoming
     IN \/ /\ Room(target) = 0 /\ ~op.read_paused
           /\ Await("reader", "target", "receive_space", op.stop, wait) /\ UNCHANGED <<op, room>>
        \/ /\ op.read_paused
           /\ Continue("reader", "top", wait) /\ UNCHANGED <<op, room>>
        \/ /\ Room(target) # 0 /\ ~op.read_paused
           /\ room' = Least(Chunk, Room(target))
           /\ op' = [op EXCEPT !.read_active = TRUE]
           /\ Await("reader", "read", "transport", op.stop, wait)
  /\ UNCHANGED <<readerOnly, back, chunk, frame, stream>>

ReaderInterrupted ==
  /\ Thrown("reader")
  /\ Continue("reader", IF ~op.stop /\ (op.read_paused \/ op.read_policy_changed)
                        THEN "top" ELSE "end", wait)
  /\ room' = 0 /\ Returned("reader")
  /\ UNCHANGED <<readerOnly, op, chunk, frame, stream>>

\* What every call needs.
Connected == state.phase = "connected" /\ state.carrier_connected
Ready == Connected /\ ~op.changing_encoding /\ ~op.service_active

\* terminal_connection_prepare_transfer: what it refuses and what it reserves.
Reserve(c) ==
  /\ at[c] = "none" /\ Ready /\ ~LeftOver(op)
  /\ kind' = [kind EXCEPT ![c] = "transfer"]
  /\ token' = [token EXCEPT ![c] = state.carrier_losses]
  /\ succeeded' = [succeeded EXCEPT ![c] = FALSE]
  /\ requested' = [requested EXCEPT ![c] = FALSE]
Reserved(o) == [o EXCEPT !.service_active = TRUE, !.transfer_prepared = TRUE,
                         !.pending_operations = @ + 1, !.read_policy_changed = TRUE]

\* A completed read: bytes for the transfer, bytes for the detector, or text.
ReaderReceives ==
  /\ Running("reader") /\ at["reader"] = "read" /\ chunk # << >>
  /\ \/ /\ op.transfer_prepared
        /\ op' = [op EXCEPT !.transfer_incoming = @ \o chunk]
        /\ chunk' = << >>
        /\ Continue("reader", "top", Woken({"transfer_ready"})) /\ UNCHANGED back
     \/ /\ ~op.transfer_prepared /\ op.auto_start /\ ~op.service_active /\ ~op.changing_encoding
        /\ LET all == op.tail \o chunk
               starts == {i \in DOMAIN all : all[i] \in Header /\ all[i] - 1 \notin Header}
               n == IF starts = {} THEN Len(all) ELSE (CHOOSE i \in starts : TRUE) - 1
               found == Header \subseteq Range(all)
           IN /\ Queue("reader", [Decode(op, Take(all, n)) EXCEPT
                                    !.tail = IF found THEN << >> ELSE Drop(all, n)], "detected")
              /\ chunk' = IF found THEN Drop(all, n) ELSE << >>
     \/ /\ ~op.transfer_prepared /\ ~(op.auto_start /\ ~op.service_active /\ ~op.changing_encoding)
        /\ Queue("reader", FinishPrefix(op), "text") /\ UNCHANGED chunk
  /\ room' = 0
  /\ UNCHANGED <<readerOnly, frame, stream>>

ReaderText ==
  /\ Running("reader") /\ at["reader"] = "text"
  /\ Queue("reader", Decode(op, chunk), "top")
  /\ chunk' = << >>
  /\ UNCHANGED <<readerOnly, room, frame, stream>>

\* A header was found: auto_start reserves a transfer for it, or it is text.
ReaderDetected ==
  /\ Running("reader") /\ at["reader"] = "detected"
  /\ \/ /\ chunk = << >>
        /\ Continue("reader", "top", wait) /\ UNCHANGED <<op, back, token, calls>>
     \/ /\ chunk # << >> /\ op.auto_start /\ "transfer" \in Kinds
        /\ \E c \in Callers :
             /\ Reserve(c)
             /\ op' = [Reserved(op) EXCEPT !.transfer_prefetch = chunk]
             /\ at' = [at EXCEPT !["reader"] = "top", ![c] = "reserved"]
             /\ wait' = Woken({"transfer_ready"}) /\ turn' = "reader" /\ UNCHANGED back
     \/ /\ chunk # << >>
        /\ Queue("reader", Decode(op, chunk), "top") /\ UNCHANGED <<token, calls>>
  /\ chunk' = << >>
  /\ UNCHANGED <<state, converted, keys, room, frame, stream>>

\* The peer ended the stream; the rest is delivered when nobody holds the reader.
ReaderEnded ==
  /\ Running("reader") /\ at["reader"] = "read" /\ chunk = << >>
  /\ op' = [op EXCEPT !.transport_eof = TRUE, !.read_active = FALSE]
  /\ frame' = TRUE
  /\ room' = 0
  /\ Continue("reader", "eof", Woken({"transfer_ready", "stream_changed"}))
  /\ UNCHANGED <<readerOnly, back, chunk, stream>>

ReaderEof ==
  /\ Running("reader") /\ at["reader"] = "eof"
  /\ IF op.transfer_prepared \/ op.read_paused
     THEN Await("reader", "eof", "read_resumed", op.stop, wait)
          /\ UNCHANGED <<op, back>>
     ELSE Queue("reader", FinishPrefix(op), "pending")
  /\ UNCHANGED <<readerOnly, chunk, room, frame, stream>>

ReaderTail ==
  /\ Running("reader") /\ at["reader"] = "tail"
  /\ Queue("reader", FinishDecoder(op), "finished")
  /\ UNCHANGED <<readerOnly, chunk, room, frame, stream>>

ReaderFails ==
  /\ Running("reader") /\ at["reader"] = "failed"
  /\ FailWith(op)
  /\ room' = 0
  /\ Continue("reader", "end", Stopped(wait))
  /\ UNCHANGED <<back, token, calls, chunk, converted, keys, stream>>

\* The end of the coroutine; bytes it had read and not yet queued are gone.
ReaderEnds ==
  /\ Running("reader") /\ at["reader"] \in {"finished", "end"}
  /\ op' = [op EXCEPT !.read_active = FALSE, !.eof = @ \/ at["reader"] = "finished"]
  /\ lost' = lost \cup Range(chunk) /\ chunk' = << >>
  /\ frame' = TRUE
  /\ Suspend("reader", "done", "none",
       [q \in Proc |-> IF wait[q] \in {"stream_changed", "transfer_ready"}
                          \/ (q = "main" /\ wait[q] = "joined" /\ at[q] # "joinWriter")
                       THEN "go" ELSE wait[q]])
  /\ UNCHANGED <<readerOnly, back, room, received, shown, taken, consumed>>

Reader == \/ QueueDecoded("reader") \/ QueuePendingRaw("reader")
          \/ ReaderTop \/ ReaderCheck \/ ReaderTarget \/ ReaderInterrupted \/ ReaderReceives
          \/ ReaderText \/ ReaderDetected \/ ReaderEnded \/ ReaderEof \/ ReaderTail
          \/ ReaderFails \/ ReaderEnds

-----------------------------------------------------------------------------
(* write_stream                                                               *)

writerOnly == <<state, back, calls, chunk, room, keys, stream>>

NothingToSend == op.outgoing = << >> \/ ~state.carrier_connected

WriterTakes ==
  /\ Running("writer") /\ at["writer"] = "take"
  /\ \/ /\ NothingToSend
        /\ Await("writer", "take", "send_ready", op.stop, wait)
        /\ UNCHANGED <<op, token, converted, frame>>
     \/ /\ ~NothingToSend
        /\ LET n == Least(Len(op.outgoing), Chunk)
           IN /\ converted' = Take(op.outgoing, n)
              /\ op' = [op EXCEPT !.write_active = TRUE, !.outgoing = Drop(@, n)]
        /\ token' = [token EXCEPT !["writer"] = state.carrier_losses]
        /\ frame' = TRUE
        /\ Continue("writer", "write", wait)
  /\ UNCHANGED <<writerOnly, room>>

\* One transport.write after the other; a cancelled token refuses the next one.
WriterWrites ==
  /\ Running("writer") /\ at["writer"] = "write"
  /\ \/ /\ converted # << >>
        /\ Await("writer", "write", "transport", Cancelled("writer"), wait)
        /\ UNCHANGED op
     \/ /\ converted = << >>
        /\ op' = [op EXCEPT !.write_active = FALSE]
        /\ Continue("writer", IF op.stop THEN "end" ELSE "take", Woken({"stream_changed"}))
  /\ UNCHANGED <<writerOnly, token, converted, frame>>

WriterCancelled ==
  /\ Thrown("writer")
  /\ converted' = << >>
  /\ IF op.stop
     THEN Continue("writer", "end", wait) /\ UNCHANGED op
     ELSE /\ op' = [op EXCEPT !.write_active = FALSE]
          /\ Continue("writer", "take", Woken({"stream_changed"}))
  /\ UNCHANGED <<writerOnly, token, frame>>

\* EIO or EPIPE closes the sending side only; another error fails the connection.
WriterFails ==
  /\ Running("writer") /\ at["writer"] = "failed"
  /\ \/ /\ op' = [op EXCEPT !.write_closed = TRUE] /\ frame' = TRUE
        /\ Continue("writer", "end", wait) /\ UNCHANGED state
     \/ FailWith(op) /\ Continue("writer", "end", Stopped(wait))
  /\ UNCHANGED <<back, token, calls, locals, keys, stream>>

WriterEnds ==
  /\ Running("writer") /\ at["writer"] = "end"
  /\ op' = [op EXCEPT !.write_active = FALSE] /\ converted' = << >>
  /\ Suspend("writer", "done", "none",
       [q \in Proc |-> IF \/ wait[q] = "stream_changed"
                          \/ q = "main" /\ wait[q] = "joined" /\ at[q] = "joinWriter"
                       THEN "go" ELSE wait[q]])
  /\ UNCHANGED <<writerOnly, token, frame>>

Writer == WriterTakes \/ WriterWrites \/ WriterCancelled \/ WriterFails \/ WriterEnds

-----------------------------------------------------------------------------
(* The calls of the runtime.                                                  *)

callOnly == <<chunk, room, converted, keys>>

Begin(c, k) ==
  /\ kind' = [kind EXCEPT ![c] = k]
  /\ token' = [token EXCEPT ![c] = state.carrier_losses]
  /\ succeeded' = [succeeded EXCEPT ![c] = FALSE]
  /\ requested' = [requested EXCEPT ![c] = FALSE]

\* The locals of a call end with it.
Forget(c) ==
  /\ kind' = [kind EXCEPT ![c] = "none"] /\ token' = [token EXCEPT ![c] = 0]
  /\ succeeded' = [succeeded EXCEPT ![c] = FALSE]
  /\ requested' = [requested EXCEPT ![c] = FALSE]

\* terminal_connection_change_encoding: converters not in use yet are replaced.
ExchangeAtStart ==
  /\ Idle /\ "encoding" \in Kinds /\ state.phase = "starting" /\ state.encoding < Exchanges
  /\ state' = [state EXCEPT !.encoding = @ + 1]
  /\ UNCHANGED <<op, coroutines, back, token, calls, locals, frame, keys, stream>>

\* In use, the reader is paused first.
ExchangeBegins(c) ==
  /\ Idle /\ "encoding" \in Kinds /\ at[c] = "none" /\ Ready /\ state.encoding < Exchanges
  /\ Begin(c, "encoding")
  /\ op' = [op EXCEPT !.pending_operations = @ + 1, !.changing_encoding = TRUE,
                      !.read_paused = TRUE]
  /\ Continue(c, "join", Interrupted(Woken({"receive_space"})))
  /\ UNCHANGED <<state, back, frame, callOnly, stream>>

\* Fault: the exchange does not wait for a read that completed.
DoesNotJoin == FALSE
ReaderBusy == op.read_active

\* Then what the old decoder has is delivered,
ExchangeJoins(c) ==
  /\ Running(c) /\ at[c] = "join" /\ kind[c] = "encoding"
  /\ IF ReaderBusy
     THEN Await(c, "join", "stream_changed", op.stop, wait) /\ UNCHANGED <<op, back>>
     ELSE IF op.stop \/ op.eof THEN Continue(c, "undo", wait) /\ UNCHANGED <<op, back>>
     ELSE Queue(c, FinishPrefix(op), "pending")
  /\ UNCHANGED <<state, token, calls, frame, callOnly, stream>>

ExchangeTail(c) ==
  /\ Running(c) /\ at[c] = "tail"
  /\ Queue(c, FinishDecoder(op), "delivered")
  /\ UNCHANGED <<state, token, calls, frame, callOnly, stream>>

ExchangeDelivered(c) ==
  /\ Running(c) /\ at[c] = "delivered"
  /\ Continue(c, IF Cancelled(c) THEN "undo" ELSE "drain", wait)
  /\ frame' = TRUE
  /\ UNCHANGED <<state, op, back, token, calls, callOnly, stream>>

\* Fault: output in the queue is not waited for.
WriterOnly == op.write_active
\* what is accepted, and what the core still offers (boxrig_session_interests).
OutputPending == op.write_active \/ op.outgoing # << >> \/ (op.session /\ core > 0)

\* drain_output, and the same loop in terminal_connection_change_encoding.
Drain(c) ==
  /\ Running(c) /\ at[c] = "drain"
  /\ \/ /\ OutputPending /\ ~op.write_closed
        /\ Await(c, "drain", "stream_changed", Cancelled(c), wait)
        /\ UNCHANGED <<state, op, frame>>
     \/ /\ OutputPending /\ op.write_closed /\ kind[c] = "encoding"
        /\ FailWith(op) /\ Continue(c, "leave", Stopped(wait))
     \/ /\ OutputPending /\ op.write_closed /\ kind[c] # "encoding"
        /\ Continue(c, "leave", wait) /\ UNCHANGED <<state, op, frame>>
     \/ /\ ~OutputPending /\ kind[c] # "encoding" /\ Cancelled(c)
        /\ Continue(c, "leave", wait) /\ UNCHANGED <<state, op, frame>>
     \/ /\ ~OutputPending /\ (kind[c] = "encoding" \/ ~Cancelled(c))
        /\ op' = [op EXCEPT !.write_paused = TRUE]
        /\ Continue(c, "work", wait) /\ UNCHANGED <<state, frame>>
  /\ UNCHANGED <<back, token, calls, callOnly, stream>>

\* then the shift sequence of the old encoder is sent, if there is one,
ExchangeWrites(c) ==
  /\ Running(c) /\ at[c] = "work" /\ kind[c] = "encoding"
  /\ \/ Await(c, "commit", "transport", Cancelled(c), wait)
     \/ Continue(c, "commit", wait)
  /\ UNCHANGED <<state, op, back, token, calls, frame, callOnly, stream>>

\* and the converters are exchanged.
ExchangeCommits(c) ==
  /\ Running(c) /\ at[c] = "commit"
  /\ IF Cancelled(c) THEN Continue(c, "undo", wait) /\ UNCHANGED <<state, op, succeeded>>
     ELSE /\ state' = [state EXCEPT !.encoding = @ + 1]
          /\ op' = [op EXCEPT !.decoder_finished = FALSE]
          /\ succeeded' = [succeeded EXCEPT ![c] = TRUE]
          /\ Continue(c, "leave", wait)
  /\ UNCHANGED <<back, token, kind, requested, frame, callOnly, stream>>

\* A carrier drop leaves the old encoding with a fresh decoder.
ExchangeUndoes(c) ==
  /\ at[c] = "undo" /\ Running(c)
  /\ op' = [op EXCEPT !.decoder_finished = @ /\ op.stop]
  /\ Continue(c, "leave", wait)
  /\ UNCHANGED <<state, back, token, calls, frame, callOnly, stream>>

\* A canceled_exception in a call.
CallCancelled(c) ==
  /\ Thrown(c)
  /\ Continue(c, IF kind[c] = "encoding" THEN "undo" ELSE "leave", wait)
  /\ Returned(c)
  /\ UNCHANGED <<state, op, token, calls, frame, callOnly, stream>>

\* terminal_connection_send_break and terminal_connection_send_text: exclusive, on
\* a drained wire.
ServiceBegins(c) ==
  /\ Idle /\ "service" \in Kinds /\ at[c] = "none" /\ Ready
  /\ Begin(c, "service")
  /\ op' = [op EXCEPT !.pending_operations = @ + 1, !.service_active = TRUE]
  /\ frame' = TRUE
  /\ Continue(c, "drain", wait)
  /\ UNCHANGED <<state, back, callOnly, stream>>

\* Each write or BREAK is a transport operation.
ServiceWorks(c) ==
  /\ Running(c) /\ at[c] = "work" /\ kind[c] = "service"
  /\ \/ Await(c, "work", "transport", Cancelled(c), wait)
        /\ UNCHANGED succeeded
     \/ succeeded' = [succeeded EXCEPT ![c] = TRUE] /\ Continue(c, "leave", wait)
  /\ UNCHANGED <<state, op, back, token, kind, requested, frame, callOnly, stream>>

\* terminal_connection_prepare_transfer, called by terminal_runtime_start_transfer
TransferReserved(c) ==
  /\ Idle /\ "transfer" \in Kinds /\ Reserve(c)
  /\ op' = Reserved(op)
  /\ at' = [at EXCEPT ![c] = "reserved"]
  /\ wait' = Interrupted(Woken({"receive_space"}))
  /\ UNCHANGED <<state, turn, back, frame, callOnly, stream>>

\* and terminal_connection_transfer, called once the user's input has stopped.
TransferBegins(c) ==
  /\ Idle /\ at[c] = "reserved"
  /\ IF Cancelled(c) \/ state.phase # "connected"
     THEN Continue(c, "leave", wait) /\ UNCHANGED frame
     ELSE Continue(c, "drain", wait) /\ frame' = TRUE
  /\ UNCHANGED <<state, op, back, token, calls, callOnly, stream>>

\* run_terminal_transfer_async sends (send_transfer_bytes),
EngineSends(c) ==
  /\ Running(c) /\ at[c] = "work" /\ kind[c] = "transfer"
  /\ Await(c, "work", "transport", Cancelled(c), wait)
  /\ UNCHANGED <<state, op, back, token, calls, frame, callOnly, stream>>

\* receives (receive_transfer_bytes) or waits for bytes,
EngineReceives(c) ==
  /\ Running(c) /\ at[c] = "work" /\ kind[c] = "transfer"
  /\ \/ /\ Cancelled(c)
        /\ Continue(c, "leave", wait) /\ UNCHANGED <<op, taken>>
     \/ /\ ~Cancelled(c) /\ ~LeftOver(op)
        /\ IF op.transport_eof THEN Continue(c, "leave", wait)
           ELSE Suspend(c, "work", "transfer_ready", wait)
        /\ UNCHANGED <<op, taken>>
     \/ /\ ~Cancelled(c) /\ op.transfer_prefetch # << >>
        /\ \E n \in 1..Len(op.transfer_prefetch) :
             /\ taken' = taken \o Take(op.transfer_prefetch, n)
             /\ op' = [op EXCEPT !.transfer_prefetch = Drop(@, n)]
        /\ Continue(c, "work", wait)
     \/ /\ ~Cancelled(c) /\ op.transfer_prefetch = << >> /\ op.transfer_incoming # << >>
        /\ \E n \in 1..Len(op.transfer_incoming) :
             /\ taken' = taken \o Take(op.transfer_incoming, n)
             /\ op' = [op EXCEPT !.transfer_incoming = Drop(@, n)]
        /\ Continue(c, "work", Woken({"receive_space"}))
  /\ UNCHANGED <<state, back, token, calls, frame, callOnly, received, shown, consumed, lost>>

\* Fault: what is returned goes behind what is still there.
Behind(bytes, rest) == rest \o bytes
InFront(bytes, rest) == bytes \o rest

\* fails, or succeeds and returns what it read ahead.
EngineEnds(c) ==
  /\ Running(c) /\ at[c] = "work" /\ kind[c] = "transfer"
  /\ \/ UNCHANGED <<op, taken, succeeded>>
     \/ \E n \in 0..Least(Len(taken), 1) :
          /\ op' = [op EXCEPT !.transfer_prefetch = InFront(Drop(taken, Len(taken) - n), @)]
          /\ taken' = Take(taken, Len(taken) - n)
          /\ succeeded' = [succeeded EXCEPT ![c] = TRUE]
  /\ Continue(c, "leave", wait)
  /\ UNCHANGED <<state, back, token, kind, requested, frame, callOnly, received, shown, consumed, lost>>

\* The end of a transfer takes the reader to its boundary
TransferLeaves(c) ==
  /\ Running(c) /\ at[c] = "leave" /\ kind[c] = "transfer"
  /\ op' = [op EXCEPT !.read_paused = TRUE]
  /\ Continue(c, "rejoin", Interrupted(Woken({"receive_space"})))
  /\ UNCHANGED <<state, back, token, calls, frame, callOnly, stream>>

\* and gives the stream back.  Only a success returns what is left.
TransferRejoins(c) ==
  /\ Running(c) /\ at[c] = "rejoin"
  /\ IF ReaderBusy
     THEN Suspend(c, "rejoin", "stream_changed", wait)
          /\ UNCHANGED <<op, frame, taken, consumed, lost>>
     ELSE /\ op' = [op EXCEPT
               !.transfer_incoming = IF succeeded[c] THEN @ ELSE << >>,
               !.transfer_prefetch = IF succeeded[c] THEN @ ELSE << >>,
               !.transfer_prepared = FALSE, !.service_active = FALSE,
               !.write_paused = FALSE, !.read_paused = FALSE, !.pending_operations = @ - 1]
          /\ lost' = IF succeeded[c] THEN lost
                     ELSE lost \cup Range(op.transfer_incoming) \cup Range(op.transfer_prefetch)
          /\ consumed' = consumed \cup Range(taken) /\ taken' = << >>
          /\ frame' = TRUE
          /\ Suspend(c, "none", "none", Woken({"read_resumed", "drained"}))
  /\ IF ReaderBusy THEN UNCHANGED <<token, calls>> ELSE Forget(c)
  /\ UNCHANGED <<state, back, callOnly, received, shown>>

\* terminal_connection_resize
ResizeBegins(c) ==
  /\ Idle /\ "resize" \in Kinds /\ at[c] = "none" /\ op.session /\ ~op.finishing
  /\ Begin(c, "resize")
  /\ op' = [op EXCEPT !.pending_operations = @ + 1]
  /\ Await(c, "leave", "transport", op.stop, wait)
  /\ UNCHANGED <<state, back, frame, callOnly, stream>>

\* An error of the transport: an exchange or a resize fails the connection.
CallFails(c) ==
  /\ Running(c) /\ at[c] = "failed"
  /\ \/ /\ kind[c] \in {"encoding", "resize"}
        /\ FailWith(op) /\ Continue(c, "leave", Stopped(wait))
     \/ /\ kind[c] \in {"service", "transfer"}
        /\ Continue(c, "leave", wait) /\ UNCHANGED <<state, op, frame>>
  /\ UNCHANGED <<back, token, calls, callOnly, stream>>

CountedOff(n) == n - 1

AsksAgain(c) == frame \/ kind[c] # "resize"

\* The end of an exchange, of a service and of a resize.
CallLeaves(c) ==
  /\ Running(c) /\ at[c] = "leave" /\ kind[c] # "transfer"
  /\ op' = [op EXCEPT
       !.changing_encoding = @ /\ kind[c] # "encoding",
       !.service_active = @ /\ kind[c] # "service",
       !.write_paused = @ /\ kind[c] = "resize",
       !.read_paused = @ /\ kind[c] # "encoding",
       !.pending_operations = CountedOff(@)]
  /\ frame' = AsksAgain(c)
  /\ Suspend(c, "none", "none",
             Woken({"drained"} \cup IF kind[c] = "encoding" THEN {"read_resumed"} ELSE {}))
  /\ Forget(c)
  /\ UNCHANGED <<state, back, callOnly, stream>>

\* The user cancels a text or a transfer.
RequestCancel(c) ==
  /\ Idle /\ "cancel" \in Events /\ at[c] # "none" /\ kind[c] \in {"service", "transfer"} /\ ~requested[c]
  /\ requested' = [requested EXCEPT ![c] = TRUE]
  /\ wait' = [wait EXCEPT ![c] = IF @ \in Conditions /\ at[c] # "rejoin" THEN "cancel" ELSE @]
  /\ UNCHANGED <<state, op, turn, at, back, token, kind, succeeded, locals, frame, keys, stream>>

Begins(c) == \/ ExchangeBegins(c) \/ ServiceBegins(c) \/ ResizeBegins(c)
             \/ TransferReserved(c)
Proceeds(c) == \/ QueueDecoded(c) \/ QueuePendingRaw(c)
               \/ ExchangeJoins(c) \/ ExchangeTail(c) \/ ExchangeDelivered(c)
               \/ ExchangeWrites(c) \/ ExchangeCommits(c) \/ ExchangeUndoes(c)
               \/ Drain(c) \/ CallCancelled(c) \/ CallFails(c) \/ CallLeaves(c)
               \/ ServiceWorks(c) \/ TransferBegins(c) \/ EngineSends(c)
               \/ EngineReceives(c) \/ EngineEnds(c) \/ TransferLeaves(c) \/ TransferRejoins(c)

-----------------------------------------------------------------------------
(* run_transport and finish_stream.                                           *)

mainOnly == <<back, token, calls, locals, stream>>

\* terminal_connection_start_transport and prepare_connection
Start ==
  /\ Idle /\ state.phase = "idle"
  /\ state' = [state EXCEPT !.phase = "starting"]
  /\ op' = NewOperation /\ core' = 0 /\ frame' = TRUE
  /\ Suspend("main", "open", "transport", wait)
  /\ UNCHANGED <<mainOnly, typed>>

\* The channel is open: the session, the reader and the writer begin.
MainOpened ==
  /\ Running("main") /\ at["main"] = "open"
  /\ IF op.stop THEN Continue("main", "ending", wait) /\ UNCHANGED <<state, op, frame>>
     ELSE /\ state' = [state EXCEPT !.phase = "connected"]
          /\ op' = [op EXCEPT !.session = TRUE]
          /\ frame' = TRUE
          /\ at' = [at EXCEPT !["main"] = "serve", !["reader"] = "top", !["writer"] = "take"]
          /\ wait' = [wait EXCEPT !["main"] = "joined", !["reader"] = "go", !["writer"] = "go"]
          /\ turn' = "nobody"
  /\ UNCHANGED <<mainOnly, keys>>

\* The reader is joined; then the core must have taken everything.
MainServes ==
  /\ Running("main") /\ at["main"] \in {"serve", "tail"}
  /\ IF op.peer_closed THEN Continue("main", "ending", wait)
     ELSE Await("main", "tail", "drained", op.stop, wait)
  /\ UNCHANGED <<state, op, frame, mainOnly, keys>>

\* A canceled_exception, or open failed.
MainThrown ==
  /\ \/ Thrown("main") /\ UNCHANGED state
     \/ /\ Running("main") /\ at["main"] = "failed"
        /\ state' = [state EXCEPT !.error = TRUE]
  /\ Continue("main", "ending", wait)
  /\ UNCHANGED <<op, frame, mainOnly, keys>>

MainEnds ==
  /\ Running("main") /\ at["main"] = "ending"
  /\ op' = [op EXCEPT !.stop = TRUE]
  /\ Continue("main", "joinReader", Stopped(wait))
  /\ UNCHANGED <<state, frame, mainOnly, keys>>

JoinsOperations == op.pending_operations = 0

MainJoins ==
  /\ Running("main")
  /\ \/ /\ at["main"] = "joinReader"
        /\ IF at["reader"] \in {"none", "done"} THEN Continue("main", "joinWriter", wait)
           ELSE Suspend("main", "joinReader", "joined", wait)
     \/ /\ at["main"] = "joinWriter"
        /\ IF at["writer"] \in {"none", "done"} THEN Continue("main", "joinPending", wait)
           ELSE Suspend("main", "joinWriter", "joined", wait)
     \/ /\ at["main"] = "joinPending"
        /\ IF JoinsOperations THEN Continue("main", "finish", wait)
           ELSE Suspend("main", "joinPending", "drained", wait)
  /\ UNCHANGED <<state, op, frame, mainOnly, keys>>

\* finish_stream decodes everything that is left, behind what was decoded.
FinishStream ==
  /\ Running("main") /\ at["main"] = "finish"
  /\ LET raw == op.held \o op.tail \o op.transfer_prefetch \o op.transfer_incoming
     IN op' = [op EXCEPT !.decoded = @ \o raw, !.held = << >>, !.tail = << >>,
                         !.transfer_prefetch = << >>, !.transfer_incoming = << >>,
                         !.decoder_finished = TRUE, !.finishing = TRUE, !.eof = TRUE]
  /\ frame' = TRUE
  /\ Continue("main", IF op.session THEN "finishPeer" ELSE "finishInput", wait)
  /\ UNCHANGED <<state, mainOnly, keys>>

Delivered == op.peer_closed

FinishPeer ==
  /\ Running("main") /\ at["main"] = "finishPeer"
  /\ IF Delivered THEN Continue("main", "finishInput", wait)
     ELSE Suspend("main", "finishPeer", "drained", wait)
  /\ UNCHANGED <<state, op, frame, mainOnly, keys>>

\* finish_input empties the core's output first; the core may have to be asked a
\* second time, by a dispatch.
FinishInput ==
  /\ Running("main") /\ at["main"] = "finishInput"
  /\ core' = 0
  /\ \/ /\ op.finishing /\ frame' = TRUE
        /\ Suspend("main", "finishInput", "drained", wait) /\ UNCHANGED op
     \/ /\ op' = [op EXCEPT !.finishing = FALSE, !.session = FALSE]
        /\ Suspend("main", "close", IF at["reader"] = "none" THEN "go" ELSE "transport",
                   Woken({"drained"}))
        /\ UNCHANGED frame
  /\ UNCHANGED <<state, mainOnly, typed>>

MainCloses ==
  /\ Running("main") /\ at["main"] = "close"
  /\ state' = [state EXCEPT !.phase = "closed"]
  /\ frame' = TRUE
  /\ Suspend("main", "closed", "none", wait)
  /\ UNCHANGED <<op, mainOnly, keys>>

Main == \/ MainOpened \/ MainServes \/ MainThrown \/ MainEnds \/ MainJoins
        \/ FinishStream \/ FinishPeer \/ FinishInput \/ MainCloses

-----------------------------------------------------------------------------
(* terminal_connection_dispatch, and the callbacks of the session.            *)

\* send(): accepts output, or drops it when it must not be sent later.
DropsOutput == op.finishing \/ ~state.carrier_connected
AcceptsOutput == ~op.write_closed /\ ~op.write_paused
Accepted == IF AcceptsOutput THEN Least(core, Room(op.outgoing)) ELSE 0
Stamp == [carrier |-> state.carrier_losses, encoding |-> state.encoding]

Sends(o) ==
  IF DropsOutput THEN core' = 0 /\ op' = o
  ELSE /\ core' = core - Accepted
       /\ op' = [o EXCEPT !.outgoing = @ \o [i \in 1..Accepted |-> Stamp]]

\* receive(): the core takes some bytes of the queue; then what a cancelled reader
\* kept; then the end.
Dispatch ==
  /\ Idle /\ frame /\ op.session
  /\ ~(op.finishing /\ op.peer_closed) /\ ~(state.phase = "stopping" /\ ~op.finishing)
  /\ LET sent == core > 0 /\ (DropsOutput \/ Accepted > 0)
         wakes == {"stream_changed"} \cup IF sent /\ ~DropsOutput THEN {"send_ready"} ELSE {}
     IN \/ /\ op.receive_delivery_enabled /\ op.incoming # << >>
           /\ \E n \in 1..Len(op.incoming) :
                /\ shown' = shown \o Take(op.incoming, n)
                /\ Sends([op EXCEPT !.incoming = Drop(@, n)])
           /\ frame' = TRUE
           /\ wait' = Woken(wakes \cup {"receive_space"})
        \/ /\ op.receive_delivery_enabled /\ op.incoming = << >>
           /\ op.finishing /\ op.decoded # << >>
           /\ shown' = shown \o op.decoded
           /\ Sends([op EXCEPT !.decoded = << >>])
           /\ frame' = TRUE /\ wait' = Woken(wakes)
        \/ /\ op.receive_delivery_enabled /\ op.incoming = << >>
           /\ ~(op.finishing /\ op.decoded # << >>) /\ op.eof
           /\ Sends([op EXCEPT !.peer_closed = TRUE])
           /\ frame' = sent /\ wait' = Woken(wakes \cup {"drained"}) /\ UNCHANGED shown
        \/ /\ ~op.receive_delivery_enabled \/ (op.incoming = << >> /\ ~op.eof)
           /\ Sends(op)
           /\ frame' = sent /\ wait' = Woken(wakes) /\ UNCHANGED shown
  /\ UNCHANGED <<state, turn, at, back, token, calls, locals, typed,
                 received, taken, consumed, lost>>

\* The dispatches without a session to advance.
DispatchNothing ==
  /\ Idle /\ frame
  /\ \/ /\ op.finishing /\ (~op.session \/ op.peer_closed)     \* finish_input
        /\ core' = 0 /\ frame' = FALSE
        /\ op' = [op EXCEPT !.finishing = FALSE] /\ wait' = Woken({"drained"})
     \/ /\ ~op.finishing /\ ~op.session
        /\ core' = 0 /\ frame' = (core > 0) /\ UNCHANGED <<op, wait>>
     \/ /\ ~op.finishing /\ op.session /\ state.phase = "stopping"
        /\ frame' = FALSE /\ UNCHANGED <<op, core, wait>>
  /\ UNCHANGED <<state, turn, at, mainOnly, typed>>

-----------------------------------------------------------------------------
(* The user, the peer and the transport.                                      *)

outside == <<back, token, calls, chunk, room, stream>>

\* Fault: withheld text stays withheld.
StillWithheld(o) == o
Released(o) == [o EXCEPT !.receive_delivery_enabled = TRUE]

\* terminal_connection_stop
Stop ==
  /\ Idle /\ "stop" \in Events
  /\ state.phase \in {"starting", "connected", "stopping"} /\ ~state.cancelled
  /\ state' = [state EXCEPT !.cancelled = TRUE, !.phase = "stopping"]
  /\ op' = [Released(op) EXCEPT !.stop = TRUE]
  /\ wait' = Stopped(wait) /\ frame' = TRUE
  /\ UNCHANGED <<turn, at, outside, converted, keys>>

\* The core has output: a key or a reply.
Type ==
  /\ Idle /\ typed < Typed /\ state.phase # "idle"
  /\ typed' = typed + 1 /\ core' = core + 1 /\ frame' = TRUE
  /\ UNCHANGED <<state, op, coroutines, outside, converted>>

\* The runtime withholds received text while macros look at it.
SetReceiveDelivery ==
  /\ Idle /\ op.session
  /\ op.receive_delivery_enabled => "delivery" \in Events /\ ~state.cancelled
  /\ op' = [op EXCEPT !.receive_delivery_enabled = ~@] /\ frame' = TRUE
  /\ UNCHANGED <<state, coroutines, outside, converted, keys>>

\* terminal_connection_set_zmodem_auto_start with an empty callback
DisableAutoStart ==
  /\ Idle /\ op.auto_start /\ state.phase # "idle"
  /\ op' = [op EXCEPT !.auto_start = FALSE, !.read_policy_changed = TRUE]
  /\ wait' = Interrupted(Woken({"receive_space"}))
  /\ UNCHANGED <<state, turn, at, outside, converted, frame, keys>>

\* watch_carrier: a drop cancels what was being sent and drops what is to be sent.
DropsQueued(o) == [o EXCEPT !.outgoing = << >>]

CarrierDrops ==
  /\ Idle /\ op.session /\ ~op.stop
  /\ state.carrier_connected /\ state.carrier_losses < Losses
  /\ state' = [state EXCEPT !.carrier_connected = FALSE, !.carrier_losses = @ + 1]
  /\ op' = DropsQueued(op) /\ core' = 0 /\ frame' = TRUE
  /\ wait' = [q \in Proc |->
        IF /\ wait[q] \in Conditions
           /\ \/ q = "writer" /\ at[q] = "write"
              \/ q \in Callers /\ \/ at[q] \in {"drain", "work"}
                                  \/ at[q] = "commit"
        THEN "cancel" ELSE IF wait[q] = "send_ready" THEN "go" ELSE wait[q]]
  /\ UNCHANGED <<turn, at, outside, converted, typed>>

CarrierReturns ==
  /\ Idle /\ op.session /\ ~op.stop /\ ~state.carrier_connected
  /\ state' = [state EXCEPT !.carrier_connected = TRUE]
  /\ wait' = Woken({"send_ready"}) /\ frame' = TRUE
  /\ UNCHANGED <<op, turn, at, outside, converted, keys>>

\* A read completes with bytes or, after the last one, with none.
ReadCompletes ==
  /\ Idle /\ at["reader"] = "read" /\ wait["reader"] = "transport"
  /\ \E n \in 0..Least(room, Input - received) :
       /\ n = 0 => received = Input
       /\ chunk' = [i \in 1..n |-> received + i]
       /\ received' = received + n
  /\ wait' = [wait EXCEPT !["reader"] = "go"]
  /\ UNCHANGED <<state, op, turn, at, back, token, calls, room, converted, frame, keys,
                 shown, taken, consumed, lost>>

\* Another transport operation completes (a write sends what it was given), or fails.
TransportAnswers(p) ==
  /\ Idle /\ wait[p] = "transport"
  /\ wait' = [wait EXCEPT ![p] = "go"]
  /\ \/ /\ at[p] # "read"
        /\ IF p = "writer"
           THEN \E n \in 1..Len(converted) : converted' = Drop(converted, n)
           ELSE UNCHANGED converted
        /\ UNCHANGED at
     \/ /\ "failure" \in Events /\ at[p] # "close"
        /\ at' = [at EXCEPT ![p] = "failed"] /\ UNCHANGED converted
  /\ UNCHANGED <<state, op, turn, outside, frame, keys>>

\* A receive of the transfer engine times out; the engine tries again or gives up.
ReceiveTimeout(c) ==
  /\ Idle /\ wait[c] = "transfer_ready"
  /\ wait' = [wait EXCEPT ![c] = "go"]
  /\ UNCHANGED <<state, op, turn, at, outside, converted, frame, keys>>

Outside == \/ Start \/ Stop \/ Type \/ SetReceiveDelivery \/ DisableAutoStart
           \/ CarrierDrops \/ CarrierReturns \/ ReadCompletes \/ ExchangeAtStart
           \/ \E p \in Proc : TransportAnswers(p)
           \/ \E c \in Callers : ReceiveTimeout(c)

\* Nothing is left to do for a closed connection.
Closed == /\ Idle /\ state.phase = "closed" /\ ~frame /\ \A c \in Callers : at[c] = "none"
          /\ UNCHANGED vars

Next == \/ Main \/ Reader \/ Writer
        \/ \E c \in Callers : Begins(c) \/ Proceeds(c) \/ RequestCancel(c)
        \/ Dispatch \/ DispatchNothing \/ Outside \/ Closed

Spec == Init /\ [][Next]_vars

\* The dispatcher runs every coroutine that is ready (and the runtime starts a transfer
\* that it reserved), wake() leads to a frame, and a channel that is opened or closed
\* answers.  No read, write, delivery or call has to come.
Fairness ==
  /\ SF_vars(Main) /\ SF_vars(Reader) /\ SF_vars(Writer)
  /\ \A c \in Callers : SF_vars(Proceeds(c))
  /\ SF_vars(Dispatch \/ DispatchNothing) /\ SF_vars(TransportAnswers("main"))

FairSpec == Spec /\ Fairness

-----------------------------------------------------------------------------
Bytes == Seq(1..Input)
Places == {"none", "open", "serve", "tail", "ending", "joinReader", "joinWriter", "joinPending",
           "finish", "finishPeer", "finishInput", "close", "closed", "top", "check", "target",
           "read", "queue", "room", "pending", "detected", "text", "eof", "finished", "end",
           "done", "failed", "take", "write", "join", "delivered", "drain", "work", "commit",
           "undo", "leave", "reserved", "rejoin"}

\* Every variable keeps its type and no queue outgrows its ring
\* (append() of terminal-connection.cpp:50-56 does not look).
TypeOK ==
  /\ state.phase \in {"idle", "starting", "connected", "stopping", "closed"}
  /\ state.cancelled \in BOOLEAN /\ state.error \in BOOLEAN
  /\ state.carrier_connected \in BOOLEAN /\ state.carrier_losses \in 0..Losses
  /\ state.encoding \in 0..Exchanges
  /\ \A f \in {"incoming", "transfer_incoming", "transfer_prefetch", "tail", "held", "decoded"} :
        op[f] \in Bytes
  /\ \A f \in {"incoming", "outgoing", "transfer_incoming"} : Len(op[f]) <= Capacity
  /\ op.pending_operations \in 0..Cardinality(Callers)
  /\ turn \in {"nobody"} \cup Proc /\ at \in [Proc -> Places] /\ back \in [Proc -> Places]
  /\ wait \in [Proc -> Conditions \cup {"none", "go", "cancel"}]
  /\ token \in [Proc -> 0..Losses] /\ kind \in [Callers -> {"none"} \cup Kinds]
  /\ succeeded \in [Callers -> BOOLEAN] /\ requested \in [Callers -> BOOLEAN]
  /\ chunk \in Bytes /\ room \in 0..Capacity /\ Len(converted) <= Chunk
  /\ frame \in BOOLEAN /\ core \in 0..Typed /\ typed \in 0..Typed
  /\ received \in 0..Input /\ shown \in Bytes /\ taken \in Bytes
  /\ consumed \subseteq 1..Input /\ lost \subseteq 1..Input

\* All that was read and not given up, from the core back to the last read.
Kept == shown \o op.incoming \o op.decoded \o op.held \o op.tail \o taken
          \o op.transfer_prefetch \o op.transfer_incoming \o chunk
Missing == (1..received) \ (Range(Kept) \cup consumed \cup lost)

\* Behind end of file the reader queues what is left but is not read_active any more (339):
\* an exchange that begins then does not join it (873), and both fill operation.decoded (194).
Queuing == {"queue", "room", "pending", "tail"}
Overlap ==
  /\ op.transport_eof /\ at["reader"] \in Queuing
  /\ \E c \in Callers : kind[c] = "encoding" /\ at[c] \in Queuing

\* No byte is in two places.
Accounted == Len(Kept) + Cardinality(consumed \cup lost) + Cardinality(Missing) = received
\* No step loses a byte between the queues, the decoder, the detector and a transfer, except
\* one after which an exchange queues together with a reader behind end of file.
LosesNone == Missing' \subseteq Missing \/ Overlap'

\* A reader that waited for room in transfer_incoming is not read_active: the transfer ends
\* without it (1155-1172), and it reads on behind its look for leftovers (271-283).
PassesLeftOver ==
  /\ at["reader"] \in {"read", "text"} /\ chunk # << >>
  /\ ~op.transfer_prepared /\ LeftOver(op)
\* What was read stays in the order of the stream on its whole way to the core: through a
\* header that is held back, an exchange of the encoding, and a transfer that returns its
\* read-ahead.  Only a reader that passes what a transfer left can break it.
KeepsOrder ==
  LET ordered == \A i \in 1..(Len(Kept) - 1) : Kept[i] < Kept[i + 1]
  IN ordered => ordered' \/ PassesLeftOver

\* When the connection is closed, all that was received and not given up has been shown
\* or has gone to a transfer, also what a cancelled reader or a transfer had left; what
\* LosesNone lets go is the exception.
ClosedDelivers ==
  state.phase = "closed" =>
    /\ Range(shown) \cup consumed \cup lost \cup Missing = 1..received
    /\ ~state.cancelled /\ ~state.error /\ "transfer" \notin Kinds => lost = {}

InFlight(c) == at[c] # "none" /\ kind[c] # "resize"

\* At most one of exchange, BREAK, text and transfer at a time, and while it has the
\* wire the writer does not write: two writes would mix on the transport.
OneSender ==
  /\ \A c, d \in Callers : InFlight(c) /\ InFlight(d) => c = d
  /\ \A c \in Callers : InFlight(c) /\ wait[c] = "transport" => wait["writer"] # "transport"

\* A trigger wakes one waiter: no two coroutines ever wait for the same condition, but for
\* a reader behind end of file and the exchange that did not join it (Overlap).
OneWaiter ==
  \A p, q \in Proc :
    wait[p] = wait[q] /\ wait[p] \in Conditions \ {"transport"} => p = q \/ Overlap

\* Output is sent under the carrier and in the encoding it was accepted under:
\* nothing from before a carrier drop goes out after it (terminal-connection.cpp:634-646).
Fenced ==
  LET sent == IF wait["writer"] = "transport" THEN converted ELSE << >>
  IN \A e \in Range(op.outgoing \o sent) :
       e = [carrier |-> state.carrier_losses, encoding |-> state.encoding]

\* Work for a dispatch has a dispatch on its way: nobody else would ask for it.
NoLostFrame ==
  Idle /\ op.session /\ ~(state.phase = "stopping" /\ ~op.finishing) =>
    /\ op.receive_delivery_enabled /\ ~op.peer_closed
         /\ (op.incoming # << >> \/ op.eof) => frame
    /\ core > 0 /\ (DropsOutput \/ Accepted > 0) => frame

\* "Cancel and join reads, writes and resizes before calling close"
\* (terminal-transport.h:24): a cancelled operation, too, must have come back.  A resize
\* is joined where finish_stream, which refuses the next one, begins.
TransportJoined ==
  /\ at["main"] = "finish" => \A c \in Callers : at[c] = "none"
  /\ at["main"] \in {"finish", "close", "closed"} =>
       /\ at["reader"] \in {"none", "done"} /\ at["writer"] \in {"none", "done"}
       /\ \A c \in Callers : at[c] # "commit"

\* Disconnecting ends: whatever the peer, a call or withheld text does, a connection that
\* was told to stop is closed in the end (terminal_connection_wait_stopped returns).
StopCloses == state.cancelled ~> state.phase = "closed"
=============================================================================
