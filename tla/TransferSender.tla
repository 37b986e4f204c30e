--------------------------- MODULE TransferSender ---------------------------
(***************************************************************************)
(* A file sent by YMODEM or ZMODEM: the source and the link that               *)
(* terminal-transfer-runner.cpp gives to libxyzm (external), with the buffers   *)
(* terminal-transfer-source-buffer.h and terminal-transfer-send-buffer.h and    *)
(* the end of run_terminal_transfer_async.                                    *)
(*                                                                         *)
(* A byte of the file is its position; EOT and CAN are the bytes the protocol   *)
(* puts behind them.  Framing is left out: a frame is the bytes it carries.     *)
(* An action is the code from one await to the next.  Time passes only inside   *)
(* the sends of the transport, each of which obeys the timeout it is given.     *)
(***************************************************************************)
EXTENDS Naturals, Sequences

CONSTANTS Size,         \* bytes of the file
          SourceSize,   \* bytes the source buffer holds (64 KiB)
          SendCapacity,     \* bytes the send buffer holds (64 KiB)
          FrameSize,    \* bytes the protocol asks for at once
          Timeout,      \* time the protocol grants to one frame
          MaxBudget,    \* 2^32 - 1 ms
          MaxRepeats    \* bound: frames refused or positions sent for again

ASSUME SenderAssumption ==
  /\ Size \in Nat /\ SourceSize \in Nat \ {0} /\ SendCapacity \in Nat \ {0}
  /\ FrameSize \in Nat \ {0} /\ Timeout \in Nat /\ MaxBudget \in Nat /\ MaxRepeats \in Nat

VARIABLES
  protocol,                       \* "ymodem", "ymodem-g" or "zmodem"
  stream_pos, prefetch, eof,      \* the file, and read_buffer
  at,                             \* the protocol's own offset in the file
  frame, offered,                 \* bytes of the frame to send, and all of it
  storage, budget, bypass,        \* the send buffer
  sent, elapsed, after,           \* a flush: bytes sent, time used, where it returns
  accepted, wire,                 \* bytes taken from the protocol, and by the transport
  send_pc, send_error, send_canceled, repeats

source == <<stream_pos, prefetch, eof, at>>
batching == <<storage, budget, bypass>>
flush == <<sent, elapsed, after>>
sender == <<protocol, source, frame, offered, batching, flush, accepted, wire,
          send_pc, send_error, send_canceled, repeats>>

EOT == Size + 1
CAN == 0
Least(a, b) == IF a < b THEN a ELSE b
From(p, n) == [i \in 1..n |-> p + i]

SendTypeOK ==
  /\ protocol \in {"ymodem", "ymodem-g", "zmodem"}
  /\ stream_pos \in 0..Size /\ at \in 0..Size /\ eof \in BOOLEAN
  /\ prefetch \in Seq(1..Size) /\ Len(prefetch) <= SourceSize
  /\ frame \in Seq(0..EOT) /\ offered \in Seq(0..EOT)
  /\ storage \in Seq(0..EOT) /\ Len(storage) <= SendCapacity /\ budget \in 0..MaxBudget
  /\ bypass \in BOOLEAN /\ sent \in 0..SendCapacity /\ elapsed \in 0..MaxBudget
  /\ after \in {"none", "send", "recv", "done", "over"}
  /\ accepted \in Seq(0..EOT) /\ wire \in Seq(0..EOT)
  /\ send_pc \in {"read", "send", "flush", "recv", "done", "failing", "closing", "over"}
  /\ send_error \in {"none", "engine", "transport", "canceled"} /\ send_canceled \in BOOLEAN
  /\ repeats \in 0..MaxRepeats

Buffered == protocol # "zmodem"

-----------------------------------------------------------------------------
(* TerminalTransferSendBuffer.                                              *)

Abort == storage' = << >> /\ budget' = 0 /\ bypass' = TRUE

\* What the deadline still grants to the next send of a flush.
Remaining == budget - elapsed

\* Where an error of the buffer takes its caller: the protocol fails, the last
\* flush fails the transfer, the flush behind a failure is best effort.
Raises(why) ==
  IF after = "over" THEN send_pc' = "over" /\ UNCHANGED send_error
  ELSE /\ send_pc' = IF after = "done" \/ send_error # "none" THEN "closing" ELSE "failing"
       /\ send_error' = IF send_error = "none" THEN why ELSE send_error

FlushBegins(return) ==
  /\ sent' = 0 /\ elapsed' = 0
  /\ IF bypass \/ storage = << >> THEN send_pc' = return /\ after' = "none"
                                  ELSE send_pc' = "flush" /\ after' = return

\* transport->send took n bytes of the batch in the time d.
FlushWrites(n, d) ==
  /\ send_pc = "flush" /\ ~send_canceled /\ elapsed < budget
  /\ d <= Remaining /\ n <= Len(storage) - sent
  /\ wire' = wire \o SubSeq(storage, sent + 1, sent + n)
  /\ elapsed' = elapsed + d
  /\ IF sent + n < Len(storage)
       THEN sent' = sent + n /\ UNCHANGED <<batching, after, send_pc>>
       ELSE /\ storage' = << >> /\ budget' = 0 /\ sent' = 0 /\ after' = "none"
            /\ send_pc' = after /\ UNCHANGED bypass
  /\ UNCHANGED <<protocol, source, frame, offered, accepted, send_error, send_canceled, repeats>>

DropsBatch == Abort

\* The deadline, the transport (after some bytes) or the cancellation ends it.
BatchFails ==
  /\ send_pc = "flush"
  /\ \E k \in 0..(Len(storage) - sent) :
       wire' = wire \o SubSeq(storage, sent + 1, sent + k)
  /\ DropsBatch /\ sent' = 0 /\ after' = "none"
  /\ Raises(IF send_canceled THEN "canceled" ELSE "transport")
  /\ UNCHANGED <<protocol, source, frame, offered, elapsed, accepted, send_canceled, repeats>>

Fits(n) == Least(n, SendCapacity - Len(storage))

Full == Len(storage') = SendCapacity

\* send_async into the buffer: a part of the frame that fits, and a full batch is
\* written before more is taken.
BufferFrame ==
  /\ send_pc = "send" /\ frame # << >> /\ Buffered /\ ~bypass /\ ~send_canceled
  /\ LET count == Fits(Len(frame))
         share == (Timeout * count + Len(frame) - 1) \div Len(frame)
     IN /\ storage' = storage \o SubSeq(frame, 1, count)
        /\ accepted' = accepted \o SubSeq(frame, 1, count)
        /\ frame' = SubSeq(frame, count + 1, Len(frame))
        /\ budget' = Least(budget + share, MaxBudget)
        /\ sent' = 0 /\ elapsed' = 0
        /\ IF Full THEN send_pc' = "flush" /\ after' = "send"
                                       ELSE UNCHANGED <<send_pc, after>>
  /\ UNCHANGED <<protocol, source, offered, bypass, wire, send_error, send_canceled, repeats>>

\* Without the buffer, or after abort: the transport takes a part of the frame.
DirectSend(n) ==
  /\ send_pc = "send" /\ frame # << >> /\ (~Buffered \/ bypass) /\ ~send_canceled
  /\ n <= Len(frame)
  /\ wire' = wire \o SubSeq(frame, 1, n) /\ accepted' = accepted \o SubSeq(frame, 1, n)
  /\ frame' = SubSeq(frame, n + 1, Len(frame))
  /\ UNCHANGED <<protocol, source, offered, batching, flush, send_pc, send_error, send_canceled, repeats>>

\* send_async throws: the transport failed, or the transfer is cancelled.
SendFails ==
  /\ send_pc = "send" /\ frame # << >>
  /\ \/ send_canceled
     \/ ~Buffered \/ bypass
  /\ IF Buffered THEN Abort ELSE UNCHANGED batching
  /\ send_pc' = IF send_error = "none" THEN "failing" ELSE "closing"
  /\ send_error' = IF send_error # "none" THEN send_error
                   ELSE IF send_canceled THEN "canceled" ELSE "transport"
  /\ frame' = << >>
  /\ UNCHANGED <<protocol, source, offered, flush, accepted, wire, send_canceled, repeats>>

-----------------------------------------------------------------------------
(* The source (TerminalTransferSourceBuffer).                               *)

\* read_async refills only when nothing is left and the end is not known.
Refills == prefetch = << >> /\ ~eof
Available(fill) == IF Refills THEN From(stream_pos, fill) ELSE prefetch

\* source.read: what is prefetched, after a refill when nothing is; the end of
\* the file is remembered.  The protocol sends EOT behind the last byte.
ReadFrame ==
  /\ send_pc = "read" /\ ~send_canceled
  /\ \E fill \in 0..Least(SourceSize, Size - stream_pos) :
       LET have == Available(fill)
           count == Least(FrameSize, Len(have))
       IN /\ fill = 0 => ~Refills \/ stream_pos = Size
          /\ ~Refills => fill = 0
          /\ stream_pos' = stream_pos + fill
          /\ eof' = (eof \/ (Refills /\ fill = 0))
          /\ prefetch' = SubSeq(have, count + 1, Len(have))
          /\ frame' = IF count > 0 THEN SubSeq(have, 1, count) ELSE <<EOT>>
          /\ at' = at + count
  /\ offered' = frame' /\ send_pc' = "send"
  /\ UNCHANGED <<protocol, batching, flush, accepted, wire, send_error, send_canceled, repeats>>

\* Fault: a seek leaves the prefetched bytes.
KeepsPrefetch == UNCHANGED <<prefetch, eof>>
DropsPrefetch == prefetch' = << >> /\ eof' = FALSE

-----------------------------------------------------------------------------
(* The protocol.                                                           *)

\* link.recv with a timeout: every preceding byte goes out first.
DrainsFirst == FlushBegins("recv")

Expects == protocol = "ymodem" \/ offered = <<EOT>>

\* The frame is accepted: YMODEM waits for its answer, YMODEM-g and ZMODEM stream.
AwaitAnswer ==
  /\ send_pc = "send" /\ frame = << >> /\ send_error = "none" /\ ~send_canceled
  /\ Expects \/ protocol = "zmodem"
  /\ IF Buffered THEN DrainsFirst ELSE send_pc' = "recv" /\ UNCHANGED flush
  /\ UNCHANGED <<protocol, source, frame, offered, batching, accepted, wire, send_error,
                 send_canceled, repeats>>

Stream ==
  /\ send_pc = "send" /\ frame = << >> /\ send_error = "none" /\ ~Expects /\ send_pc' = "read"
  /\ UNCHANGED <<protocol, source, frame, offered, batching, flush, accepted, wire, send_error,
                 send_canceled, repeats>>

Acknowledged ==
  /\ send_pc = "recv" /\ ~send_canceled
  /\ IF offered = <<EOT>> THEN FlushBegins("done") ELSE send_pc' = "read" /\ UNCHANGED flush
  /\ UNCHANGED <<protocol, source, frame, offered, batching, accepted, wire, send_error,
                 send_canceled, repeats>>

\* A frame of YMODEM is refused and sent again.
Refused ==
  /\ send_pc = "recv" /\ protocol # "zmodem" /\ ~send_canceled
  /\ repeats < MaxRepeats /\ repeats' = repeats + 1
  /\ frame' = offered /\ send_pc' = "send"
  /\ UNCHANGED <<protocol, source, offered, batching, flush, accepted, wire, send_error, send_canceled>>

\* The receiver of ZMODEM asks for another position (source.seek).
Seek(offset) ==
  /\ send_pc = "recv" /\ protocol = "zmodem" /\ ~send_canceled
  /\ repeats < MaxRepeats /\ repeats' = repeats + 1
  /\ stream_pos' = offset /\ at' = offset /\ DropsPrefetch /\ send_pc' = "read"
  /\ UNCHANGED <<protocol, frame, offered, batching, flush, accepted, wire, send_error, send_canceled>>

\* The file cannot be read, the peer cancels or does not answer, the transfer is
\* cancelled.
EngineFails ==
  /\ send_pc \in {"read", "recv"} \/ (send_pc = "send" /\ frame = << >> /\ send_error = "none" /\ send_canceled)
  /\ send_pc' = "failing"
  /\ send_error' = IF send_canceled THEN "canceled" ELSE "engine"
  /\ UNCHANGED <<protocol, source, frame, offered, batching, flush, accepted, wire,
                 send_canceled, repeats>>

\* It may tell the receiver with CAN.
Notifies ==
  /\ send_pc = "failing"
  /\ \/ frame' = <<CAN>> /\ send_pc' = "send"
     \/ frame' = << >> /\ send_pc' = "closing"
  /\ UNCHANGED <<protocol, source, offered, batching, flush, accepted, wire, send_error,
                 send_canceled, repeats>>

Notified ==
  /\ send_pc = "send" /\ frame = << >> /\ send_error # "none" /\ send_pc' = "closing"
  /\ UNCHANGED <<protocol, source, frame, offered, batching, flush, accepted, wire, send_error,
                 send_canceled, repeats>>

-----------------------------------------------------------------------------
(* The end of run_terminal_transfer_async.                                  *)

LastFlush == Buffered /\ ~send_canceled

\* A failed transfer writes what is accepted, CAN included, unless it is cancelled.
Closes ==
  /\ send_pc = "closing"
  /\ IF LastFlush THEN FlushBegins("over") ELSE send_pc' = "over" /\ UNCHANGED flush
  /\ UNCHANGED <<protocol, source, frame, offered, batching, accepted, wire, send_error,
                 send_canceled, repeats>>

Finished ==
  /\ send_pc = "done" /\ send_pc' = "over"
  /\ UNCHANGED <<protocol, source, frame, offered, batching, flush, accepted, wire, send_error,
                 send_canceled, repeats>>

CancelSend ==
  /\ send_pc # "over" /\ ~send_canceled /\ send_canceled' = TRUE
  /\ UNCHANGED <<protocol, source, frame, offered, batching, flush, accepted, wire, send_pc,
                 send_error, repeats>>

Over == send_pc = "over" /\ UNCHANGED sender

\* The first answer, which asks for the file, has come.
SendInit == /\ protocol \in {"ymodem", "ymodem-g", "zmodem"}
        /\ stream_pos = 0 /\ prefetch = << >> /\ eof = FALSE /\ at = 0
        /\ frame = << >> /\ offered = << >>
        /\ storage = << >> /\ budget = 0 /\ bypass = FALSE
        /\ sent = 0 /\ elapsed = 0 /\ after = "none"
        /\ accepted = << >> /\ wire = << >>
        /\ send_pc = "read" /\ send_error = "none" /\ send_canceled = FALSE /\ repeats = 0

Progress ==
  \/ \E n \in 1..SendCapacity, d \in 0..MaxBudget : FlushWrites(n, d)
  \/ BatchFails \/ BufferFrame \/ SendFails
  \/ \E n \in 1..FrameSize : DirectSend(n)
  \/ ReadFrame \/ AwaitAnswer \/ Stream \/ Acknowledged \/ Refused
  \/ \E offset \in 0..Size : Seek(offset)
  \/ EngineFails \/ Notifies \/ Notified \/ Closes \/ Finished

SendNext == Progress \/ CancelSend \/ Over

SendSpec == SendInit /\ [][SendNext]_sender

\* The dispatcher runs what is ready and every operation of the transport ends,
\* at its timeout at the latest.
FairSendSpec == SendSpec /\ WF_sender(Progress)

-----------------------------------------------------------------------------
(* Properties.                                                             *)

\* The buffer neither loses, repeats nor reorders a byte: CAN comes behind every
\* frame that was accepted (1078-1086).  A broken transport or a cancellation cuts
\* the stream, and then nothing of the rest is sent again but the CAN that says so
\* (send-buffer.h 86-87).
StreamExact ==
  /\ \E k \in 0..Len(accepted) :
       \A i \in 1..Len(wire) : wire[i] = IF i <= k THEN accepted[i] ELSE CAN
  /\ ~bypass => wire \o SubSeq(storage, sent + 1, Len(storage)) = accepted

\* While the protocol waits for an answer the receiver has been sent everything
\* (557-562).
AnswerSeesAll == send_pc = "recv" /\ Buffered => storage = << >> /\ (bypass \/ wire = accepted)

\* Every partial write of a batch ends within one deadline (send-buffer.h 86).
OneDeadline == send_pc = "flush" => elapsed <= budget

\* The protocol gets the bytes of the file at its own offset, whatever was
\* prefetched before a seek and however short the reads were.
SourceExact ==
  /\ \A i \in 1..Len(prefetch) : prefetch[i] = at + i
  /\ stream_pos = at + Len(prefetch)
  /\ eof => at = Size

\* A transfer without an error has sent every byte of the file, then EOT; one that
\* only the protocol failed has sent all it accepted.
OutcomeTrue ==
  send_pc = "over" =>
    /\ send_error = "none" =>
         /\ wire = accepted /\ wire[Len(wire)] = EOT
         /\ protocol # "zmodem" => \A p \in 1..Size : \E i \in 1..Len(wire) : wire[i] = p
    /\ send_error = "engine" /\ ~send_canceled /\ ~bypass => wire = accepted

\* What is read, buffered and sent is the file's, in order and in time.
SendExact == /\ SendTypeOK /\ StreamExact /\ AnswerSeesAll
             /\ OneDeadline /\ SourceExact /\ OutcomeTrue

\* Every transfer ends: no batch waits for ever for a transport that makes no
\* progress within the time it is granted.
SendEnds == <>(send_pc = "over")
=============================================================================
