-------------------------- MODULE TransferReceiver --------------------------
(***************************************************************************)
(* Files received by X/Y/ZMODEM: the sink of terminal-transfer-runner.cpp     *)
(* (make_sink_ops) with its buffer, below the engine of libxyzm, which is      *)
(* external.  Each file is written to "<name>.partial" and moved to its name   *)
(* when it is complete; ZMODEM resumes a partial file of the same name.       *)
(*                                                                         *)
(* A byte is the file of the peer it comes from and its position there.  An    *)
(* absent file is an empty one: the code resumes neither (offset 0).  An       *)
(* action is the code from one await to the next; each awaited operation may    *)
(* fail, a write after any part of it was written.                           *)
(***************************************************************************)
EXTENDS Naturals, Sequences

CONSTANTS Batch,        \* the peer's files: a sequence of [name, size]
          Names,        \* names under the download directory
          Capacity,     \* bytes the sink buffer holds (64 KiB)
          Chunks,       \* sizes of the payloads the engine delivers
          MaxSessions   \* bound: transfers that are started

ASSUME ReceiverAssumption ==
  /\ Capacity \in Nat \ {0} /\ Chunks \subseteq Nat \ {0} /\ MaxSessions \in Nat
  /\ Batch \in Seq([name : Names, size : Nat])

VARIABLES
  partial, target,   \* the directory: contents of "<name>.partial" and "<name>"
  stream,            \* current_stream: "none", "append" or "replace"
  temp,              \* what a replacing stream has written so far
  buffer,            \* write_buffer
  file, offset,      \* the file of the batch, bytes of it accepted (with the resumed)
  zmodem,            \* whether this session may resume
  pc, error, close_error, canceled,
  sessions

directory == <<partial, target>>
sink == <<stream, temp, buffer>>
outcome == <<error, close_error, canceled>>
vars == <<directory, sink, file, offset, zmodem, pc, outcome, sessions>>

Files == 1..Len(Batch)
Name == Batch[file].name
Byte(f, i) == [file |-> f, pos |-> i]
Bytes == [file : {0} \cup Files, pos : Nat]

TypeOK ==
  /\ partial \in [Names -> Seq(Bytes)] /\ target \in [Names -> Seq(Bytes)]
  /\ stream \in {"none", "append", "replace"} /\ temp \in Seq(Bytes)
  /\ buffer \in Seq(Bytes) /\ Len(buffer) < Capacity
  /\ file \in 0..(Len(Batch) + 1) /\ offset \in Nat /\ zmodem \in BOOLEAN
  /\ pc \in {"off", "next", "receive", "flush", "close", "move", "over"}
  /\ error \in {"none", "write", "other"} /\ close_error \in BOOLEAN /\ canceled \in BOOLEAN
  /\ sessions \in 0..MaxSessions

-----------------------------------------------------------------------------
(* The stream and the buffer.                                               *)

\* GIO writes to the partial file itself, or to a file that replaces it at close.
Output(bytes) ==
  IF stream = "append"
    THEN partial' = [partial EXCEPT ![Name] = @ \o bytes] /\ UNCHANGED temp
    ELSE temp' = temp \o bytes /\ UNCHANGED partial

\* What is left in the buffer behind a failed flush.
\* Fault: it is still there, so the cleanup writes it again.
StillBuffered(bytes) == bytes
Discarded(bytes) == << >>

\* TerminalTransferSinkBuffer::flush_async with write_sink_bytes: all of it is
\* written, or a part of it and then the write fails.
Flushes(bytes) == Output(bytes) /\ buffer' = << >>
FlushFails(bytes) == /\ \E k \in 0..Len(bytes) : Output(SubSeq(bytes, 1, k))
                     /\ buffer' = Discarded(bytes)

-----------------------------------------------------------------------------
(* The sink's operations.                                                   *)

SessionBegins ==
  /\ pc = "off" /\ sessions < MaxSessions
  /\ zmodem' \in BOOLEAN /\ sessions' = sessions + 1
  /\ file' = 1 /\ pc' = "next" /\ canceled' = FALSE /\ error' = "none" /\ close_error' = FALSE
  /\ UNCHANGED <<directory, sink, offset>>

\* sink.begin: a partial file of this name is continued, else started anew.
Begin ==
  /\ pc = "next" /\ file \in Files /\ ~canceled
  /\ \/ /\ offset' = IF zmodem THEN Len(partial[Name]) ELSE 0
        /\ stream' = IF offset' > 0 THEN "append" ELSE "replace"
        /\ temp' = << >> /\ buffer' = << >> /\ pc' = "receive"
     \/ pc' = "over" /\ UNCHANGED <<sink, offset>>       \* the query or the open failed
  /\ UNCHANGED <<directory, file, zmodem, outcome, sessions>>

FullBuffers(n) == (n \div Capacity) * Capacity

\* sink.write with append_async: full buffers are written, the rest is kept.
Write(n) ==
  /\ pc = "receive" /\ error = "none" /\ ~canceled /\ n <= Batch[file].size - offset
  /\ LET all == buffer \o [i \in 1..n |-> Byte(file, offset + i)]
         full == FullBuffers(Len(all))
     IN \/ /\ Output(SubSeq(all, 1, full))
           /\ buffer' = SubSeq(all, full + 1, Len(all))
           /\ offset' = offset + n /\ UNCHANGED error
        \/ /\ full > 0 /\ FlushFails(SubSeq(all, 1, full))
           /\ error' = "write" /\ UNCHANGED offset
  /\ UNCHANGED <<target, stream, file, zmodem, pc, close_error, canceled, sessions>>

\* The engine ends the file: complete, or with an error of its own, of the peer
\* or of a write.
EndOfFile ==
  /\ pc = "receive" /\ pc' = "flush"
  /\ \/ error = "none" /\ ~canceled /\ offset >= Batch[file].size /\ UNCHANGED error
     \/ error = "none" /\ error' = "other"
     \/ error = "write" /\ UNCHANGED error
  /\ UNCHANGED <<directory, sink, file, offset, zmodem, close_error, canceled, sessions>>

\* Fault: the flush obeys the cancellation of the transfer.
NothingIfCanceled == IF canceled THEN << >> ELSE buffer
Flushable == buffer

\* sink.end flushes whatever happened ...
EndFlush ==
  /\ pc = "flush" /\ pc' = "close"
  /\ \/ Flushes(Flushable) /\ UNCHANGED close_error
     \/ buffer # << >> /\ FlushFails(Flushable) /\ close_error' = TRUE
  /\ UNCHANGED <<target, stream, file, offset, zmodem, error, canceled, sessions>>

Moves == error = "none" /\ ~close_error'

\* ... closes the stream, whatever the flush did ...
EndClose ==
  /\ pc = "close" /\ stream' = "none" /\ temp' = << >>
  /\ \E closed \in BOOLEAN, replaced \in BOOLEAN :
       /\ closed => replaced
       /\ close_error' = (close_error \/ ~closed)
       /\ partial' = IF stream = "replace" /\ replaced
                       THEN [partial EXCEPT ![Name] = temp] ELSE partial
  /\ pc' = IF Moves THEN "move" ELSE "over"
  /\ UNCHANGED <<target, buffer, file, offset, zmodem, error, canceled, sessions>>

\* ... and moves a complete file to its name, over what is there.
EndMove ==
  /\ pc = "move"
  /\ \E moved \in BOOLEAN, told \in BOOLEAN :
       /\ canceled => ~told
       /\ IF moved THEN /\ target' = [target EXCEPT ![Name] = partial[Name]]
                        /\ partial' = [partial EXCEPT ![Name] = << >>]
          ELSE UNCHANGED directory
       /\ IF moved /\ told THEN pc' = "next" /\ file' = file + 1
          ELSE pc' = "over" /\ UNCHANGED file
  /\ UNCHANGED <<sink, offset, zmodem, outcome, sessions>>

\* The transfer ends: all files are received, one failed, or it was cancelled.
SessionEnds ==
  /\ \/ pc = "over"
     \/ pc = "next" /\ (file \notin Files \/ canceled)
  /\ pc' = "off" /\ file' = 0 /\ offset' = 0 /\ stream' = "none" /\ buffer' = << >>
  /\ temp' = << >>
  /\ UNCHANGED <<directory, zmodem, outcome, sessions>>

Cancel ==
  /\ pc \notin {"off", "over"} /\ ~canceled /\ canceled' = TRUE
  /\ UNCHANGED <<directory, sink, file, offset, zmodem, pc, error, close_error, sessions>>

\* The process dies: buffers and an unfinished replacement are gone.
Crash ==
  /\ pc # "off" /\ pc' = "off"
  /\ file' = 0 /\ offset' = 0 /\ stream' = "none" /\ buffer' = << >> /\ temp' = << >>
  /\ UNCHANGED <<directory, zmodem, outcome, sessions>>

Done == pc = "off" /\ sessions = MaxSessions /\ UNCHANGED vars

\* A file of the user may already have one of the names.
Init == /\ partial = [n \in Names |-> << >>]
        /\ target \in [Names -> {<< >>, <<Byte(0, 1)>>}]
        /\ stream = "none" /\ temp = << >> /\ buffer = << >>
        /\ file = 0 /\ offset = 0 /\ zmodem = FALSE
        /\ pc = "off" /\ error = "none" /\ close_error = FALSE /\ canceled = FALSE
        /\ sessions = 0

Next == \/ SessionBegins \/ Begin \/ (\E n \in Chunks : Write(n)) \/ EndOfFile
        \/ EndFlush \/ EndClose \/ EndMove \/ SessionEnds \/ Cancel \/ Crash \/ Done

Spec == Init /\ [][Next]_vars

-----------------------------------------------------------------------------
(* Properties.                                                             *)

InPlace(bytes) == \A i \in 1..Len(bytes) : bytes[i].pos = i
OneFile(bytes) == \A i \in 1..Len(bytes) : bytes[i].file = bytes[1].file

\* What a later session resumes is a gapless beginning of a file, whatever failed
\* or crashed in which order: the offset told to the peer is right.
PartialIsPrefix == \A n \in Names : InPlace(partial[n])

\* A name holds the user's old file or one complete file of the peer.  Files of
\* the batch that share a name must not be resumed from each other's partial file.
TargetIsWhole ==
  \A n \in Names :
    LET bytes == target[n]
    IN bytes # << >> /\ bytes[1].file # 0 =>
         /\ InPlace(bytes) /\ OneFile(bytes)
         /\ \E f \in Files : /\ bytes[Len(bytes)].file = f
                             /\ Len(bytes) = Batch[f].size

\* A transfer that fails or is cancelled keeps every accepted byte in the partial
\* file, unless a write or the close itself failed (763-777).
KeepsAccepted ==
  [][pc = "close" /\ pc' = "over" /\ error # "write" /\ ~close_error' =>
       Len(partial'[Name]) >= offset]_vars

\* The user's old file goes only when its replacement is complete, and a file is
\* never lost from both names (764-766).
NeverLost ==
  [][\A n \in Names : target[n] # << >> /\ target'[n] # target[n] =>
       target'[n] = partial[n] /\ error = "none" /\ ~close_error]_vars

\* Neither name of a file ever loses what was complete or accepted.
NothingLost == [](TypeOK /\ TargetIsWhole) /\ KeepsAccepted /\ NeverLost
=============================================================================
