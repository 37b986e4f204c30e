--------------------------- MODULE TerminalProofs ---------------------------
(***************************************************************************)
(* Proofs about what a terminal's window does beside its line.                *)
(*                                                                         *)
(* TransferReceiver, for every batch, buffer and size of a payload, and any     *)
(* number of sessions, failures and crashes: what a later session resumes is a  *)
(* beginning of a file, and nothing complete or accepted is lost.              *)
(*                                                                         *)
(* TransferSender, for every size of a file, of its buffers and frames, and any *)
(* times: what is read, buffered and sent is the file's, in order and in time.  *)
(*                                                                         *)
(* TerminalSelection, for views and histories of any size: what is copied ends   *)
(* where the user let go, however late its rows are painted.                   *)
(*                                                                         *)
(* TerminalRuntime, for every set of encodings and of requests, whether a device  *)
(* is watched or not: no reservation, service, encoding or frame is lost.         *)
(***************************************************************************)
EXTENDS TransferReceiver, TransferSender, TerminalSelection, TerminalRuntime,
        SequenceTheorems, TLAPS

-----------------------------------------------------------------------------
(* Sequences of bytes.                                                      *)

\* The bytes of a sequence are those behind position "from", of files of this name.
Right(n, bytes, from) ==
  \A i \in 1..Len(bytes) : /\ bytes[i].pos = from + i
                           /\ bytes[i].file \in Files /\ Batch[bytes[i].file].name = n

\* What continues a sequence may be appended to it.
LEMMA RightConcat ==
  ASSUME NEW n, NEW s \in Seq(Bytes), NEW t \in Seq(Bytes), NEW from \in Nat,
         Right(n, s, from), Right(n, t, from + Len(s))
  PROVE  Right(n, s \o t, from)
<1> DEFINE all == s \o t
<1>1. /\ Len(all) = Len(s) + Len(t) /\ Len(s) \in Nat /\ Len(t) \in Nat
      /\ \A i \in 1..(Len(s) + Len(t)) : all[i] = IF i <= Len(s) THEN s[i] ELSE t[i - Len(s)]
  BY ConcatProperties
<1> HIDE DEF all
<1> SUFFICES ASSUME NEW i \in 1..(Len(s) + Len(t))
             PROVE  /\ all[i].pos = from + i
                    /\ all[i].file \in Files /\ Batch[all[i].file].name = n
  BY <1>1 DEF Right, all
<1>2. CASE i <= Len(s)
  <2>1. i \in 1..Len(s) /\ all[i] = s[i]
    BY <1>1, <1>2
  <2> QED BY <2>1 DEF Right
<1>3. CASE ~(i <= Len(s))
  <2>1. i - Len(s) \in 1..Len(t) /\ all[i] = t[i - Len(s)]
    BY <1>1, <1>3
  <2>2. t[i - Len(s)].pos = (from + Len(s)) + (i - Len(s))
    BY <2>1 DEF Right
  <2>3. all[i].pos = from + i
    BY <1>1, <2>1, <2>2
  <2> QED BY <2>1, <2>3 DEF Right
<1> QED BY <1>2, <1>3

\* A part of a sequence continues what is before it.
LEMMA RightPart ==
  ASSUME NEW n, NEW s \in Seq(Bytes), NEW from \in Nat, Right(n, s, from),
         NEW a \in Nat, NEW b \in Nat, a <= b, b <= Len(s)
  PROVE  /\ SubSeq(s, a + 1, b) \in Seq(Bytes) /\ Len(SubSeq(s, a + 1, b)) = b - a
         /\ Right(n, SubSeq(s, a + 1, b), from + a)
<1> DEFINE part == SubSeq(s, a + 1, b)
<1>1. /\ part \in Seq(Bytes) /\ Len(part) = b - a
      /\ \A i \in 1..(b - a) : part[i] = s[a + i]
  <2>1. Len(s) \in Nat
    OBVIOUS
  <2>2. \A i \in (a + 1)..b : s[i] \in Bytes
    BY <2>1
  <2>3. a + 1 > b => b - a = 0
    OBVIOUS
  <2> QED BY <2>1, <2>2, <2>3
<1> HIDE DEF part
<1>2. ASSUME NEW i \in 1..(b - a)
      PROVE  /\ part[i].pos = from + a + i
             /\ part[i].file \in Files /\ Batch[part[i].file].name = n
  <2>0. Len(s) \in Nat /\ a + i \in 1..Len(s)
    OBVIOUS
  <2>1. a + i \in 1..Len(s) /\ part[i] = s[a + i]
    BY <1>1, <2>0
  <2>2. s[a + i].pos = from + (a + i)
    BY <2>1 DEF Right
  <2>3. part[i].pos = from + a + i
    BY <2>1, <2>2
  <2> QED BY <2>1, <2>3 DEF Right
<1> QED BY <1>1, <1>2 DEF Right, part

\* Full buffers are written; less than one is kept.
LEMMA Splits ==
  ASSUME NEW l \in Nat
  PROVE  FullBuffers(l) \in Nat /\ FullBuffers(l) <= l /\ l - FullBuffers(l) < Capacity
<1>1. Capacity \in Nat /\ Capacity > 0
  BY ReceiverAssumption
<1>2. /\ l \div Capacity \in Nat /\ l % Capacity \in Nat /\ l % Capacity < Capacity
      /\ l = Capacity * (l \div Capacity) + (l % Capacity)
  BY <1>1
<1>3. (l \div Capacity) * Capacity = Capacity * (l \div Capacity)
  BY <1>1, <1>2
<1> QED BY <1>1, <1>2, <1>3 DEF FullBuffers

\* The file that is received has a name and a size.
LEMMA Named ==
  ASSUME NEW f \in Files PROVE Batch[f].name \in Names /\ Batch[f].size \in Nat
<1>1. Batch[f] \in [name : Names, size : Nat]
  BY ReceiverAssumption, ElementOfSeq DEF Files
<1> QED BY <1>1

-----------------------------------------------------------------------------
(* The invariant.                                                          *)

\* Where the stream writes.
Written == IF stream = "append" THEN partial[Name] ELSE temp

Working == {"receive", "flush", "close"}

\* The partial files are beginnings of files, gapless.
Directory == \A n \in Names : Right(n, partial[n], 0)

\* What is buffered continues what is written and, unless a write or the close has
\* failed, the two are everything that was accepted.
Sink ==
  /\ pc \in Working \cup {"move"} => file \in Files
  /\ pc \in Working =>
       /\ stream # "none"
       /\ Right(Name, Written, 0) /\ Right(Name, buffer, Len(Written))
       /\ error = "write" => buffer = << >>
       /\ error # "write" /\ ~close_error => Len(Written) + Len(buffer) = offset
  /\ pc = "close" => buffer = << >>
  /\ pc \in {"next", "receive"} => ~close_error
  /\ pc = "next" => error = "none"
  /\ pc \in {"flush", "close", "move"} /\ error = "none" => offset >= Batch[file].size
  /\ pc = "move" => error = "none" /\ ~close_error /\ Len(partial[Name]) = offset

ReceiverInv == TypeOK /\ Directory /\ Sink

\* The types that a step on the sink may change.
DiskTyped == partial \in [Names -> Seq(Bytes)] /\ temp \in Seq(Bytes)

\* What is output continues what is written, and changes no other file.
LEMMA OutputAppends ==
  ASSUME DiskTyped, Directory, file \in Files, NEW s \in Seq(Bytes), Output(s),
         Right(Name, Written, 0), Right(Name, s, Len(Written)), UNCHANGED <<stream, file>>
  PROVE  /\ DiskTyped' /\ Directory' /\ Len(Written') = Len(Written) + Len(s)
         /\ Right(Name, Written', 0) /\ Written \in Seq(Bytes) /\ Written' \in Seq(Bytes)
<1>1. Name \in Names
  BY Named DEF Name
<1>2. Written \in Seq(Bytes)
  BY <1>1 DEF Written, DiskTyped
<1>3. Written' = Written \o s
  BY <1>1 DEF Output, Written, DiskTyped, Name
<1>4. Written' \in Seq(Bytes) /\ Len(Written') = Len(Written) + Len(s)
  BY <1>2, <1>3, ConcatProperties
<1>5. Right(Name, Written', 0)
  <2>1. Right(Name, s, 0 + Len(Written))
    <3>1. 0 + Len(Written) = Len(Written)
      BY <1>2
    <3> QED BY <3>1
  <2> QED BY <1>2, <1>3, <2>1, RightConcat
<1>6. DiskTyped'
  BY <1>1, <1>2, <1>3, <1>4 DEF Output, Written, DiskTyped
<1>7. Directory'
  <2> SUFFICES ASSUME NEW n \in Names PROVE Right(n, partial'[n], 0)
    BY DEF Directory, Right
  <2>1. CASE n = Name /\ stream = "append"
    <3>1. partial'[n] = Written'
      BY <2>1 DEF Written, Name
    <3> QED BY <1>5, <2>1, <3>1
  <2>2. CASE ~(n = Name /\ stream = "append")
    <3>1. partial'[n] = partial[n]
      BY <2>2 DEF Output, DiskTyped
    <3> QED BY <3>1 DEF Directory
  <2> QED BY <2>1, <2>2
<1> QED BY <1>2, <1>4, <1>5, <1>6, <1>7

\* A write that fails has output a beginning of what it should.
LEMMA FailedOutput ==
  ASSUME DiskTyped, Directory, file \in Files, NEW s \in Seq(Bytes), FlushFails(s),
         Right(Name, Written, 0), Right(Name, s, Len(Written)), UNCHANGED <<stream, file>>
  PROVE  /\ DiskTyped' /\ Directory' /\ Right(Name, Written', 0) /\ buffer' = << >>
         /\ Len(Written') <= Len(Written) + Len(s)
<1>1. PICK k \in 0..Len(s) : Output(SubSeq(s, 1, k))
  BY DEF FlushFails
<1>2. Name \in Names
  BY Named DEF Name
<1>3. Written \in Seq(Bytes)
  BY <1>2 DEF Written, DiskTyped
<1>4. SubSeq(s, 0 + 1, k) \in Seq(Bytes) /\ Right(Name, SubSeq(s, 0 + 1, k), Len(Written) + 0)
  <2>1. /\ Len(Written) \in Nat /\ 0 \in Nat /\ k \in Nat /\ Len(s) \in Nat
        /\ 0 <= k /\ k <= Len(s)
    BY <1>3
  <2> QED BY <2>1, RightPart
<1>5. SubSeq(s, 1, k) \in Seq(Bytes) /\ Right(Name, SubSeq(s, 1, k), Len(Written))
  <2>1. Len(Written) + 0 = Len(Written)
    BY <1>3
  <2> QED BY <1>4, <2>1
<1>6. /\ DiskTyped' /\ Directory' /\ Right(Name, Written', 0)
      /\ Len(Written') = Len(Written) + Len(SubSeq(s, 1, k))
  BY <1>1, <1>5, OutputAppends
<1>7. Len(Written') <= Len(Written) + Len(s)
  <2>1. Len(SubSeq(s, 1, k)) = k /\ k \in Nat /\ Len(s) \in Nat /\ k <= Len(s)
    OBVIOUS
  <2>2. Len(Written) \in Nat
    BY <1>3
  <2> QED BY <1>6, <2>1, <2>2
<1> QED BY <1>6, <1>7 DEF FlushFails, Discarded

\* What a payload and the buffer become.
LEMMA BufferHolds ==
  ASSUME TypeOK, file \in Files, NEW n \in Chunks, Right(Name, Written, 0),
         Right(Name, buffer, Len(Written)), Len(Written) + Len(buffer) = offset
  PROVE  LET all == buffer \o [i \in 1..n |-> Byte(file, offset + i)]
             full == FullBuffers(Len(all))
         IN  /\ all \in Seq(Bytes) /\ Len(all) = Len(buffer) + n
             /\ full \in Nat /\ full <= Len(all) /\ Len(all) - full < Capacity
             /\ Right(Name, all, Len(Written))
<1> DEFINE more == [i \in 1..n |-> Byte(file, offset + i)]
           all == buffer \o more
<1>1. n \in Nat /\ offset \in Nat /\ Name \in Names
  BY ReceiverAssumption, Named DEF TypeOK, Name
<1>2. buffer \in Seq(Bytes) /\ Written \in Seq(Bytes)
  BY <1>1 DEF TypeOK, Written
<1>3. /\ more \in Seq(Bytes) /\ Len(more) = n
      /\ \A i \in 1..n : more[i] = Byte(file, offset + i)
  <2>1. \A i \in 1..n : Byte(file, offset + i) \in Bytes
    BY <1>1 DEF Byte, Bytes
  <2> QED BY <1>1, <2>1
<1>4. Right(Name, more, Len(Written) + Len(buffer))
  BY <1>1, <1>3 DEF Right, Byte, Name
<1> HIDE DEF more
<1>5. all \in Seq(Bytes) /\ Len(all) = Len(buffer) + n
  BY <1>2, <1>3, ConcatProperties
<1>6. Right(Name, all, Len(Written))
  BY <1>2, <1>3, <1>4, RightConcat
<1>7. Len(all) \in Nat
  BY <1>5
<1> QED BY <1>5, <1>6, <1>7, Splits DEF more

-----------------------------------------------------------------------------
(* The steps.                                                              *)

\* What the invariant knows of the file at work.
LEMMA AtWork ==
  ASSUME ReceiverInv, pc \in Working
  PROVE  /\ file \in Files /\ DiskTyped /\ Directory /\ Name \in Names
         /\ Batch[file].size \in Nat /\ buffer \in Seq(Bytes) /\ Written \in Seq(Bytes)
         /\ Right(Name, Written, 0) /\ Right(Name, buffer, Len(Written))
<1>1. file \in Files /\ DiskTyped /\ Directory /\ buffer \in Seq(Bytes)
  BY DEF ReceiverInv, Sink, TypeOK, DiskTyped
<1>2. Name \in Names /\ Batch[file].size \in Nat
  BY <1>1, Named DEF Name
<1> QED BY <1>1, <1>2 DEF ReceiverInv, Sink, Written, DiskTyped

LEMMA WriteKeeps ==
  ASSUME ReceiverInv, NEW n \in Chunks, Write(n) PROVE ReceiverInv'
<1> DEFINE all == buffer \o [i \in 1..n |-> Byte(file, offset + i)]
           full == FullBuffers(Len(all))
           first == SubSeq(all, 1, full)
           last == SubSeq(all, full + 1, Len(all))
<1>1. /\ pc = "receive" /\ pc \in Working /\ error = "none" /\ ~close_error
      /\ Len(Written) + Len(buffer) = offset /\ stream # "none"
  BY DEF Write, ReceiverInv, Sink, Working
<1>2. /\ file \in Files /\ DiskTyped /\ Directory /\ Name \in Names /\ buffer \in Seq(Bytes)
      /\ Written \in Seq(Bytes) /\ Right(Name, Written, 0) /\ Right(Name, buffer, Len(Written))
      /\ n \in Nat /\ offset \in Nat /\ TypeOK
  BY <1>1, AtWork, ReceiverAssumption DEF ReceiverInv, TypeOK
<1>3. /\ all \in Seq(Bytes) /\ Len(all) = Len(buffer) + n
      /\ full \in Nat /\ full <= Len(all) /\ Len(all) - full < Capacity
      /\ Right(Name, all, Len(Written))
  BY <1>1, <1>2, BufferHolds
<1>4. UNCHANGED <<target, stream, file, zmodem, pc, close_error, canceled, sessions>>
  BY DEF Write
<1>5. \/ Output(first) /\ buffer' = last /\ offset' = offset + n /\ UNCHANGED error
      \/ FlushFails(first) /\ error' = "write" /\ UNCHANGED offset
  BY DEF Write
<1> HIDE DEF all, full
<1>6. /\ Len(Written) \in Nat /\ Len(all) \in Nat /\ Len(buffer) \in Nat
  BY <1>2, <1>3
<1>7. first \in Seq(Bytes) /\ Len(first) = full /\ Right(Name, first, Len(Written))
  <2>1. /\ SubSeq(all, 0 + 1, full) \in Seq(Bytes) /\ Len(SubSeq(all, 0 + 1, full)) = full - 0
        /\ Right(Name, SubSeq(all, 0 + 1, full), Len(Written) + 0)
    <3>1. 0 \in Nat /\ 0 <= full
      BY <1>3
    <3> QED BY <1>3, <1>6, <3>1, RightPart
  <2>2. Len(Written) + 0 = Len(Written) /\ full - 0 = full
    BY <1>3, <1>6
  <2> QED BY <2>1, <2>2
<1>8. /\ last \in Seq(Bytes) /\ Len(last) = Len(all) - full
      /\ Right(Name, last, Len(Written) + full)
  <2>1. Len(all) <= Len(all)
    BY <1>6
  <2> QED BY <1>3, <1>6, <2>1, RightPart
<1> HIDE DEF first, last
<1>9. CASE Output(first) /\ buffer' = last /\ offset' = offset + n /\ UNCHANGED error
  <2>1. /\ DiskTyped' /\ Directory' /\ Len(Written') = Len(Written) + full
        /\ Right(Name, Written', 0)
    BY <1>2, <1>4, <1>7, <1>9, OutputAppends
  <2>2. Right(Name, buffer', Len(Written'))
    BY <1>8, <1>9, <2>1
  <2>3. Len(Written') + Len(buffer') = offset' /\ Len(buffer') < Capacity /\ offset' \in Nat
    <3>1. Len(buffer') = Len(all) - full
      BY <1>8, <1>9
    <3>2. offset' = (Len(Written) + Len(buffer)) + n
      BY <1>1, <1>9
    <3>3. Len(all) = Len(buffer) + n
      BY <1>3
    <3>4. \A w, b, m, f \in Nat : (w + f) + ((b + m) - f) = (w + b) + m /\ (w + b) + m \in Nat
      OBVIOUS
    <3>5. (Len(Written) + full) + ((Len(buffer) + n) - full) = (Len(Written) + Len(buffer)) + n
      BY <1>2, <1>3, <1>6, <3>4
    <3>6. offset' \in Nat
      BY <1>2, <1>6, <3>2
    <3> QED BY <1>3, <2>1, <3>1, <3>2, <3>3, <3>5, <3>6
  <2>4. TypeOK'
    BY <1>2, <1>4, <1>8, <1>9, <2>1, <2>3 DEF TypeOK, DiskTyped
  <2>5. Sink'
    BY <1>1, <1>2, <1>4, <1>9, <2>1, <2>2, <2>3 DEF Sink, Working, Name, Right
  <2> QED BY <2>1, <2>4, <2>5 DEF ReceiverInv
<1>10. CASE FlushFails(first) /\ error' = "write" /\ UNCHANGED offset
  <2>1. DiskTyped' /\ Directory' /\ Right(Name, Written', 0) /\ buffer' = << >>
    BY <1>2, <1>4, <1>7, <1>10, FailedOutput
  <2>2. TypeOK'
    <3>1. buffer' \in Seq(Bytes) /\ Len(buffer') < Capacity
      BY <2>1, ReceiverAssumption
    <3> QED BY <1>2, <1>4, <1>10, <2>1, <3>1 DEF TypeOK, DiskTyped
  <2>3. Sink'
    BY <1>1, <1>2, <1>4, <1>10, <2>1 DEF Sink, Working, Name, Right
  <2> QED BY <2>1, <2>2, <2>3 DEF ReceiverInv
<1> QED BY <1>5, <1>9, <1>10

\* The flush at the end of a file.
LEMMA FlushKeeps ==
  ASSUME ReceiverInv, EndFlush PROVE ReceiverInv'
<1>1. /\ pc = "flush" /\ pc \in Working /\ pc' = "close"
      /\ UNCHANGED <<target, stream, file, offset, zmodem, error, canceled, sessions>>
  BY DEF EndFlush, Working
<1>2. /\ file \in Files /\ DiskTyped /\ Directory /\ buffer \in Seq(Bytes)
      /\ Written \in Seq(Bytes) /\ Right(Name, Written, 0) /\ Right(Name, buffer, Len(Written))
  BY <1>1, AtWork
<1>3. Len(<< >>) = 0 /\ << >> \in Seq(Bytes) /\ 0 < Capacity
  BY ReceiverAssumption
<1>4. CASE Flushes(buffer) /\ UNCHANGED close_error
  <2>1. /\ DiskTyped' /\ Directory' /\ Len(Written') = Len(Written) + Len(buffer)
        /\ Right(Name, Written', 0) /\ buffer' = << >> /\ Written' \in Seq(Bytes)
    BY <1>1, <1>2, <1>4, OutputAppends DEF Flushes
  <2>2. TypeOK'
    BY <1>1, <1>3, <1>4, <2>1 DEF ReceiverInv, TypeOK, DiskTyped
  <2>3. Len(Written') + Len(buffer') = Len(Written')
    BY <1>3, <2>1
  <2>4. Sink'
    BY <1>1, <1>4, <2>1, <2>3 DEF ReceiverInv, Sink, Working, Name, Right
  <2> QED BY <2>1, <2>2, <2>4 DEF ReceiverInv
<1>5. CASE FlushFails(buffer) /\ close_error' = TRUE
  <2>1. DiskTyped' /\ Directory' /\ Right(Name, Written', 0) /\ buffer' = << >>
    BY <1>1, <1>2, <1>5, FailedOutput
  <2>2. close_error' \in BOOLEAN
    BY <1>5
  <2>3. TypeOK'
    BY <1>1, <1>3, <2>1, <2>2 DEF ReceiverInv, TypeOK, DiskTyped
  <2>4. Sink'
    BY <1>1, <1>5, <2>1 DEF ReceiverInv, Sink, Working, Name, Right
  <2> QED BY <2>1, <2>3, <2>4 DEF ReceiverInv
<1> QED BY <1>4, <1>5 DEF EndFlush, Flushable

\* The close of a file: a replacement takes its place, or not.
LEMMA CloseKeeps ==
  ASSUME ReceiverInv, EndClose PROVE ReceiverInv'
<1>1. /\ pc = "close" /\ pc \in Working /\ pc' = IF Moves THEN "move" ELSE "over"
      /\ stream' = "none" /\ temp' = << >>
      /\ UNCHANGED <<target, buffer, file, offset, zmodem, error, canceled, sessions>>
  BY DEF EndClose, Working
<1>2. /\ file \in Files /\ DiskTyped /\ Directory /\ Name \in Names
      /\ Written \in Seq(Bytes) /\ Right(Name, Written, 0) /\ buffer = << >>
  BY <1>1, AtWork DEF ReceiverInv, Sink
<1>3. PICK closed \in BOOLEAN, replaced \in BOOLEAN :
        /\ closed => replaced
        /\ close_error' = (close_error \/ ~closed)
        /\ partial' = IF stream = "replace" /\ replaced
                        THEN [partial EXCEPT ![Name] = temp] ELSE partial
  BY DEF EndClose
<1>4. DiskTyped' /\ Directory'
  <2>1. CASE stream = "replace" /\ replaced
    <3>1. temp \in Seq(Bytes) /\ Right(Name, temp, 0)
      BY <1>2, <2>1 DEF Written
    <3>2. partial' = [partial EXCEPT ![Name] = temp]
      BY <1>3, <2>1
    <3> QED BY <1>1, <1>2, <3>1, <3>2 DEF DiskTyped, Directory, Right, Name
  <2>2. CASE ~(stream = "replace" /\ replaced)
    BY <1>1, <1>2, <1>3, <2>2 DEF DiskTyped, Directory, Right
  <2> QED BY <2>1, <2>2
<1>5. close_error' \in BOOLEAN
  BY <1>3
<1>6. TypeOK'
  BY <1>1, <1>4, <1>5 DEF ReceiverInv, TypeOK, DiskTyped
<1>7. ASSUME error # "write", ~close_error' PROVE Len(partial'[Name]) = offset
  <2>1. closed /\ replaced /\ ~close_error
    BY <1>3, <1>7
  <2>2. Len(Written) = offset
    <3>1. Len(Written) + Len(buffer) = offset /\ Len(buffer) = 0 /\ Len(Written) \in Nat
      BY <1>1, <1>2, <1>7, <2>1 DEF ReceiverInv, Sink
    <3> QED BY <3>1
  <2>3. stream \in {"append", "replace"}
    BY <1>1 DEF ReceiverInv, Sink, TypeOK
  <2>4. partial'[Name] = Written
    BY <1>2, <1>3, <2>1, <2>3 DEF Written, DiskTyped
  <2> QED BY <2>2, <2>4
<1>8. Sink'
  BY <1>1, <1>2, <1>7 DEF Moves, ReceiverInv, Sink, Working, Name
<1> QED BY <1>4, <1>6, <1>8 DEF ReceiverInv

\* The move of a complete file.
LEMMA MoveKeeps ==
  ASSUME ReceiverInv, EndMove PROVE ReceiverInv'
<1>1. /\ pc = "move" /\ file \in Files /\ error = "none" /\ ~close_error
      /\ UNCHANGED <<stream, temp, buffer, offset, zmodem, error, close_error, canceled, sessions>>
  BY DEF EndMove, ReceiverInv, Sink, sink, outcome
<1>2. /\ \/ pc' = "next" /\ file' = file + 1
         \/ pc' = "over" /\ UNCHANGED file
      /\ \/ UNCHANGED <<partial, target>>
         \/ /\ target' = [target EXCEPT ![Name] = partial[Name]]
            /\ partial' = [partial EXCEPT ![Name] = << >>]
  <2>1. PICK moved \in BOOLEAN, told \in BOOLEAN :
          /\ IF moved THEN /\ target' = [target EXCEPT ![Name] = partial[Name]]
                           /\ partial' = [partial EXCEPT ![Name] = << >>]
             ELSE UNCHANGED directory
          /\ IF moved /\ told THEN pc' = "next" /\ file' = file + 1
             ELSE pc' = "over" /\ UNCHANGED file
    BY DEF EndMove
  <2>2. \/ pc' = "next" /\ file' = file + 1
        \/ pc' = "over" /\ UNCHANGED file
    BY <2>1
  <2>3. \/ UNCHANGED <<partial, target>>
        \/ /\ target' = [target EXCEPT ![Name] = partial[Name]]
           /\ partial' = [partial EXCEPT ![Name] = << >>]
    BY <2>1 DEF directory
  <2> QED BY <2>2, <2>3
<1>3. Name \in Names /\ Len(Batch) \in Nat
  BY <1>1, Named, ReceiverAssumption DEF Name
<1>4. DiskTyped' /\ Directory' /\ target' \in [Names -> Seq(Bytes)]
  <2>1. DiskTyped /\ Directory /\ target \in [Names -> Seq(Bytes)]
    BY DEF ReceiverInv, TypeOK, DiskTyped
  <2>2. << >> \in Seq(Bytes) /\ Right(Name, << >>, 0)
    BY DEF Right
  <2>3. partial[Name] \in Seq(Bytes)
    BY <1>3, <2>1 DEF DiskTyped
  <2>4. CASE UNCHANGED <<partial, target>>
    BY <1>1, <2>1, <2>4 DEF DiskTyped, Directory, Right
  <2>5. CASE /\ target' = [target EXCEPT ![Name] = partial[Name]]
             /\ partial' = [partial EXCEPT ![Name] = << >>]
    BY <1>1, <1>3, <2>1, <2>2, <2>3, <2>5 DEF DiskTyped, Directory, Right
  <2> QED BY <1>2, <2>4, <2>5
<1>5. file' \in 0..(Len(Batch) + 1)
  BY <1>1, <1>2, <1>3 DEF Files
<1>6. TypeOK'
  BY <1>1, <1>2, <1>4, <1>5 DEF ReceiverInv, TypeOK, DiskTyped
<1>7. Sink'
  BY <1>1, <1>2 DEF ReceiverInv, Sink, Working
<1> QED BY <1>4, <1>6, <1>7 DEF ReceiverInv

\* A file begins: what is resumed was accepted by an earlier session.
LEMMA BeginKeeps ==
  ASSUME ReceiverInv, Begin PROVE ReceiverInv'
<1>1. /\ pc = "next" /\ file \in Files /\ ~close_error /\ error = "none"
      /\ UNCHANGED <<partial, target, file, zmodem, error, close_error, canceled, sessions>>
  BY DEF Begin, ReceiverInv, Sink, directory, outcome
<1>2. Name \in Names
  BY <1>1, Named DEF Name
<1>3. CASE pc' = "over" /\ UNCHANGED <<sink, offset>>
  BY <1>1, <1>3 DEF sink, ReceiverInv, TypeOK, Directory, Sink, Right, Working
<1>4. CASE ~(pc' = "over" /\ UNCHANGED <<sink, offset>>)
  <2>1. /\ offset' = IF zmodem THEN Len(partial[Name]) ELSE 0
        /\ stream' = IF offset' > 0 THEN "append" ELSE "replace"
        /\ temp' = << >> /\ buffer' = << >> /\ pc' = "receive"
    BY <1>4 DEF Begin
  <2>2. partial[Name] \in Seq(Bytes) /\ Right(Name, partial[Name], 0) /\ Len(partial[Name]) \in Nat
    BY <1>2 DEF ReceiverInv, TypeOK, Directory
  <2>3. offset' \in Nat /\ 0 < Capacity /\ Len(<< >>) = 0
    BY <2>1, <2>2, ReceiverAssumption
  <2>4. TypeOK'
    BY <1>1, <2>1, <2>3 DEF ReceiverInv, TypeOK
  <2>5. Directory'
    BY <1>1 DEF ReceiverInv, Directory, Right
  <2>6. /\ Right(Name', Written', 0) /\ Right(Name', buffer', Len(Written'))
        /\ Len(Written') + Len(buffer') = offset'
    <3>1. CASE stream' = "append"
      <4>1. Written' = partial[Name] /\ Name' = Name /\ offset' = Len(partial[Name])
        BY <1>1, <2>1, <2>3, <3>1 DEF Written, Name
      <4> QED BY <2>1, <2>2, <4>1 DEF Right
    <3>2. CASE stream' # "append"
      <4>1. Written' = << >> /\ offset' = 0
        BY <2>1, <2>3, <3>2 DEF Written
      <4> QED BY <2>1, <2>3, <4>1 DEF Right
    <3> QED BY <3>1, <3>2
  <2>7. Sink'
    BY <1>1, <2>1, <2>6 DEF Sink, Working
  <2> QED BY <2>4, <2>5, <2>7 DEF ReceiverInv
<1> QED BY <1>3, <1>4

\* The other steps leave the sink alone, or empty it.
LEMMA OthersKeep ==
  ASSUME ReceiverInv, SessionBegins \/ EndOfFile \/ SessionEnds \/ Cancel \/ Crash \/ UNCHANGED vars
  PROVE  ReceiverInv'
<1> USE DEF directory, sink, outcome
<1>1. CASE SessionBegins
  <2>1. canceled' \in BOOLEAN /\ close_error' \in BOOLEAN /\ file' \in 0..(Len(Batch) + 1)
        /\ sessions' \in 0..MaxSessions
    <3>1. canceled' \in BOOLEAN /\ close_error' \in BOOLEAN
      BY <1>1 DEF SessionBegins
    <3>2. Len(Batch) \in Nat /\ file' = 1
      BY <1>1, ReceiverAssumption DEF SessionBegins
    <3>3. /\ sessions \in 0..MaxSessions /\ sessions < MaxSessions /\ sessions' = sessions + 1
          /\ MaxSessions \in Nat
      BY <1>1, ReceiverAssumption DEF SessionBegins, ReceiverInv, TypeOK
    <3>4. sessions' \in 0..MaxSessions
      BY <3>3
    <3> QED BY <3>1, <3>2, <3>4
  <2>2. TypeOK'
    BY <1>1, <2>1 DEF SessionBegins, ReceiverInv, TypeOK
  <2> QED BY <1>1, <2>2 DEF SessionBegins, ReceiverInv, Directory, Sink, Right, Working
<1>2. CASE EndOfFile
  <2>1. TypeOK' /\ Directory'
    BY <1>2 DEF EndOfFile, ReceiverInv, TypeOK, Directory, Right
  <2>2. UNCHANGED <<Name, Written, stream, buffer, offset, file, close_error, partial>>
    BY <1>2 DEF EndOfFile, Name, Written
  <2>3. pc = "receive" /\ pc' = "flush"
    BY <1>2 DEF EndOfFile
  <2>4. \/ error = "none" /\ error' = "none" /\ offset >= Batch[file].size
        \/ error = "none" /\ error' = "other"
        \/ error = "write" /\ error' = "write"
    BY <1>2 DEF EndOfFile
  <2>5. Sink'
    BY <2>2, <2>3, <2>4 DEF ReceiverInv, Sink, Working, Right
  <2> QED BY <2>1, <2>5 DEF ReceiverInv
<1>3. CASE SessionEnds \/ Crash
  <2>1. /\ pc' = "off" /\ file' = 0 /\ offset' = 0 /\ stream' = "none" /\ buffer' = << >>
        /\ temp' = << >> /\ UNCHANGED <<partial, target, zmodem, error, close_error, canceled, sessions>>
    BY <1>3 DEF SessionEnds, Crash
  <2>2. file' \in 0..(Len(Batch) + 1) /\ Len(buffer') < Capacity
    BY <2>1, ReceiverAssumption
  <2>3. TypeOK'
    BY <2>1, <2>2 DEF ReceiverInv, TypeOK
  <2> QED BY <2>1, <2>3 DEF ReceiverInv, Directory, Sink, Right, Working
<1>4. CASE Cancel
  <2>1. canceled' \in BOOLEAN
    BY <1>4 DEF Cancel
  <2>2. TypeOK'
    BY <1>4, <2>1 DEF Cancel, ReceiverInv, TypeOK
  <2>3. UNCHANGED <<partial, stream, temp, buffer, file, offset, pc, error, close_error>>
    BY <1>4 DEF Cancel
  <2>4. Directory'
    BY <2>3 DEF ReceiverInv, Directory, Right
  <2>5. Sink'
    BY <2>3 DEF ReceiverInv, Sink, Right, Working, Written, Name
  <2> QED BY <2>2, <2>4, <2>5 DEF ReceiverInv
<1>5. CASE UNCHANGED vars
  <2>1. TypeOK'
    BY <1>5 DEF vars, ReceiverInv, TypeOK
  <2>2. Directory'
    BY <1>5 DEF vars, ReceiverInv, Directory, Right
  <2>3. Sink'
    BY <1>5 DEF vars, ReceiverInv, Sink, Right, Working, Written, Name
  <2> QED BY <2>1, <2>2, <2>3 DEF ReceiverInv
<1> QED BY <1>1, <1>2, <1>3, <1>4, <1>5

\* Every step keeps the invariant.
LEMMA ReceiverStep == ReceiverInv /\ [Next]_vars => ReceiverInv'
<1> SUFFICES ASSUME ReceiverInv, [Next]_vars PROVE ReceiverInv'
  OBVIOUS
<1> QED BY BeginKeeps, WriteKeeps, FlushKeeps, CloseKeeps, MoveKeeps, OthersKeep DEF Next, Done

\* The initial states satisfy it.
LEMMA ReceiverInit == Init => ReceiverInv
<1> SUFFICES ASSUME Init PROVE ReceiverInv
  OBVIOUS
<1>1. TypeOK
  <2>1. << >> \in Seq(Bytes) /\ <<Byte(0, 1)>> \in Seq(Bytes)
    BY DEF Byte, Bytes
  <2>2. /\ Len(Batch) \in Nat /\ Capacity \in Nat /\ Capacity > 0 /\ MaxSessions \in Nat
    BY ReceiverAssumption
  <2>3. zmodem \in BOOLEAN /\ close_error \in BOOLEAN /\ canceled \in BOOLEAN
    BY DEF Init
  <2>4. file \in 0..(Len(Batch) + 1) /\ sessions \in 0..MaxSessions /\ offset \in Nat
    BY <2>2 DEF Init
  <2>5. /\ partial \in [Names -> Seq(Bytes)] /\ target \in [Names -> Seq(Bytes)]
        /\ temp \in Seq(Bytes)
    <3>1. partial = [n \in Names |-> << >>] /\ temp = << >>
      BY DEF Init
    <3>2. target \in [Names -> {<< >>, <<Byte(0, 1)>>}]
      BY DEF Init
    <3> QED BY <2>1, <3>1, <3>2
  <2>6. buffer \in Seq(Bytes) /\ Len(buffer) < Capacity
    BY <2>1, <2>2 DEF Init
  <2>7. stream = "none" /\ pc = "off" /\ error = "none"
    BY DEF Init
  <2> QED BY <2>3, <2>4, <2>5, <2>6, <2>7 DEF TypeOK
<1> QED BY <1>1 DEF Init, ReceiverInv, Directory, Sink, Right, Working

\* The invariant of the receiver holds in every reachable state.
THEOREM ReceiverInvariant == Spec => []ReceiverInv
<1> QED BY ReceiverInit, ReceiverStep, PTL DEF Spec

\* What a later session resumes is a gapless beginning of a file, whatever failed or
\* crashed in which order (terminal-transfer-runner.cpp, make_sink_ops).
THEOREM ResumesAPrefix == Spec => []PartialIsPrefix
<1>1. ReceiverInv => PartialIsPrefix
  BY DEF ReceiverInv, Directory, Right, PartialIsPrefix, InPlace, TypeOK
<1> QED BY <1>1, ReceiverInvariant, PTL

-----------------------------------------------------------------------------
(* What was complete, or accepted, is not lost.  Two files of a batch that share a *)
(* name are outside: the second may be resumed from a part of the first.       *)

DistinctNames == \A f \in Files, g \in Files : Batch[f].name = Batch[g].name => f = g

\* No partial file is longer than its file, with what is buffered for it.
SizeKept ==
  /\ \A f \in Files : Len(partial[Batch[f].name]) <= Batch[f].size
  /\ pc \in Working => Len(Written) + Len(buffer) <= Batch[file].size

\* The contents of a name: the user's, or one complete file of the peer.
Whole(bytes) ==
  bytes # << >> /\ bytes[1].file # 0 =>
    /\ InPlace(bytes) /\ OneFile(bytes)
    /\ \E f \in Files : bytes[Len(bytes)].file = f /\ Len(bytes) = Batch[f].size

\* A partial file that changes and is not too long leaves the others as they are.
LEMMA OneChanges ==
  ASSUME DistinctNames, TypeOK, SizeKept, file \in Files, NEW s,
         partial' = partial \/ partial' = [partial EXCEPT ![Name] = s],
         Len(s) <= Batch[file].size
  PROVE  \A f \in Files : Len(partial'[Batch[f].name]) <= Batch[f].size
<1> SUFFICES ASSUME NEW f \in Files PROVE Len(partial'[Batch[f].name]) <= Batch[f].size
  OBVIOUS
<1>1. Batch[f].name \in Names /\ Batch[f].size \in Nat
  BY Named
<1>2. CASE partial' = partial
  BY <1>2 DEF SizeKept
<1>3. CASE partial' = [partial EXCEPT ![Name] = s] /\ f = file
  BY <1>1, <1>3 DEF TypeOK, Name
<1>4. CASE partial' = [partial EXCEPT ![Name] = s] /\ f # file
  <2>1. Batch[f].name # Name
    BY <1>4 DEF DistinctNames, Name
  <2>2. partial'[Batch[f].name] = partial[Batch[f].name]
    BY <1>1, <1>4, <2>1 DEF TypeOK
  <2> QED BY <2>2 DEF SizeKept
<1> QED BY <1>2, <1>3, <1>4

\* What an output changes is the partial file it appends to.
LEMMA OutputChanges ==
  ASSUME TypeOK, file \in Files, NEW s, Output(s), UNCHANGED <<stream, file>>
  PROVE  partial' = partial \/ partial' = [partial EXCEPT ![Name] = Written']
<1>1. Name \in Names
  BY Named DEF Name
<1>2. CASE stream = "append"
  BY <1>1, <1>2 DEF Output, Written, TypeOK, Name
<1>3. CASE stream # "append"
  BY <1>3 DEF Output
<1> QED BY <1>2, <1>3

\* The engine offers no more than the file holds, and a failure writes no more.
LEMMA WriteFits ==
  ASSUME DistinctNames, ReceiverInv, SizeKept, NEW n \in Chunks, Write(n) PROVE SizeKept'
<1> DEFINE all == buffer \o [i \in 1..n |-> Byte(file, offset + i)]
           full == FullBuffers(Len(all))
           first == SubSeq(all, 1, full)
           last == SubSeq(all, full + 1, Len(all))
           size == Batch[file].size
<1>1. /\ pc = "receive" /\ pc \in Working /\ error = "none" /\ ~close_error
      /\ Len(Written) + Len(buffer) = offset /\ n <= size - offset
  BY DEF Write, ReceiverInv, Sink, Working
<1>2. /\ file \in Files /\ DiskTyped /\ Directory /\ Name \in Names /\ buffer \in Seq(Bytes)
      /\ Written \in Seq(Bytes) /\ Right(Name, Written, 0) /\ Right(Name, buffer, Len(Written))
      /\ n \in Nat /\ offset \in Nat /\ size \in Nat /\ TypeOK
  BY <1>1, AtWork, ReceiverAssumption DEF ReceiverInv, TypeOK
<1>3. /\ all \in Seq(Bytes) /\ Len(all) = Len(buffer) + n
      /\ full \in Nat /\ full <= Len(all) /\ Right(Name, all, Len(Written))
  BY <1>1, <1>2, BufferHolds
<1>4. UNCHANGED <<stream, file, pc>>
  BY DEF Write
<1>5. \/ Output(first) /\ buffer' = last
      \/ FlushFails(first)
  BY DEF Write
<1> HIDE DEF all, full, size
<1>6. Len(Written) \in Nat /\ Len(all) \in Nat /\ Len(buffer) \in Nat
  BY <1>2, <1>3
<1>7. first \in Seq(Bytes) /\ Len(first) = full /\ Right(Name, first, Len(Written))
  <2>1. /\ SubSeq(all, 0 + 1, full) \in Seq(Bytes) /\ Len(SubSeq(all, 0 + 1, full)) = full - 0
        /\ Right(Name, SubSeq(all, 0 + 1, full), Len(Written) + 0)
    <3>1. 0 \in Nat /\ 0 <= full
      BY <1>3
    <3> QED BY <1>3, <1>6, <3>1, RightPart
  <2>2. Len(Written) + 0 = Len(Written) /\ full - 0 = full
    BY <1>3, <1>6
  <2> QED BY <2>1, <2>2
<1>8. last \in Seq(Bytes) /\ Len(last) = Len(all) - full
  <2>1. Len(all) <= Len(all)
    BY <1>6
  <2> QED BY <1>3, <1>6, <2>1, RightPart
<1> HIDE DEF first, last
<1>9. Len(Written) + Len(all) <= size
  BY <1>1, <1>2, <1>3, <1>6
<1>10. Name' = Name /\ size' = size
  BY <1>4 DEF Name, size
<1>11. CASE Output(first) /\ buffer' = last
  <2>1. Len(Written') = Len(Written) + full
    BY <1>2, <1>4, <1>7, <1>11, OutputAppends
  <2>2. Len(Written') <= size /\ Len(Written') + Len(buffer') <= size
    BY <1>2, <1>3, <1>6, <1>8, <1>9, <1>11, <2>1
  <2>3. partial' = partial \/ partial' = [partial EXCEPT ![Name] = Written']
    BY <1>2, <1>4, <1>11, OutputChanges
  <2>4. \A f \in Files : Len(partial'[Batch[f].name]) <= Batch[f].size
    BY <1>2, <2>2, <2>3, OneChanges DEF size
  <2> QED BY <1>4, <2>2, <2>4 DEF SizeKept, size
<1>12. CASE FlushFails(first)
  <2>1. buffer' = << >> /\ Len(Written') <= Len(Written) + full /\ Written' \in Seq(Bytes)
    <3>1. DiskTyped'
      BY <1>2, <1>4, <1>7, <1>12, FailedOutput
    <3>2. Written' \in Seq(Bytes)
      BY <1>2, <1>4, <3>1 DEF Written, DiskTyped, Name
    <3> QED BY <1>2, <1>4, <1>7, <1>12, <3>2, FailedOutput
  <2>2. Len(Written') <= size /\ Len(Written') + Len(buffer') <= size
    <3>1. Len(buffer') = 0 /\ Len(Written') \in Nat
      BY <2>1
    <3> QED BY <1>2, <1>3, <1>6, <1>9, <2>1, <3>1
  <2>3. partial' = partial \/ partial' = [partial EXCEPT ![Name] = Written']
    BY <1>2, <1>4, <1>12, OutputChanges DEF FlushFails
  <2>4. \A f \in Files : Len(partial'[Batch[f].name]) <= Batch[f].size
    BY <1>2, <2>2, <2>3, OneChanges DEF size
  <2> QED BY <1>4, <2>2, <2>4 DEF SizeKept, size
<1> QED BY <1>5, <1>11, <1>12

\* The flush writes what is buffered, or a part of it.
LEMMA FlushFits ==
  ASSUME DistinctNames, ReceiverInv, SizeKept, EndFlush PROVE SizeKept'
<1>1. /\ pc = "flush" /\ pc \in Working /\ pc' = "close" /\ UNCHANGED <<stream, file>>
  BY DEF EndFlush, Working
<1>2. /\ file \in Files /\ DiskTyped /\ Directory /\ buffer \in Seq(Bytes) /\ Name \in Names
      /\ Written \in Seq(Bytes) /\ Right(Name, Written, 0) /\ Right(Name, buffer, Len(Written))
      /\ TypeOK /\ Batch[file].size \in Nat
  BY <1>1, AtWork DEF ReceiverInv
<1>3. \/ Output(buffer) /\ buffer' = << >>
      \/ FlushFails(buffer)
  BY DEF EndFlush, Flushes, Flushable
<1>4. /\ buffer' = << >> /\ DiskTyped' /\ Len(Written') <= Len(Written) + Len(buffer)
      /\ partial' = partial \/ partial' = [partial EXCEPT ![Name] = Written']
  <2>1. CASE Output(buffer) /\ buffer' = << >>
    <3>1. Len(Written') = Len(Written) + Len(buffer) /\ DiskTyped'
      BY <1>1, <1>2, <2>1, OutputAppends
    <3>2. Len(Written) + Len(buffer) \in Nat
      BY <1>2
    <3> QED BY <1>1, <1>2, <2>1, <3>1, <3>2, OutputChanges
  <2>2. CASE FlushFails(buffer)
    <3>1. /\ buffer' = << >> /\ DiskTyped' /\ Len(Written') <= Len(Written) + Len(buffer)
      BY <1>1, <1>2, <2>2, FailedOutput
    <3>2. partial' = partial \/ partial' = [partial EXCEPT ![Name] = Written']
      BY <1>1, <1>2, <2>2, OutputChanges DEF FlushFails
    <3> QED BY <3>1, <3>2
  <2> QED BY <1>3, <2>1, <2>2
<1>5. Len(Written') <= Batch[file].size /\ Len(Written') + Len(buffer') <= Batch[file].size
  <2>1. Written' \in Seq(Bytes)
    BY <1>1, <1>2, <1>4 DEF Written, DiskTyped, Name
  <2>2. Len(Written') \in Nat /\ Len(Written) + Len(buffer) \in Nat /\ Len(buffer') = 0
    BY <1>2, <1>4, <2>1
  <2>3. Len(Written) + Len(buffer) <= Batch[file].size
    BY <1>1 DEF SizeKept
  <2> QED BY <1>2, <1>4, <2>2, <2>3
<1>6. \A f \in Files : Len(partial'[Batch[f].name]) <= Batch[f].size
  BY <1>2, <1>4, <1>5, OneChanges
<1> QED BY <1>1, <1>5, <1>6 DEF SizeKept

\* The other steps write nothing of a file.
LEMMA OthersFit ==
  ASSUME DistinctNames, ReceiverInv, SizeKept, [Next]_vars, \A n \in Chunks : ~Write(n), ~EndFlush
  PROVE  SizeKept'
<1> USE DEF directory, sink, outcome
<1>1. CASE SessionBegins \/ SessionEnds \/ Crash
  <2>1. UNCHANGED partial /\ pc' \notin Working
    BY <1>1 DEF SessionBegins, SessionEnds, Crash, Working
  <2> QED BY <2>1 DEF SizeKept
<1>2. CASE Begin
  <2>1. UNCHANGED <<partial, file>> /\ file \in Files
    BY <1>2 DEF Begin
  <2>2. CASE pc' = "over"
    BY <2>1, <2>2 DEF SizeKept, Working
  <2>3. CASE ~(pc' = "over")
    <3>1. /\ offset' = IF zmodem THEN Len(partial[Name]) ELSE 0
          /\ stream' = IF offset' > 0 THEN "append" ELSE "replace"
          /\ temp' = << >> /\ buffer' = << >>
      BY <1>2, <2>3 DEF Begin
    <3>2. /\ Name' = Name /\ Name \in Names /\ Batch[file].size \in Nat
          /\ Len(partial[Name]) <= Batch[file].size
      BY <2>1, Named DEF Name, SizeKept
    <3>3. partial[Name] \in Seq(Bytes)
      BY <3>2 DEF ReceiverInv, TypeOK
    <3>4. Written' = partial[Name] \/ Written' = << >>
      BY <2>1, <3>1, <3>2 DEF Written
    <3>5. Len(Written') \in Nat /\ Len(Written') <= Batch[file].size /\ Len(buffer') = 0
      BY <3>1, <3>2, <3>3, <3>4
    <3>6. Len(Written') + Len(buffer') <= Batch[file].size
      BY <3>2, <3>5
    <3> QED BY <2>1, <3>6 DEF SizeKept
  <2> QED BY <2>2, <2>3
<1>3. CASE EndOfFile \/ Cancel \/ UNCHANGED vars
  <2>1. /\ UNCHANGED <<partial, file, stream, temp, buffer>>
        /\ pc' \in Working => pc \in Working
    BY <1>3 DEF EndOfFile, Cancel, vars, Working
  <2> QED BY <2>1 DEF SizeKept, Written, Name
<1>4. CASE EndClose
  <2>1. pc = "close" /\ pc \in Working /\ UNCHANGED file
    BY <1>4 DEF EndClose, Working
  <2>2. pc' \notin Working
    BY <1>4 DEF EndClose, Working
  <2>3. /\ file \in Files /\ Written \in Seq(Bytes) /\ buffer = << >> /\ TypeOK
        /\ Batch[file].size \in Nat
    BY <2>1, AtWork DEF ReceiverInv, Sink
  <2>4. Len(Written) <= Batch[file].size
    <3>1. Len(Written) \in Nat /\ Len(buffer) = 0 /\ Len(Written) + Len(buffer) <= Batch[file].size
      BY <2>1, <2>3 DEF SizeKept
    <3> QED BY <2>3, <3>1
  <2>5. partial' = partial \/ partial' = [partial EXCEPT ![Name] = Written]
    BY <1>4 DEF EndClose, Written
  <2> QED BY <2>2, <2>3, <2>4, <2>5, OneChanges DEF SizeKept
<1>5. CASE EndMove
  <2>1. pc' \notin Working /\ file \in Files /\ TypeOK
    BY <1>5 DEF EndMove, Working, ReceiverInv, Sink
  <2>2. partial' = partial \/ partial' = [partial EXCEPT ![Name] = << >>]
    BY <1>5 DEF EndMove
  <2>3. Len(<< >>) <= Batch[file].size
    BY <2>1, Named
  <2> QED BY <2>1, <2>2, <2>3, OneChanges DEF SizeKept
<1> QED BY <1>1, <1>2, <1>3, <1>4, <1>5 DEF Next, Done

\* A file has its name only when it is complete.
LEMMA MoveIsWhole ==
  ASSUME DistinctNames, ReceiverInv, SizeKept, TargetIsWhole, [Next]_vars
  PROVE  TargetIsWhole'
<1>1. (\A n \in Names : Whole(target'[n])) => TargetIsWhole'
  BY DEF TargetIsWhole, Whole, InPlace, OneFile, Files
<1>2. \A n \in Names : Whole(target[n])
  BY DEF TargetIsWhole, Whole
<1>3. CASE UNCHANGED target
  BY <1>1, <1>2, <1>3
<1>4. CASE EndMove
  <2>1. /\ pc = "move" /\ file \in Files /\ Len(partial[Name]) = offset
        /\ offset >= Batch[file].size /\ Len(partial[Name]) <= Batch[file].size
        /\ target \in [Names -> Seq(Bytes)] /\ partial \in [Names -> Seq(Bytes)]
        /\ Right(Name, partial[Name], 0)
    BY <1>4, Named DEF EndMove, ReceiverInv, Sink, SizeKept, TypeOK, Directory, Name
  <2>2. Name \in Names /\ Batch[file].size \in Nat
    BY <2>1, Named DEF Name
  <2>3. target' = target \/ target' = [target EXCEPT ![Name] = partial[Name]]
    BY <1>4 DEF EndMove, directory
  <2>4. Whole(partial[Name])
    <3> DEFINE bytes == partial[Name]
    <3>1. bytes \in Seq(Bytes) /\ Len(bytes) \in Nat
      BY <2>1, <2>2
    <3>2. \A i \in 1..Len(bytes) : bytes[i].pos = i /\ bytes[i].file = file
      <4> SUFFICES ASSUME NEW i \in 1..Len(bytes) PROVE bytes[i].pos = i /\ bytes[i].file = file
        OBVIOUS
      <4>1. bytes[i].pos = 0 + i /\ bytes[i].file \in Files /\ Batch[bytes[i].file].name = Name
        BY <2>1 DEF Right
      <4>2. bytes[i].file = file
        BY <2>1, <4>1 DEF DistinctNames, Name
      <4> QED BY <4>1, <4>2
    <3>3. Len(bytes) = Batch[file].size
      BY <2>1, <2>2, <3>1
    <3> HIDE DEF bytes
    <3>4. ASSUME bytes # << >>
          PROVE  /\ InPlace(bytes) /\ OneFile(bytes)
                 /\ bytes[Len(bytes)].file = file /\ Len(bytes) = Batch[file].size
      <4>1. 1 \in 1..Len(bytes) /\ Len(bytes) \in 1..Len(bytes)
        BY <3>1, <3>4
      <4> QED BY <3>2, <3>3, <4>1 DEF InPlace, OneFile
    <3> QED BY <2>1, <3>4 DEF Whole, bytes
  <2>5. \A n \in Names : Whole(target'[n])
    <3> SUFFICES ASSUME NEW n \in Names PROVE Whole(target'[n])
      OBVIOUS
    <3>1. target'[n] = target[n] \/ target'[n] = partial[Name]
      BY <2>1, <2>2, <2>3
    <3> QED BY <1>2, <2>4, <3>1
  <2> QED BY <1>1, <2>5
<1>5. UNCHANGED target \/ EndMove
  BY DEF Next, vars, directory, SessionBegins, Begin, Write, EndOfFile, EndFlush, EndClose,
         SessionEnds, Cancel, Crash, Done
<1> QED BY <1>3, <1>4, <1>5

\* A transfer that ends without a failure of the disk leaves all it accepted.
LEMMA CloseAccepts ==
  ASSUME ReceiverInv, [Next]_vars,
         pc = "close", pc' = "over", error # "write", ~close_error'
  PROVE  Len(partial'[Name]) >= offset
<1>1. EndClose
  BY DEF Next, vars, SessionBegins, Begin, Write, EndOfFile, EndFlush, EndMove,
         SessionEnds, Cancel, Crash, Done
<1>2. PICK closed \in BOOLEAN, replaced \in BOOLEAN :
        /\ closed => replaced
        /\ close_error' = (close_error \/ ~closed)
        /\ partial' = IF stream = "replace" /\ replaced
                        THEN [partial EXCEPT ![Name] = temp] ELSE partial
  BY <1>1 DEF EndClose
<1>3. closed /\ replaced /\ ~close_error
  BY <1>2
<1>4. /\ file \in Files /\ Name \in Names /\ Written \in Seq(Bytes) /\ buffer = << >>
      /\ partial \in [Names -> Seq(Bytes)] /\ pc \in Working
  <2>1. pc \in Working
    BY DEF Working
  <2> QED BY <2>1, AtWork DEF ReceiverInv, Sink, TypeOK
<1>5. stream \in {"append", "replace"} /\ Len(Written) + Len(buffer) = offset
  BY <1>3, <1>4 DEF ReceiverInv, Sink, TypeOK
<1>6. partial'[Name] = Written
  BY <1>2, <1>3, <1>4, <1>5 DEF Written
<1>7. Len(buffer) = 0 /\ Len(Written) \in Nat
  BY <1>4
<1> QED BY <1>5, <1>6, <1>7

\* What a name held goes only for a complete file.
LEMMA MoveReplaces ==
  ASSUME ReceiverInv, [Next]_vars, NEW n \in Names, target[n] # << >>, target'[n] # target[n]
  PROVE  target'[n] = partial[n] /\ error = "none" /\ ~close_error
<1>1. EndMove
  BY DEF Next, vars, directory, SessionBegins, Begin, Write, EndOfFile, EndFlush, EndClose,
         SessionEnds, Cancel, Crash, Done
<1>2. /\ error = "none" /\ ~close_error /\ target \in [Names -> Seq(Bytes)]
  BY <1>1 DEF EndMove, ReceiverInv, Sink, TypeOK
<1>3. target' = target \/ target' = [target EXCEPT ![Name] = partial[Name]]
  BY <1>1 DEF EndMove, directory
<1>4. n = Name /\ target'[n] = partial[n]
  BY <1>2, <1>3
<1> QED BY <1>2, <1>4

\* Neither name of a file ever loses what was complete or accepted: a name holds the
\* user's file or one complete file of the peer, a transfer that fails keeps what it
\* accepted, and the user's file goes only when its replacement is complete
\* (terminal-transfer-runner.cpp, sink.end).
THEOREM NothingIsLost ==
  ASSUME DistinctNames PROVE Spec => NothingLost
<1> DEFINE Kept == ReceiverInv /\ SizeKept /\ TargetIsWhole
<1>1. Init => Kept
  <2> SUFFICES ASSUME Init PROVE Kept
    OBVIOUS
  <2>1. SizeKept
    <3>1. \A f \in Files : Batch[f].name \in Names /\ Batch[f].size \in Nat
      BY Named
    <3> QED BY <3>1 DEF Init, SizeKept, Working
  <2>2. TargetIsWhole
    <3> SUFFICES ASSUME NEW n \in Names, target[n] # << >>, target[n][1].file # 0 PROVE FALSE
      BY DEF TargetIsWhole
    <3>1. target[n] = <<Byte(0, 1)>>
      BY DEF Init
    <3> QED BY <3>1 DEF Byte
  <2> QED BY <2>1, <2>2, ReceiverInit
<1>2. Kept /\ [Next]_vars => Kept'
  <2> SUFFICES ASSUME Kept, [Next]_vars PROVE Kept'
    OBVIOUS
  <2>1. ReceiverInv'
    BY ReceiverStep
  <2>2. SizeKept'
    BY WriteFits, FlushFits, OthersFit
  <2>3. TargetIsWhole'
    BY MoveIsWhole
  <2> QED BY <2>1, <2>2, <2>3
<1>3. Kept => TypeOK /\ TargetIsWhole
  BY DEF ReceiverInv
<1>4. Kept /\ [Next]_vars =>
        [pc = "close" /\ pc' = "over" /\ error # "write" /\ ~close_error' =>
           Len(partial'[Name]) >= offset]_vars
  BY CloseAccepts
<1>5. Kept /\ [Next]_vars =>
        [\A n \in Names : target[n] # << >> /\ target'[n] # target[n] =>
           target'[n] = partial[n] /\ error = "none" /\ ~close_error]_vars
  BY MoveReplaces
<1> QED BY <1>1, <1>2, <1>3, <1>4, <1>5, PTL DEF Spec, NothingLost, KeepsAccepted, NeverLost

-----------------------------------------------------------------------------
(* Sequences in parts.                                                      *)

\* A part of one sequence behind another one, byte by byte.
Behind(s, t, a, b, j) ==
  /\ Len(j) = Len(s) + (b - a)
  /\ \A i \in 1..Len(s) : j[i] = s[i]
  /\ \A i \in 1..(b - a) : j[Len(s) + i] = t[a + i]

LEMMA PartBehind ==
  ASSUME NEW S, NEW s \in Seq(S), NEW t \in Seq(S), NEW a \in Nat, NEW b \in Nat,
         a <= b, b <= Len(t)
  PROVE  s \o SubSeq(t, a + 1, b) \in Seq(S) /\ Behind(s, t, a, b, s \o SubSeq(t, a + 1, b))
<1> DEFINE p == SubSeq(t, a + 1, b)
           j == s \o p
<1>1. p \in Seq(S) /\ Len(p) = b - a /\ \A i \in 1..(b - a) : p[i] = t[a + i]
  <2>1. Len(t) \in Nat /\ \A i \in (a + 1)..b : t[i] \in S BY ElementOfSeq
  <2>2. a + 1 > b => b - a = 0 OBVIOUS
  <2> QED BY <2>1, <2>2
<1> HIDE DEF p
<1>2. /\ j \in Seq(S) /\ Len(j) = Len(s) + Len(p) /\ Len(s) \in Nat
      /\ \A i \in 1..(Len(s) + Len(p)) : j[i] = IF i <= Len(s) THEN s[i] ELSE p[i - Len(s)]
  <2>1. p \in Seq(S) BY <1>1
  <2> QED BY <2>1, ConcatProperties
<1> HIDE DEF j
<1>3. ASSUME NEW i \in 1..Len(s) PROVE j[i] = s[i]
  <2>1. i \in 1..(Len(s) + Len(p)) /\ i <= Len(s) BY <1>1, <1>2
  <2> QED BY <1>2, <2>1
<1>4. ASSUME NEW i \in 1..(b - a) PROVE j[Len(s) + i] = t[a + i]
  <2>1. Len(s) + i \in 1..(Len(s) + Len(p)) /\ ~(Len(s) + i <= Len(s)) /\ (Len(s) + i) - Len(s) = i
    BY <1>1, <1>2
  <2> QED BY <1>1, <1>2, <2>1
<1> QED BY <1>1, <1>2, <1>3, <1>4 DEF j, p, Behind

\* What is left of a sequence.
LEMMA RestOf ==
  ASSUME NEW S, NEW t \in Seq(S), NEW a \in Nat, a <= Len(t)
  PROVE  /\ SubSeq(t, a + 1, Len(t)) \in Seq(S) /\ Len(SubSeq(t, a + 1, Len(t))) = Len(t) - a
         /\ \A i \in 1..(Len(t) - a) : SubSeq(t, a + 1, Len(t))[i] = t[a + i]
<1>1. Len(t) \in Nat /\ \A i \in (a + 1)..Len(t) : t[i] \in S BY ElementOfSeq
<1>2. a + 1 > Len(t) => Len(t) - a = 0 BY <1>1
<1> QED BY <1>1, <1>2

\* Its beginning.
LEMMA BeginOf ==
  ASSUME NEW S, NEW t \in Seq(S), NEW a \in Nat, a <= Len(t)
  PROVE  /\ SubSeq(t, 1, a) \in Seq(S) /\ Len(SubSeq(t, 1, a)) = a
         /\ \A i \in 1..a : SubSeq(t, 1, a)[i] = t[i]
<1>1. Len(t) \in Nat /\ \A i \in 1..a : t[i] \in S BY ElementOfSeq
<1> QED BY <1>1

\* A sequence and what is left of another one make a third, byte by byte.
Joined(s, t, n, u) ==
  /\ Len(u) = Len(s) + (Len(t) - n)
  /\ \A i \in 1..Len(s) : u[i] = s[i]
  /\ \A i \in 1..(Len(t) - n) : u[Len(s) + i] = t[n + i]

LEMMA JoinsPieces ==
  ASSUME NEW S, NEW s \in Seq(S), NEW t \in Seq(S), NEW u \in Seq(S), NEW n \in Nat, n <= Len(t)
  PROVE  (s \o SubSeq(t, n + 1, Len(t)) = u) <=> Joined(s, t, n, u)
<1> DEFINE j == s \o SubSeq(t, n + 1, Len(t))
<1>1. /\ j \in Seq(S) /\ Len(j) = Len(s) + (Len(t) - n)
      /\ \A i \in 1..Len(s) : j[i] = s[i]
      /\ \A i \in 1..(Len(t) - n) : j[Len(s) + i] = t[n + i]
  <2>1. Len(t) \in Nat /\ n <= Len(t) /\ Len(t) <= Len(t) OBVIOUS
  <2>2. j \in Seq(S) /\ Behind(s, t, n, Len(t), j) BY <2>1, PartBehind
  <2> QED BY <2>2 DEF Behind
<1> HIDE DEF j
<1>2. j = u => Joined(s, t, n, u) BY <1>1 DEF Joined
<1>3. ASSUME Joined(s, t, n, u) PROVE j = u
  <2>1. Len(j) = Len(u) BY <1>1, <1>3 DEF Joined
  <2>2. ASSUME NEW i \in 1..Len(j) PROVE j[i] = u[i]
    <3>1. Len(s) \in Nat /\ Len(t) \in Nat OBVIOUS
    <3>2. CASE i <= Len(s)
      BY <1>1, <1>3, <3>1, <3>2 DEF Joined
    <3>3. CASE i > Len(s)
      <4>1. i - Len(s) \in 1..(Len(t) - n) /\ Len(s) + (i - Len(s)) = i BY <1>1, <3>1, <3>3
      <4> QED BY <1>1, <1>3, <4>1 DEF Joined
    <3> QED BY <3>1, <3>2, <3>3
  <2> QED BY <1>1, <2>1, <2>2, SeqEqual
<1> QED BY <1>2, <1>3 DEF j

-----------------------------------------------------------------------------
(* The invariant of a sending.                                              *)

Marks == 0..EOT

\* What was accepted is on the wire or in the buffer, until that is aborted.
Intact == ~bypass => Joined(wire, storage, sent, accepted)

\* The wire is a beginning of what was accepted, with CAN behind it at most.
Cut == \E k \in 0..Len(accepted) :
         \A i \in 1..Len(wire) : wire[i] = IF i <= k THEN accepted[i] ELSE CAN

\* The buffer is at rest outside a flush, and is not used once it is aborted.
Batches ==
  /\ send_pc = "flush" => /\ Buffered /\ ~bypass /\ sent < Len(storage) /\ after # "none"
                          /\ elapsed <= budget
  /\ send_pc # "flush" => sent = 0
  /\ ~Buffered => storage = << >> /\ ~bypass
  /\ bypass => storage = << >> /\ send_error # "none"
  /\ bypass /\ send_pc = "send" => frame \in {<< >>, <<CAN>>}
  /\ send_pc \in {"recv", "done"} => storage = << >>
  /\ send_pc = "over" /\ (~send_canceled \/ send_error = "none") => storage = << >>

\* Where a transfer stands, and what has failed by then.
Stands ==
  /\ send_pc \in {"read", "recv", "done"} => send_error = "none"
  /\ send_pc \in {"failing", "closing"} => send_error # "none"
  /\ send_pc = "flush" => /\ after \in {"recv", "done"} => send_error = "none"
                          /\ after = "over" => send_error # "none"

\* Until something fails, what is accepted of the frame of now is at the end of all
\* that was accepted.
Part == Len(offered) - Len(frame)
Ends(all, whole, n) == \A i \in 1..n : all[Len(all) - n + i] = whole[i]
Behind0 == send_pc \in {"read", "recv", "done", "over"} \/ (send_pc = "flush" /\ after # "send")
Frames ==
  send_error = "none" =>
    /\ Len(frame) <= Len(offered) /\ Part <= Len(accepted)
    /\ \A i \in 1..Len(frame) : frame[i] = offered[Part + i]
    /\ Ends(accepted, offered, Part)
    /\ Behind0 => frame = << >>
    /\ send_pc \in {"done", "over"} \/ (send_pc = "flush" /\ after = "done") => offered = <<EOT>>

\* No byte of the file before the protocol's offset is missing.
Complete ==
  send_error = "none" /\ protocol # "zmodem" =>
    /\ offered = <<EOT>> => at = Size
    /\ \A p \in 1..at : \/ \E i \in 1..Len(accepted) : accepted[i] = p
                        \/ \E i \in 1..Len(frame) : frame[i] = p

SendInv == /\ SendTypeOK /\ Intact /\ Cut /\ SourceExact
           /\ Batches /\ Stands /\ Frames /\ Complete

\* The invariant says every property of a sending.
LEMMA SendInvExact == SendInv => SendExact
<1> SUFFICES ASSUME SendInv PROVE SendExact OBVIOUS
<1> USE DEF SendInv
<1>1. /\ wire \in Seq(Marks) /\ storage \in Seq(Marks) /\ accepted \in Seq(Marks) /\ offered \in Seq(Marks)
      /\ sent \in Nat /\ sent <= Len(storage) /\ Len(accepted) \in Nat /\ Len(wire) \in Nat
  BY DEF SendTypeOK, Marks, Batches
<1>2. StreamExact
  <2>1. ~bypass => wire \o SubSeq(storage, sent + 1, Len(storage)) = accepted
    <3>1. wire \o SubSeq(storage, sent + 1, Len(storage)) = accepted <=> Joined(wire, storage, sent, accepted)
      BY <1>1, JoinsPieces
    <3> QED BY <3>1 DEF Intact
  <2> QED BY <2>1 DEF StreamExact, Cut
<1>3. storage = << >> /\ ~bypass => wire = accepted
  <2> SUFFICES ASSUME storage = << >>, ~bypass PROVE wire = accepted OBVIOUS
  <2>1. Len(storage) = 0 /\ sent = 0 BY <1>1
  <2>2. Len(accepted) = Len(wire) /\ \A i \in 1..Len(wire) : accepted[i] = wire[i]
    BY <1>1, <2>1 DEF Intact, Joined
  <2> QED BY <1>1, <2>2, SeqEqual
<1>4. AnswerSeesAll BY <1>3 DEF AnswerSeesAll, Batches
<1>5. OneDeadline BY DEF OneDeadline, Batches
<1>6. OutcomeTrue
  <2> SUFFICES ASSUME send_pc = "over"
               PROVE /\ send_error = "none" =>
                          /\ wire = accepted /\ wire[Len(wire)] = EOT
                          /\ protocol # "zmodem" => \A p \in 1..Size : \E i \in 1..Len(wire) : wire[i] = p
                     /\ send_error = "engine" /\ ~send_canceled /\ ~bypass => wire = accepted
    BY DEF OutcomeTrue
  <2>1. send_error = "engine" /\ ~send_canceled /\ ~bypass => wire = accepted BY <1>3 DEF Batches
  <2>2. ASSUME send_error = "none"
        PROVE  /\ wire = accepted /\ wire[Len(wire)] = EOT
               /\ protocol # "zmodem" => \A p \in 1..Size : \E i \in 1..Len(wire) : wire[i] = p
    <3>1. ~bypass /\ storage = << >> BY <2>2 DEF Batches, Stands
    <3>2. wire = accepted BY <1>3, <3>1
    <3>3. offered = <<EOT>> /\ frame = << >> BY <2>2 DEF Frames, Behind0
    <3>4. Len(offered) = 1 /\ Len(frame) = 0 /\ Part = 1 /\ offered[1] = EOT BY <3>3 DEF Part
    <3>5. 1 <= Len(accepted) /\ accepted[Len(accepted) - 1 + 1] = EOT
      BY <2>2, <3>4 DEF Frames, Ends
    <3>6. accepted[Len(accepted)] = EOT BY <1>1, <3>5
    <3>7. protocol # "zmodem" => \A p \in 1..Size : \E i \in 1..Len(wire) : wire[i] = p
      BY <2>2, <3>2, <3>3, <3>4 DEF Complete
    <3> QED BY <3>2, <3>6, <3>7
  <2> QED BY <2>1, <2>2
<1> QED BY <1>2, <1>4, <1>5, <1>6 DEF SendExact

-----------------------------------------------------------------------------
(* The steps that move no byte.                                             *)

\* They leave the bytes where they are; a flush begins at the buffer's beginning.
Rests == /\ UNCHANGED <<protocol, source, frame, offered, batching, accepted, wire, repeats>>
         /\ sent' = sent

\* What is said of bytes stays so.
LEMMA RestKeeps ==
  ASSUME SendInv, Rests PROVE Intact' /\ Cut' /\ SourceExact'
<1>1. UNCHANGED <<stream_pos, prefetch, eof, at, storage, bypass, accepted, wire, sent>>
  BY DEF Rests, source, batching
<1>2. Intact' BY <1>1 DEF SendInv, Intact, Joined
<1>3. Cut' BY <1>1 DEF SendInv, Cut
<1>4. SourceExact' BY <1>1 DEF SendInv, SourceExact
<1> QED BY <1>2, <1>3, <1>4

\* What remains of the types.
LEMMA RestTypes ==
  ASSUME SendInv, Rests, elapsed' \in {elapsed, 0},
         after' \in {"none", "send", "recv", "done", "over"},
         send_pc' \in {"read", "send", "flush", "recv", "done", "failing", "closing", "over"},
         send_error' \in {"none", "engine", "transport", "canceled"}, send_canceled' \in BOOLEAN
  PROVE  SendTypeOK'
<1>1. SendTypeOK BY DEF SendInv
<1>2. 0 \in 0..MaxBudget BY SenderAssumption
<1>3. elapsed' \in 0..MaxBudget BY <1>1, <1>2 DEF SendTypeOK
<1>4. UNCHANGED <<protocol, stream_pos, prefetch, eof, at, frame, offered, storage, budget, bypass, accepted,
                  wire, repeats, sent>>
  BY DEF Rests, source, batching
<1> QED BY <1>1, <1>3, <1>4 DEF SendTypeOK

\* The beginning of a flush, or none where there is nothing to send.
LEMMA FlushStarts ==
  ASSUME SendInv, send_pc # "flush", NEW return, FlushBegins(return)
  PROVE  /\ sent' = sent /\ elapsed' = 0
         /\ \/ (bypass \/ storage = << >>) /\ send_pc' = return /\ after' = "none"
            \/ ~bypass /\ storage # << >> /\ send_pc' = "flush" /\ after' = return /\ Len(storage) > 0
<1>1. sent = 0 /\ storage \in Seq(0..EOT) BY DEF SendInv, Batches, SendTypeOK
<1>2. storage # << >> => Len(storage) > 0 BY <1>1
<1> QED BY <1>1, <1>2 DEF FlushBegins

\* The frame is out of the protocol's hands.
LEMMA AwaitAnswerKeeps == ASSUME SendInv, AwaitAnswer PROVE SendInv'
<1>1. Rests /\ send_pc = "send" /\ frame = << >> /\ send_error = "none" /\ UNCHANGED <<send_error, send_canceled>>
      /\ \/ send_pc' = "recv" /\ elapsed' \in {elapsed, 0} /\ after' \in {after, "none"}
            /\ (bypass \/ storage = << >>)
         \/ /\ Buffered /\ ~bypass /\ send_pc' = "flush" /\ after' = "recv" /\ Len(storage) > 0
            /\ elapsed' = 0
  <2>1. send_pc = "send" /\ frame = << >> /\ send_error = "none" /\ UNCHANGED <<send_error, send_canceled>>
        /\ UNCHANGED <<protocol, source, frame, offered, batching, accepted, wire, repeats>>
        /\ IF Buffered THEN FlushBegins("recv") ELSE send_pc' = "recv" /\ UNCHANGED flush
    BY DEF AwaitAnswer, DrainsFirst
  <2>2. CASE Buffered BY <2>1, <2>2, FlushStarts DEF Rests
  <2>3. CASE ~Buffered BY <2>1, <2>3 DEF Rests, flush, SendInv, Batches
  <2> QED BY <2>2, <2>3
<1>2. SendTypeOK' BY <1>1, RestTypes DEF SendInv, SendTypeOK
<1>3. Batches'
  BY <1>1 DEF SendInv, SendTypeOK, Batches, Rests, source, batching, Buffered
<1>4. Stands' BY <1>1 DEF Stands
<1>5. Frames' BY <1>1 DEF SendInv, Frames, Behind0, Ends, Part, Rests
<1>6. Complete' BY <1>1 DEF SendInv, Complete, Rests, source
<1> QED BY <1>1, <1>2, <1>3, <1>4, <1>5, <1>6, RestKeeps DEF SendInv

\* A frame that is streamed is followed by the next one.
LEMMA StreamKeeps == ASSUME SendInv, Stream PROVE SendInv'
<1>1. /\ Rests /\ send_pc = "send" /\ frame = << >> /\ send_error = "none" /\ send_pc' = "read"
      /\ UNCHANGED <<send_error, send_canceled, elapsed, after>>
  BY DEF Stream, Rests, flush
<1>2. SendTypeOK' BY <1>1, RestTypes DEF SendInv, SendTypeOK
<1>3. Batches' BY <1>1 DEF SendInv, SendTypeOK, Batches, Rests, source, batching, Buffered
<1>4. Stands' BY <1>1 DEF Stands
<1>5. Frames' BY <1>1 DEF SendInv, Frames, Behind0, Ends, Part, Rests
<1>6. Complete' BY <1>1 DEF SendInv, Complete, Rests, source
<1> QED BY <1>1, <1>2, <1>3, <1>4, <1>5, <1>6, RestKeeps DEF SendInv

\* An answer lets the protocol go on, or ends it behind EOT.
LEMMA AcknowledgedKeeps == ASSUME SendInv, Acknowledged PROVE SendInv'
<1>1. /\ Rests /\ send_pc = "recv" /\ send_error = "none" /\ frame = << >> /\ storage = << >>
      /\ UNCHANGED <<send_error, send_canceled>> /\ elapsed' \in {elapsed, 0} /\ after' \in {after, "none"}
      /\ send_pc' = "read" \/ (send_pc' = "done" /\ offered = <<EOT>>)
  <2>1. /\ send_pc = "recv" /\ send_error = "none" /\ frame = << >> /\ storage = << >>
        /\ UNCHANGED <<protocol, source, frame, offered, batching, accepted, wire, send_error,
                       send_canceled, repeats>>
        /\ IF offered = <<EOT>> THEN FlushBegins("done") ELSE send_pc' = "read" /\ UNCHANGED flush
    BY DEF Acknowledged, SendInv, Stands, Frames, Behind0, Batches
  <2>2. CASE offered = <<EOT>> BY <2>1, <2>2, FlushStarts DEF Rests
  <2>3. CASE offered # <<EOT>> BY <2>1, <2>3 DEF Rests, flush
  <2> QED BY <2>2, <2>3
<1>2. SendTypeOK' BY <1>1, RestTypes DEF SendInv, SendTypeOK
<1>3. Batches' BY <1>1 DEF SendInv, SendTypeOK, Batches, Rests, source, batching, Buffered
<1>4. Stands' BY <1>1 DEF Stands
<1>5. Frames' BY <1>1 DEF SendInv, Frames, Behind0, Ends, Part, Rests
<1>6. Complete' BY <1>1 DEF SendInv, Complete, Rests, source
<1> QED BY <1>1, <1>2, <1>3, <1>4, <1>5, <1>6, RestKeeps DEF SendInv

\* The protocol fails, or has told the peer so.
LEMMA FailureKeeps == ASSUME SendInv, EngineFails \/ Notified PROVE SendInv'
<1>1. /\ Rests /\ send_pc \in {"read", "recv", "send"} /\ send_pc' \in {"failing", "closing"}
      /\ send_error' \in {"engine", "canceled", "transport"}
      /\ UNCHANGED <<send_canceled, elapsed, after>>
  <2>1. CASE EngineFails BY <2>1 DEF EngineFails, Rests, flush
  <2>2. CASE Notified BY <2>2 DEF Notified, Rests, flush, SendInv, SendTypeOK
  <2> QED BY <2>1, <2>2
<1>2. SendTypeOK' BY <1>1, RestTypes DEF SendInv, SendTypeOK
<1>3. Batches' BY <1>1 DEF SendInv, SendTypeOK, Batches, Rests, source, batching, Buffered
<1>4. Stands' BY <1>1 DEF Stands
<1>5. Frames' BY <1>1 DEF Frames
<1>6. Complete' BY <1>1 DEF Complete
<1> QED BY <1>1, <1>2, <1>3, <1>4, <1>5, <1>6, RestKeeps DEF SendInv

\* A failed transfer ends with a last flush, unless it is cancelled.
LEMMA ClosesKeeps == ASSUME SendInv, Closes PROVE SendInv'
<1>1. /\ Rests /\ send_pc = "closing" /\ send_error # "none" /\ UNCHANGED <<send_error, send_canceled>>
      /\ \/ send_pc' = "over" /\ elapsed' \in {elapsed, 0} /\ after' \in {after, "none"}
            /\ (storage = << >> \/ send_canceled)
         \/ /\ Buffered /\ ~bypass /\ send_pc' = "flush" /\ after' = "over" /\ Len(storage) > 0
            /\ elapsed' = 0
  <2>1. /\ send_pc = "closing" /\ send_error # "none"
        /\ UNCHANGED <<protocol, source, frame, offered, batching, accepted, wire, send_error,
                       send_canceled, repeats>>
        /\ IF Buffered /\ ~send_canceled THEN FlushBegins("over") ELSE send_pc' = "over" /\ UNCHANGED flush
    BY DEF Closes, LastFlush, SendInv, Stands
  <2>2. CASE Buffered /\ ~send_canceled
    BY <2>1, <2>2, FlushStarts DEF Rests, SendInv, Batches
  <2>3. CASE ~(Buffered /\ ~send_canceled)
    <3>1. storage = << >> \/ send_canceled BY <2>3 DEF SendInv, Batches, SendTypeOK
    <3> QED BY <2>1, <2>3, <3>1 DEF Rests, flush
  <2> QED BY <2>2, <2>3
<1>2. SendTypeOK' BY <1>1, RestTypes DEF SendInv, SendTypeOK
<1>3. Batches' BY <1>1 DEF SendInv, SendTypeOK, Batches, Rests, source, batching, Buffered
<1>4. Stands' BY <1>1 DEF Stands
<1>5. Frames' BY <1>1 DEF Frames
<1>6. Complete' BY <1>1 DEF Complete
<1> QED BY <1>1, <1>2, <1>3, <1>4, <1>5, <1>6, RestKeeps DEF SendInv

\* It is over, or cancelled.
LEMMA OverKeeps == ASSUME SendInv, Finished \/ CancelSend \/ UNCHANGED sender PROVE SendInv'
<1>1. /\ Rests /\ UNCHANGED <<send_error, elapsed, after>> /\ send_canceled' \in {send_canceled, TRUE}
      /\ \/ send_pc = "done" /\ send_pc' = "over" /\ send_canceled' = send_canceled
         \/ send_pc # "over" /\ send_pc' = send_pc
         \/ send_pc' = send_pc /\ send_canceled' = send_canceled
  BY DEF Finished, CancelSend, Rests, flush, sender
<1>2. SendTypeOK'
  <2>1. /\ send_error' = send_error /\ elapsed' = elapsed /\ after' = after /\ send_canceled' \in {send_canceled, TRUE}
        /\ send_pc' \in {send_pc, "over"}
    BY <1>1
  <2>2. /\ elapsed' \in {elapsed, 0} /\ after' \in {"none", "send", "recv", "done", "over"}
        /\ send_error' \in {"none", "engine", "transport", "canceled"} /\ send_canceled' \in BOOLEAN
    BY <2>1 DEF SendInv, SendTypeOK
  <2>3. send_pc' \in {"read", "send", "flush", "recv", "done", "failing", "closing", "over"}
    BY <2>1 DEF SendInv, SendTypeOK
  <2> QED BY <1>1, <2>2, <2>3, RestTypes
<1>3. Batches' BY <1>1 DEF SendInv, SendTypeOK, Batches, Rests, source, batching, Buffered
<1>4. Stands' BY <1>1 DEF SendInv, Stands
<1>5. Frames' BY <1>1 DEF SendInv, Frames, Behind0, Ends, Part, Rests
<1>6. Complete' BY <1>1 DEF SendInv, Complete, Rests, source
<1> QED BY <1>1, <1>2, <1>3, <1>4, <1>5, <1>6, RestKeeps DEF SendInv

-----------------------------------------------------------------------------
(* The steps that make or choose a frame.                                    *)

\* A frame that is refused is all to be sent again.
LEMMA RefusedKeeps == ASSUME SendInv, Refused PROVE SendInv'
<1>1. /\ send_pc = "recv" /\ send_pc' = "send" /\ frame' = offered /\ frame = << >> /\ repeats' \in Nat
      /\ repeats' \in 0..MaxRepeats /\ send_error = "none" /\ ~bypass /\ protocol # "zmodem"
      /\ UNCHANGED <<protocol, source, stream_pos, prefetch, eof, at, offered, storage, budget, bypass, sent,
                     elapsed, after, accepted, wire, send_error, send_canceled>>
  <2>1. repeats' \in 0..MaxRepeats BY SenderAssumption DEF Refused, SendInv, SendTypeOK
  <2>2. frame = << >> BY DEF Refused, SendInv, Frames, Behind0, Stands
  <2> QED BY <2>1, <2>2 DEF Refused, source, batching, flush, SendInv, Batches, Stands
<1>2. SendTypeOK' BY <1>1 DEF SendInv, SendTypeOK
<1>3. Intact' BY <1>1 DEF SendInv, Intact, Joined
<1>4. Cut' BY <1>1 DEF SendInv, Cut
<1>5. SourceExact' BY <1>1 DEF SendInv, SourceExact
<1>6. Batches' BY <1>1 DEF SendInv, Batches, Buffered
<1>7. Stands' BY <1>1 DEF Stands
<1>8. Frames'
  <2>1. Len(offered) \in Nat /\ Len(accepted) \in Nat BY DEF SendInv, SendTypeOK
  <2>2. Part' = 0 BY <1>1, <2>1 DEF Part
  <2>3. \A i \in 1..Len(frame') : frame'[i] = offered[Part' + i] BY <1>1, <2>1, <2>2
  <2> QED BY <1>1, <2>1, <2>2, <2>3 DEF Frames, Behind0, Ends
<1>9. Complete'
  <2>1. Len(frame) = 0 BY <1>1
  <2>2. \A p \in 1..at : \E i \in 1..Len(accepted) : accepted[i] = p BY <1>1, <2>1 DEF SendInv, Complete
  <2> QED BY <1>1, <2>2 DEF SendInv, Complete
<1> QED BY <1>2, <1>3, <1>4, <1>5, <1>6, <1>7, <1>8, <1>9 DEF SendInv

\* A failed protocol may have one CAN to send.
LEMMA NotifiesKeeps == ASSUME SendInv, Notifies PROVE SendInv'
<1>1. /\ send_pc = "failing" /\ send_pc' \in {"send", "closing"} /\ frame' \in {<< >>, <<CAN>>}
      /\ send_error # "none"
      /\ UNCHANGED <<protocol, source, stream_pos, prefetch, eof, at, offered, storage, budget, bypass, sent,
                     elapsed, after, accepted, wire, send_error, send_canceled, repeats>>
  BY DEF Notifies, source, batching, flush, SendInv, Stands
<1>2. SendTypeOK'
  <2>1. CAN \in 0..EOT BY SenderAssumption DEF CAN, EOT
  <2>2. << >> \in Seq(0..EOT) /\ <<CAN>> \in Seq(0..EOT) BY <2>1
  <2>3. frame' \in Seq(0..EOT) BY <1>1, <2>2
  <2>4. send_pc' \in {"send", "closing"} BY <1>1
  <2> QED BY <1>1, <2>3, <2>4 DEF SendInv, SendTypeOK
<1>3. Intact' BY <1>1 DEF SendInv, Intact, Joined
<1>4. Cut' BY <1>1 DEF SendInv, Cut
<1>5. SourceExact' BY <1>1 DEF SendInv, SourceExact
<1>6. Batches' BY <1>1 DEF SendInv, Batches, Buffered
<1>7. Stands' BY <1>1 DEF Stands
<1>8. Frames' /\ Complete' BY <1>1 DEF Frames, Complete
<1> QED BY <1>2, <1>3, <1>4, <1>5, <1>6, <1>7, <1>8 DEF SendInv

\* The source is repositioned, and forgets what it read ahead.
LEMMA SeekKeeps == ASSUME SendInv, NEW to \in 0..Size, Seek(to) PROVE SendInv'
<1>1. /\ send_pc = "recv" /\ send_pc' = "read" /\ protocol = "zmodem" /\ repeats' \in 0..MaxRepeats
      /\ stream_pos' = to /\ at' = to /\ prefetch' = << >> /\ eof' = FALSE
      /\ UNCHANGED <<protocol, frame, offered, storage, budget, bypass, sent,
                     elapsed, after, accepted, wire, send_error, send_canceled>>
  <2>1. repeats' \in 0..MaxRepeats BY SenderAssumption DEF Seek, SendInv, SendTypeOK
  <2> QED BY <2>1 DEF Seek, DropsPrefetch, batching, flush
<1>2. SendTypeOK'
  <2>1. prefetch' \in Seq(1..Size) /\ Len(prefetch') <= SourceSize BY <1>1, SenderAssumption
  <2> QED BY <1>1, <2>1 DEF SendInv, SendTypeOK
<1>3. Intact' BY <1>1 DEF SendInv, Intact, Joined
<1>4. Cut' BY <1>1 DEF SendInv, Cut
<1>5. SourceExact' BY <1>1 DEF SourceExact
<1>6. Batches' BY <1>1 DEF SendInv, Batches, Buffered
<1>7. Stands' BY <1>1 DEF SendInv, Stands
<1>8. Frames' BY <1>1 DEF SendInv, Frames, Behind0, Ends, Part
<1>9. Complete' BY <1>1 DEF Complete
<1> QED BY <1>2, <1>3, <1>4, <1>5, <1>6, <1>7, <1>8, <1>9 DEF SendInv

\* The next frame is read, behind what was read before.
LEMMA ReadFrameKeeps == ASSUME SendInv, ReadFrame PROVE SendInv'
<1>0. PICK fill \in 0..Least(SourceSize, Size - stream_pos) :
      /\ fill = 0 => ~Refills \/ stream_pos = Size
      /\ ~Refills => fill = 0
      /\ stream_pos' = stream_pos + fill
      /\ eof' = (eof \/ (Refills /\ fill = 0))
      /\ prefetch' = SubSeq(Available(fill), Least(FrameSize, Len(Available(fill))) + 1, Len(Available(fill)))
      /\ frame' = IF Least(FrameSize, Len(Available(fill))) > 0
                  THEN SubSeq(Available(fill), 1, Least(FrameSize, Len(Available(fill)))) ELSE <<EOT>>
      /\ at' = at + Least(FrameSize, Len(Available(fill)))
  BY DEF ReadFrame
<1> DEFINE have == Available(fill)
           count == Least(FrameSize, Len(have))
<1>1. /\ send_pc = "read" /\ send_pc' = "send" /\ offered' = frame' /\ send_error = "none" /\ frame = << >>
      /\ ~bypass
      /\ UNCHANGED <<protocol, storage, budget, bypass, sent, elapsed, after, accepted, wire, send_error,
                     send_canceled, repeats>>
  BY DEF ReadFrame, batching, flush, SendInv, Batches, Stands, Frames, Behind0
<1>2. /\ SourceSize \in Nat /\ Size \in Nat /\ FrameSize \in Nat /\ FrameSize > 0 /\ stream_pos \in 0..Size
      /\ at \in 0..Size /\ prefetch \in Seq(1..Size) /\ Len(prefetch) \in Nat /\ Len(prefetch) <= SourceSize
      /\ stream_pos = at + Len(prefetch) /\ \A i \in 1..Len(prefetch) : prefetch[i] = at + i
      /\ eof => at = Size
  BY SenderAssumption DEF SendInv, SendTypeOK, SourceExact
<1>3. fill \in Nat /\ fill <= SourceSize /\ stream_pos + fill <= Size BY <1>0, <1>2 DEF Least
<1>4. /\ have \in Seq(1..Size) /\ Len(have) <= SourceSize /\ Len(have) \in Nat
      /\ \A i \in 1..Len(have) : have[i] = at + i
      /\ stream_pos' = at + Len(have)
  <2>1. CASE Refills
    <3>0. stream_pos' = stream_pos + fill BY <1>0
    <3>1. prefetch = << >> /\ Len(prefetch) = 0 /\ stream_pos = at BY <1>2, <2>1 DEF Refills
    <3>2. have = [i \in 1..fill |-> stream_pos + i] BY <2>1 DEF Available, From
    <3>3. \A i \in 1..fill : stream_pos + i \in 1..Size BY <1>2, <1>3
    <3>4. have \in Seq(1..Size) /\ Len(have) = fill BY <1>3, <3>2, <3>3
    <3> QED BY <1>2, <1>3, <3>0, <3>1, <3>2, <3>4
  <2>2. CASE ~Refills
    <3>1. have = prefetch /\ fill = 0 /\ stream_pos' = stream_pos + fill BY <1>0, <2>2 DEF Available
    <3> QED BY <1>2, <3>1
  <2> QED BY <2>1, <2>2
<1>5. count \in Nat /\ count <= Len(have) /\ (count = 0 <=> Len(have) = 0) BY <1>2, <1>4 DEF Least
<1>6. /\ prefetch' = SubSeq(have, count + 1, Len(have)) /\ at' = at + count
      /\ frame' = IF count > 0 THEN SubSeq(have, 1, count) ELSE <<EOT>>
      /\ stream_pos' = stream_pos + fill /\ eof' = (eof \/ (Refills /\ fill = 0))
  BY <1>0
<1>7. Len(have) = 0 => at = Size
  <2>1. Len(have) = 0 => stream_pos' = at BY <1>2, <1>4
  <2>2. CASE Refills /\ Len(have) = 0
    <3>1. have = [i \in 1..fill |-> stream_pos + i] BY <2>2 DEF Available, From
    <3>2. fill = 0 BY <1>3, <2>2, <3>1
    <3>3. stream_pos = Size /\ prefetch = << >> BY <1>0, <2>2, <3>2 DEF Refills
    <3>4. Len(prefetch) = 0 BY <3>3
    <3> QED BY <1>2, <3>3, <3>4
  <2>3. CASE ~Refills /\ Len(have) = 0
    <3>1. have = prefetch BY <2>3 DEF Available
    <3>2. eof BY <1>2, <2>3, <3>1 DEF Refills
    <3> QED BY <1>2, <3>2
  <2> QED BY <2>2, <2>3
<1>8. Refills /\ fill = 0 => Len(have) = 0
  <2>1. Refills => have = [i \in 1..fill |-> stream_pos + i] BY DEF Available, From
  <2> QED BY <1>3, <2>1
<1> HIDE DEF have, count
<1>9. prefetch' \in Seq(1..Size) /\ Len(prefetch') = Len(have) - count
      /\ \A i \in 1..(Len(have) - count) : prefetch'[i] = have[count + i]
  BY <1>4, <1>5, <1>6, RestOf
<1>10. /\ frame' \in Seq(0..EOT)
       /\ count > 0 => Len(frame') = count /\ \A i \in 1..count : frame'[i] = have[i] /\ have[i] \in 1..Size
       /\ count = 0 => frame' = <<EOT>>
  <2>1. CASE count > 0
    <3>1. frame' \in Seq(1..Size) /\ Len(frame') = count /\ \A i \in 1..count : frame'[i] = have[i]
      BY <1>4, <1>5, <1>6, <2>1, BeginOf
    <3>2. ASSUME NEW i \in 1..count PROVE have[i] \in 1..Size
      <4>1. i \in 1..Len(have) BY <1>4, <1>5
      <4> QED BY <1>4, <4>1, ElementOfSeq
    <3>3. 1..Size \subseteq 0..EOT BY <1>2 DEF EOT
    <3>4. Seq(1..Size) \subseteq Seq(0..EOT) BY <3>3, SeqMonotonic
    <3> QED BY <2>1, <3>1, <3>2, <3>4
  <2>2. CASE count = 0
    <3>1. frame' = <<EOT>> BY <1>6, <2>2
    <3>2. EOT \in 0..EOT BY <1>2 DEF EOT
    <3> QED BY <2>2, <3>1, <3>2
  <2> QED BY <1>5, <2>1, <2>2
<1>11. at' \in 0..Size /\ stream_pos' \in 0..Size /\ stream_pos' = at' + Len(prefetch')
  <2>1. Len(prefetch') = Len(have) - count /\ at' = at + count /\ at \in Nat BY <1>2, <1>6, <1>9
  <2>2. stream_pos' = at + Len(have) /\ stream_pos' <= Size BY <1>2, <1>3, <1>4, <1>6
  <2>3. Len(have) \in Nat /\ count \in Nat /\ count <= Len(have) /\ Size \in Nat BY <1>2, <1>4, <1>5
  <2> QED BY <2>1, <2>2, <2>3
<1>12. SendTypeOK'
  <2>1. Len(prefetch') <= SourceSize BY <1>2, <1>4, <1>5, <1>9
  <2>2. eof' \in BOOLEAN BY <1>6 DEF SendInv, SendTypeOK
  <2> QED BY <1>1, <1>9, <1>10, <1>11, <2>1, <2>2 DEF SendInv, SendTypeOK
<1>13. SourceExact'
  <2>1. \A i \in 1..Len(prefetch') : prefetch'[i] = at' + i
    <3> SUFFICES ASSUME NEW i \in 1..(Len(have) - count) PROVE prefetch'[i] = at' + i BY <1>9
    <3>1. count + i \in 1..Len(have) BY <1>4, <1>5
    <3>2. prefetch'[i] = at + (count + i) BY <1>4, <1>9, <3>1
    <3> QED BY <1>2, <1>5, <1>6, <3>2
  <2>2. eof' => at' = Size
    <3>1. eof => Len(have) = 0 \/ at = Size BY <1>2
    <3>2. eof => at' = Size BY <1>2, <1>4, <1>5, <1>6, <1>11
    <3>3. Refills /\ fill = 0 => at' = Size BY <1>2, <1>5, <1>6, <1>7, <1>8
    <3> QED BY <1>6, <3>2, <3>3
  <2> QED BY <1>11, <2>1, <2>2 DEF SourceExact
<1>14. Intact' /\ Cut' BY <1>1 DEF SendInv, Intact, Joined, Cut
<1>15. Batches' BY <1>1 DEF SendInv, Batches, Buffered
<1>16. Stands' BY <1>1 DEF Stands
<1>17. Frames'
  <2>1. Len(frame') \in Nat /\ Len(accepted) \in Nat BY <1>10 DEF SendInv, SendTypeOK
  <2>2. Part' = 0 BY <1>1, <2>1 DEF Part
  <2>3. \A i \in 1..Len(frame') : frame'[i] = offered'[Part' + i] BY <1>1, <2>1, <2>2
  <2> QED BY <1>1, <2>1, <2>2, <2>3 DEF Frames, Behind0, Ends
<1>18. Complete'
  <2> SUFFICES ASSUME protocol # "zmodem"
               PROVE  /\ offered' = <<EOT>> => at' = Size
                      /\ \A p \in 1..at' : \/ \E i \in 1..Len(accepted) : accepted[i] = p
                                           \/ \E i \in 1..Len(frame') : frame'[i] = p
    BY <1>1 DEF Complete
  <2>1. offered' = <<EOT>> => at' = Size
    <3>1. count > 0 => frame'[1] # EOT BY <1>2, <1>5, <1>10 DEF EOT
    <3>2. offered' = <<EOT>> => count = 0 BY <1>1, <1>5, <3>1
    <3> QED BY <1>2, <1>5, <1>6, <1>7, <3>2
  <2>2. Len(frame) = 0 BY <1>1
  <2>3. \A p \in 1..at : \E i \in 1..Len(accepted) : accepted[i] = p BY <1>1, <2>2 DEF SendInv, Complete
  <2>4. ASSUME NEW p \in 1..at', ~(p \in 1..at) PROVE \E i \in 1..Len(frame') : frame'[i] = p
    <3>1. p - at \in 1..count /\ count > 0 BY <1>2, <1>5, <1>6, <2>4
    <3>2. p - at \in 1..Len(have) /\ have[p - at] = at + (p - at) BY <1>4, <1>5, <3>1
    <3>3. p - at \in 1..Len(frame') /\ frame'[p - at] = p BY <1>2, <1>10, <3>1, <3>2
    <3> QED BY <3>3
  <2> QED BY <2>1, <2>3, <2>4
<1> QED BY <1>12, <1>13, <1>14, <1>15, <1>16, <1>17, <1>18 DEF SendInv

-----------------------------------------------------------------------------
(* The steps that move bytes.                                               *)

\* The types of what the steps below move.
LEMMA Moved ==
  ASSUME SendInv
  PROVE  /\ wire \in Seq(Marks) /\ storage \in Seq(Marks) /\ accepted \in Seq(Marks) /\ frame \in Seq(Marks)
         /\ offered \in Seq(Marks) /\ sent \in Nat /\ sent <= Len(storage)
         /\ Len(wire) \in Nat /\ Len(storage) \in Nat /\ Len(accepted) \in Nat /\ Len(frame) \in Nat
         /\ Len(offered) \in Nat /\ Len(storage) <= SendCapacity /\ SendCapacity \in Nat /\ SendCapacity > 0
BY SenderAssumption DEF SendInv, SendTypeOK, Marks, Batches

\* While the buffer is in use the wire is a beginning of what was accepted.
LEMMA IntactCut ==
  ASSUME wire \in Seq(Marks), accepted \in Seq(Marks), Len(wire) <= Len(accepted),
         \A i \in 1..Len(wire) : accepted[i] = wire[i]
  PROVE  Cut
<1>1. Len(wire) \in 0..Len(accepted) OBVIOUS
<1>2. \A i \in 1..Len(wire) : wire[i] = IF i <= Len(wire) THEN accepted[i] ELSE CAN BY <1>1
<1> QED BY <1>1, <1>2 DEF Cut

\* A flush puts the next part of the buffer on the wire.
Sends(n) == wire' = wire \o SubSeq(storage, sent + 1, sent + n)

LEMMA FlushPart ==
  ASSUME SendInv, ~bypass, NEW n \in Nat, n <= Len(storage) - sent, Sends(n)
  PROVE  /\ wire' \in Seq(Marks) /\ Len(wire') = Len(wire) + n /\ Len(wire') <= Len(accepted)
         /\ \A i \in 1..Len(wire') : accepted[i] = wire'[i]
         /\ Joined(wire', storage, sent + n, accepted)
<1>1. /\ wire \in Seq(Marks) /\ storage \in Seq(Marks) /\ sent \in Nat /\ Len(wire) \in Nat
      /\ Len(storage) \in Nat /\ Len(accepted) \in Nat /\ sent <= Len(storage)
  BY Moved
<1>2. wire' \in Seq(Marks) /\ Behind(wire, storage, sent, sent + n, wire')
  <2>1. sent + n \in Nat /\ sent <= sent + n /\ sent + n <= Len(storage) BY <1>1
  <2> QED BY <1>1, <2>1, PartBehind DEF Sends
<1>3. /\ Len(wire') = Len(wire) + n /\ \A i \in 1..Len(wire) : wire'[i] = wire[i]
      /\ \A i \in 1..n : wire'[Len(wire) + i] = storage[sent + i]
  <2>1. (sent + n) - sent = n BY <1>1
  <2> QED BY <1>2, <2>1 DEF Behind
<1>4. /\ Len(accepted) = Len(wire) + (Len(storage) - sent)
      /\ \A i \in 1..Len(wire) : accepted[i] = wire[i]
      /\ \A i \in 1..(Len(storage) - sent) : accepted[Len(wire) + i] = storage[sent + i]
  BY DEF SendInv, Intact, Joined
<1>5. ASSUME NEW i \in 1..Len(wire') PROVE accepted[i] = wire'[i]
  <2>1. CASE i <= Len(wire) BY <1>1, <1>3, <1>4, <2>1
  <2>2. CASE i > Len(wire)
    <3>1. i - Len(wire) \in 1..n /\ Len(wire) + (i - Len(wire)) = i BY <1>1, <1>3, <2>2
    <3>2. i - Len(wire) \in 1..(Len(storage) - sent) BY <1>1, <3>1
    <3>3. wire'[i] = storage[sent + (i - Len(wire))] BY <1>3, <3>1
    <3>4. accepted[i] = storage[sent + (i - Len(wire))] BY <1>4, <3>1, <3>2
    <3> QED BY <3>3, <3>4
  <2>3. i \in Nat /\ Len(wire) \in Nat BY <1>1, <1>3
  <2>4. i <= Len(wire) \/ i > Len(wire) BY <2>3
  <2> QED BY <2>1, <2>2, <2>4
<1>6. ASSUME NEW i \in 1..(Len(storage) - (sent + n)) PROVE accepted[Len(wire') + i] = storage[(sent + n) + i]
  <2>1. n + i \in 1..(Len(storage) - sent) BY <1>1
  <2>2. accepted[Len(wire) + (n + i)] = storage[sent + (n + i)] BY <1>4, <2>1
  <2>3. Len(wire') = Len(wire) + n BY <1>3
  <2>4. i \in Nat /\ Len(wire) \in Nat /\ sent \in Nat BY <1>1
  <2>5. Len(wire) + (n + i) = (Len(wire) + n) + i /\ sent + (n + i) = (sent + n) + i BY <2>4
  <2>6. Len(wire) + (n + i) = Len(wire') + i BY <2>3, <2>5
  <2> QED BY <2>2, <2>5, <2>6
<1>7. Len(accepted) = Len(wire') + (Len(storage) - (sent + n)) /\ Len(wire') <= Len(accepted)
  <2>1. Len(wire') = Len(wire) + n /\ Len(accepted) = Len(wire) + (Len(storage) - sent) BY <1>3, <1>4
  <2>2. /\ Len(wire) \in Nat /\ Len(storage) \in Nat /\ sent \in Nat /\ n \in Nat
        /\ n <= Len(storage) - sent
    BY <1>1
  <2> QED BY <2>1, <2>2
<1>8. Joined(wire', storage, sent + n, accepted) BY <1>5, <1>6, <1>7 DEF Joined
<1>9. wire' \in Seq(Marks) /\ Len(wire') = Len(wire) + n BY <1>2, <1>3
<1>10. \A i \in 1..Len(wire') : accepted[i] = wire'[i] BY <1>5
<1>11. Len(wire') <= Len(accepted) BY <1>7
<1> QED BY <1>8, <1>9, <1>10, <1>11

\* The transport takes a part of the batch.
LEMMA FlushWritesKeeps ==
  ASSUME SendInv, NEW n \in 1..SendCapacity, NEW d \in 0..MaxBudget, FlushWrites(n, d) PROVE SendInv'
<1>1. /\ send_pc = "flush" /\ n \in Nat /\ n <= Len(storage) - sent /\ Buffered /\ ~bypass /\ after # "none"
      /\ wire' = wire \o SubSeq(storage, sent + 1, sent + n)
      /\ UNCHANGED <<protocol, stream_pos, prefetch, eof, at, frame, offered, bypass, accepted, send_error,
                     send_canceled, repeats>>
  BY DEF FlushWrites, source, SendInv, Batches, batching
<1>2. \/ /\ sent + n < Len(storage) /\ sent' = sent + n /\ UNCHANGED <<storage, budget, after, send_pc>>
      \/ /\ sent + n = Len(storage) /\ storage' = << >> /\ budget' = 0 /\ sent' = 0 /\ after' = "none"
         /\ send_pc' = after
  <2>1. IF sent + n < Len(storage)
          THEN sent' = sent + n /\ UNCHANGED <<storage, budget, after, send_pc>>
          ELSE storage' = << >> /\ budget' = 0 /\ sent' = 0 /\ after' = "none" /\ send_pc' = after
    BY DEF FlushWrites, batching
  <2>2. sent \in Nat /\ Len(storage) \in Nat BY Moved
  <2>3. sent + n < Len(storage) \/ sent + n = Len(storage) BY <1>1, <2>2
  <2>4. sent + n = Len(storage) => ~(sent + n < Len(storage)) BY <2>2
  <2> QED BY <2>1, <2>3, <2>4, Zenon
<1>3. elapsed' = elapsed + d /\ elapsed' <= budget /\ budget \in 0..MaxBudget /\ elapsed \in 0..MaxBudget
      /\ elapsed' \in 0..MaxBudget
  <2>1. elapsed' = elapsed + d /\ d <= budget - elapsed BY DEF FlushWrites, Remaining
  <2>2. budget \in 0..MaxBudget /\ elapsed \in 0..MaxBudget /\ MaxBudget \in Nat
    BY SenderAssumption DEF SendInv, SendTypeOK
  <2> QED BY <2>1, <2>2
<1>4. /\ wire' \in Seq(Marks) /\ Len(wire') = Len(wire) + n /\ Len(wire') <= Len(accepted)
      /\ \A i \in 1..Len(wire') : accepted[i] = wire'[i]
      /\ Joined(wire', storage, sent + n, accepted)
  BY <1>1, FlushPart DEF Sends
<1>5. SendTypeOK'
  <2>1. wire' \in Seq(0..EOT) BY <1>4 DEF Marks
  <2>2. storage' \in Seq(0..EOT) /\ Len(storage') <= SendCapacity
    <3>1. << >> \in Seq(0..EOT) /\ Len(<< >>) = 0 OBVIOUS
    <3>2. storage' = storage \/ storage' = << >> BY <1>2
    <3>3. storage \in Seq(0..EOT) /\ Len(storage) <= SendCapacity /\ 0 <= SendCapacity BY Moved DEF Marks
    <3> QED BY <3>1, <3>2, <3>3
  <2>3. budget' \in 0..MaxBudget BY <1>2, <1>3, SenderAssumption
  <2>4. sent' \in 0..SendCapacity
    <3>1. sent' = 0 \/ sent' = sent + n BY <1>2
    <3>2. sent + n <= Len(storage) /\ Len(storage) <= SendCapacity /\ SendCapacity \in Nat /\ sent \in Nat
          /\ Len(storage) \in Nat /\ n \in Nat
      BY <1>1, Moved
    <3> QED BY <3>1, <3>2
  <2>5. after' \in {"none", "send", "recv", "done", "over"} /\ send_pc' \in {"flush", "send", "recv", "done", "over"}
    BY <1>1, <1>2 DEF SendInv, SendTypeOK
  <2> QED BY <1>1, <1>3, <2>1, <2>2, <2>3, <2>4, <2>5 DEF SendInv, SendTypeOK
<1>6. Intact'
  <2>1. CASE sent' = sent + n /\ UNCHANGED storage BY <1>1, <1>4, <2>1 DEF Intact
  <2>2. CASE sent + n = Len(storage) /\ storage' = << >> /\ sent' = 0
    <3>1. storage' = << >> => Len(storage') = 0 OBVIOUS
    <3>2. Len(storage) \in Nat BY Moved
    <3>3. Len(storage') - 0 = Len(storage) - (sent + n) /\ Len(storage') - 0 = 0 BY <2>2, <3>1, <3>2
    <3>4. Joined(wire', storage', 0, accepted)
      <4>1. /\ Len(accepted) = Len(wire') + (Len(storage) - (sent + n))
            /\ \A i \in 1..Len(wire') : accepted[i] = wire'[i]
        BY <1>4 DEF Joined
      <4>2. \A i \in 1..(Len(storage') - 0) : accepted[Len(wire') + i] = storage'[0 + i] BY <3>3
      <4> QED BY <3>3, <4>1, <4>2 DEF Joined
    <3>5. accepted' = accepted /\ sent' = 0 BY <1>1, <2>2
    <3> QED BY <3>4, <3>5 DEF Intact
  <2> QED BY <1>2, <2>1, <2>2
<1>7. Cut'
  <2>1. PICK k \in 0..Len(accepted) : k = Len(wire') BY <1>4, Moved
  <2>2. Len(wire') \in Nat BY <1>4
  <2>3. ASSUME NEW i \in 1..Len(wire') PROVE i <= k /\ accepted[i] = wire'[i] BY <1>4, <2>1, <2>2
  <2>4. \A i \in 1..Len(wire') : wire'[i] = IF i <= k THEN accepted[i] ELSE CAN BY <2>3
  <2>5. accepted' = accepted BY <1>1
  <2> QED BY <2>1, <2>4, <2>5 DEF Cut
<1>8. SourceExact' BY <1>1 DEF SendInv, SourceExact
<1>9. Batches'
  <2>1. CASE sent + n < Len(storage) /\ sent' = sent + n /\ UNCHANGED <<storage, budget, after, send_pc>>
    BY <1>1, <1>3, <2>1 DEF SendInv, Batches, Buffered
  <2>2. CASE storage' = << >> /\ sent' = 0 /\ send_pc' = after
    BY <1>1, <2>2 DEF SendInv, SendTypeOK, Batches, Buffered
  <2> QED BY <1>2, <2>1, <2>2
<1>10. Stands' BY <1>1, <1>2 DEF SendInv, SendTypeOK, Stands
<1>11. Frames'
  <2>1. UNCHANGED <<frame, offered, accepted, send_error>> /\ Part' = Part BY <1>1 DEF Part
  <2>3. send_pc' \in {"done", "over"} \/ (send_pc' = "flush" /\ after' = "done")
          => (send_pc = "flush" /\ after = "done") \/ send_error # "none"
    BY <1>1, <1>2 DEF SendInv, SendTypeOK, Stands
  <2>4. Behind0' => Behind0 BY <1>1, <1>2 DEF Behind0, SendInv, SendTypeOK
  <2> QED BY <2>1, <2>3, <2>4 DEF SendInv, Frames, Ends
<1>12. Complete' BY <1>1 DEF SendInv, Complete
<1> QED BY <1>5, <1>6, <1>7, <1>8, <1>9, <1>10, <1>11, <1>12 DEF SendInv

\* It fails behind any part of it, and the buffer is aborted.
LEMMA BatchFailsKeeps == ASSUME SendInv, BatchFails PROVE SendInv'
<1>0. PICK n \in 0..(Len(storage) - sent) : wire' = wire \o SubSeq(storage, sent + 1, sent + n)
  BY DEF BatchFails
<1>1. /\ send_pc = "flush" /\ n \in Nat /\ n <= Len(storage) - sent /\ Buffered /\ ~bypass
      /\ storage' = << >> /\ budget' = 0 /\ bypass' = TRUE /\ sent' = 0 /\ after' = "none"
      /\ UNCHANGED <<protocol, stream_pos, prefetch, eof, at, frame, offered, accepted, elapsed,
                     send_canceled, repeats>>
  BY <1>0, Moved DEF BatchFails, DropsBatch, Abort, source, SendInv, Batches
<1>2. /\ send_pc' \in {"over", "closing", "failing"} /\ send_error' \in {send_error, "canceled", "transport"}
      /\ send_error' # "none"
  BY DEF BatchFails, Raises, SendInv, Stands
<1>3. /\ wire' \in Seq(Marks) /\ Len(wire') <= Len(accepted) /\ \A i \in 1..Len(wire') : accepted[i] = wire'[i]
  BY <1>0, <1>1, FlushPart DEF Sends
<1>4. SendTypeOK'
  <2>1. wire' \in Seq(0..EOT) BY <1>3 DEF Marks
  <2>2. storage' \in Seq(0..EOT) /\ Len(storage') <= SendCapacity BY <1>1, Moved
  <2>3. budget' \in 0..MaxBudget /\ sent' \in 0..SendCapacity BY <1>1, SenderAssumption
  <2>4. after' \in {"none", "send", "recv", "done", "over"} /\ bypass' \in BOOLEAN BY <1>1
  <2> QED BY <1>1, <1>2, <2>1, <2>2, <2>3, <2>4 DEF SendInv, SendTypeOK
<1>5. Intact' BY <1>1 DEF Intact
<1>6. Cut'
  <2>1. PICK k \in 0..Len(accepted) : k = Len(wire') BY <1>3, Moved
  <2>2. \A i \in 1..Len(wire') : wire'[i] = IF i <= k THEN accepted'[i] ELSE CAN BY <1>1, <1>3, <2>1
  <2> QED BY <1>1, <2>1, <2>2 DEF Cut
<1>7. SourceExact' BY <1>1 DEF SendInv, SourceExact
<1>8. Batches' BY <1>1, <1>2 DEF SendInv, Batches, Buffered
<1>9. Stands' BY <1>2 DEF Stands
<1>10. Frames' /\ Complete' BY <1>2 DEF Frames, Complete
<1> QED BY <1>4, <1>5, <1>6, <1>7, <1>8, <1>9, <1>10 DEF SendInv

\* A part of the frame is accepted, and the rest stays behind it.
Takes(n) ==
  /\ send_pc = "send" /\ n \in Nat /\ n <= Len(frame)
  /\ accepted' = accepted \o SubSeq(frame, 1, n) /\ frame' = SubSeq(frame, n + 1, Len(frame))
  /\ UNCHANGED <<protocol, offered, at, send_error>>
  /\ send_pc' = "send" \/ (send_pc' = "flush" /\ after' = "send")

LEMMA TakesBytes ==
  ASSUME SendInv, NEW n, Takes(n)
  PROVE  /\ accepted' \in Seq(Marks) /\ Len(accepted') = Len(accepted) + n
         /\ \A i \in 1..Len(accepted) : accepted'[i] = accepted[i]
         /\ \A i \in 1..n : accepted'[Len(accepted) + i] = frame[i]
         /\ frame' \in Seq(Marks) /\ Len(frame') = Len(frame) - n
         /\ \A i \in 1..(Len(frame) - n) : frame'[i] = frame[n + i]
<1>1. n \in Nat /\ n <= Len(frame) /\ frame \in Seq(Marks) /\ accepted \in Seq(Marks)
      /\ accepted' = accepted \o SubSeq(frame, 0 + 1, n) /\ frame' = SubSeq(frame, n + 1, Len(frame))
  BY Moved DEF Takes
<1>2. accepted' \in Seq(Marks) /\ Behind(accepted, frame, 0, n, accepted')
  <2>1. 0 \in Nat /\ 0 <= n BY <1>1
  <2> QED BY <1>1, <2>1, PartBehind
<1>3. n - 0 = n /\ \A i \in 1..n : 0 + i = i BY <1>1
<1>4. /\ Len(accepted') = Len(accepted) + n /\ \A i \in 1..Len(accepted) : accepted'[i] = accepted[i]
      /\ \A i \in 1..n : accepted'[Len(accepted) + i] = frame[i]
  BY <1>2, <1>3 DEF Behind
<1> QED BY <1>1, <1>2, <1>4, RestOf

LEMMA TakesFrames ==
  ASSUME SendInv, NEW n, Takes(n) PROVE Frames'
<1> SUFFICES ASSUME send_error = "none"
             PROVE /\ Len(frame') <= Len(offered) /\ Part' <= Len(accepted')
                   /\ \A i \in 1..Len(frame') : frame'[i] = offered[Part' + i]
                   /\ Ends(accepted', offered, Part')
                   /\ ~Behind0'
  BY DEF Takes, Frames, Behind0
<1>1. /\ Len(accepted') = Len(accepted) + n
      /\ \A i \in 1..Len(accepted) : accepted'[i] = accepted[i]
      /\ \A i \in 1..n : accepted'[Len(accepted) + i] = frame[i]
      /\ Len(frame') = Len(frame) - n
      /\ \A i \in 1..(Len(frame) - n) : frame'[i] = frame[n + i]
  BY TakesBytes
<1>2. /\ Len(frame) <= Len(offered) /\ Part <= Len(accepted) /\ Part = Len(offered) - Len(frame)
      /\ \A i \in 1..Len(frame) : frame[i] = offered[Part + i]
      /\ \A i \in 1..Part : accepted[Len(accepted) - Part + i] = offered[i]
  BY DEF SendInv, Frames, Ends, Part
<1>3. /\ n \in Nat /\ n <= Len(frame) /\ Len(frame) \in Nat /\ Len(accepted) \in Nat /\ Len(offered) \in Nat
      /\ Part \in Nat
  BY <1>2, Moved DEF Takes
<1>4. Part' = Part + n
  <2>1. Part' = Len(offered) - Len(frame') BY DEF Takes, Part
  <2>2. Len(frame') = Len(frame) - n BY <1>1
  <2>3. Part = Len(offered) - Len(frame) BY <1>2
  <2>4. n \in Nat /\ Len(frame) \in Nat /\ Len(offered) \in Nat BY <1>3
  <2> QED BY <2>1, <2>2, <2>3, <2>4
<1> DEFINE part == Part
<1>5. part \in Nat /\ part <= Len(accepted) /\ Part' = part + n BY <1>2, <1>3, <1>4
<1>6. ASSUME NEW i \in 1..Len(frame') PROVE frame'[i] = offered[Part' + i]
  <2>1. n + i \in 1..Len(frame) /\ i \in 1..(Len(frame) - n) BY <1>1, <1>3
  <2>2. frame'[i] = offered[Part + (n + i)] BY <1>1, <1>2, <2>1
  <2>3. Part + (n + i) = Part' + i BY <1>3, <1>4, <2>1
  <2> QED BY <2>2, <2>3
<1>7. ASSUME NEW i \in 1..(part + n)
      PROVE accepted'[Len(accepted') - (part + n) + i] = offered[i]
  <2>0. i \in Nat /\ Len(accepted') - (part + n) + i = Len(accepted) - part + i BY <1>1, <1>3, <1>5
  <2>1. CASE i <= part
    <3>1. i \in 1..part /\ Len(accepted) - part + i \in 1..Len(accepted) BY <1>3, <1>5, <2>0, <2>1
    <3>2. accepted[Len(accepted) - part + i] = offered[i] BY <1>2, <3>1
    <3> QED BY <1>1, <2>0, <3>1, <3>2
  <2>2. CASE i > part
    <3>1. i - part \in 1..n /\ Len(accepted) - part + i = Len(accepted) + (i - part) BY <1>3, <1>5, <2>0, <2>2
    <3>2. i - part \in 1..Len(frame) /\ part + (i - part) = i BY <1>3, <1>5, <2>0, <3>1
    <3>3. frame[i - part] = offered[i] BY <1>2, <3>2
    <3> QED BY <1>1, <2>0, <3>1, <3>3
  <2> QED BY <1>5, <2>0, <2>1, <2>2
<1>8. Ends(accepted', offered, Part') BY <1>5, <1>7 DEF Ends
<1>9. Len(frame') <= Len(offered) /\ Part' <= Len(accepted') BY <1>1, <1>2, <1>3, <1>4
<1>10. ~Behind0' BY DEF Takes, Behind0
<1> QED BY <1>6, <1>8, <1>9, <1>10

LEMMA TakesComplete ==
  ASSUME SendInv, NEW n, Takes(n) PROVE Complete'
<1> SUFFICES ASSUME send_error = "none", protocol # "zmodem"
             PROVE /\ offered = <<EOT>> => at = Size
                   /\ \A p \in 1..at : \/ \E i \in 1..Len(accepted') : accepted'[i] = p
                                       \/ \E i \in 1..Len(frame') : frame'[i] = p
  BY DEF Takes, Complete
<1>1. /\ Len(accepted') = Len(accepted) + n
      /\ \A i \in 1..Len(accepted) : accepted'[i] = accepted[i]
      /\ \A i \in 1..n : accepted'[Len(accepted) + i] = frame[i]
      /\ Len(frame') = Len(frame) - n
      /\ \A i \in 1..(Len(frame) - n) : frame'[i] = frame[n + i]
  BY TakesBytes
<1>2. n \in Nat /\ n <= Len(frame) /\ Len(frame) \in Nat /\ Len(accepted) \in Nat BY Moved DEF Takes
<1>3. /\ offered = <<EOT>> => at = Size
      /\ \A p \in 1..at : \/ \E i \in 1..Len(accepted) : accepted[i] = p
                          \/ \E i \in 1..Len(frame) : frame[i] = p
  BY DEF SendInv, Complete
<1>4. ASSUME NEW p \in 1..at PROVE \/ \E i \in 1..Len(accepted') : accepted'[i] = p
                                   \/ \E i \in 1..Len(frame') : frame'[i] = p
  <2>1. CASE \E i \in 1..Len(accepted) : accepted[i] = p
    <3>1. PICK i \in 1..Len(accepted) : accepted[i] = p BY <2>1
    <3>2. i \in 1..Len(accepted') /\ accepted'[i] = p BY <1>1, <1>2, <3>1
    <3> QED BY <3>2
  <2>2. CASE \E i \in 1..Len(frame) : frame[i] = p
    <3>1. PICK i \in 1..Len(frame) : frame[i] = p BY <2>2
    <3>2. CASE i <= n
      <4>1. i \in 1..n /\ Len(accepted) + i \in 1..Len(accepted') BY <1>1, <1>2, <3>2
      <4>2. accepted'[Len(accepted) + i] = p BY <1>1, <3>1, <4>1
      <4> QED BY <4>1, <4>2
    <3>3. CASE i > n
      <4>1. i - n \in 1..(Len(frame) - n) /\ n + (i - n) = i BY <1>2, <3>3
      <4>2. i - n \in 1..Len(frame') /\ frame'[i - n] = p BY <1>1, <3>1, <4>1
      <4> QED BY <4>2
    <3> QED BY <1>2, <3>2, <3>3
  <2> QED BY <1>3, <2>1, <2>2
<1> QED BY <1>3, <1>4

\* What is accepted into the buffer is behind what is there.
LEMMA BuffersIntact ==
  ASSUME SendInv, NEW n, Takes(n), ~bypass, sent = 0, sent' = 0, wire' = wire, bypass' = bypass,
         storage' = storage \o SubSeq(frame, 1, n)
  PROVE  storage' \in Seq(Marks) /\ Len(storage') = Len(storage) + n /\ Intact' /\ Cut'
<1>1. /\ n \in Nat /\ n <= Len(frame) /\ frame \in Seq(Marks) /\ storage \in Seq(Marks)
      /\ storage' = storage \o SubSeq(frame, 0 + 1, n) /\ Len(storage) \in Nat /\ Len(accepted) \in Nat
      /\ Len(wire) \in Nat /\ wire \in Seq(Marks)
  BY Moved DEF Takes
<1>2. storage' \in Seq(Marks) /\ Behind(storage, frame, 0, n, storage')
  <2>1. 0 \in Nat /\ 0 <= n BY <1>1
  <2> QED BY <1>1, <2>1, PartBehind
<1>3. /\ Len(storage') = Len(storage) + n /\ \A i \in 1..Len(storage) : storage'[i] = storage[i]
      /\ \A i \in 1..n : storage'[Len(storage) + i] = frame[i]
  <2>1. n - 0 = n /\ \A i \in 1..n : 0 + i = i BY <1>1
  <2> QED BY <1>2, <2>1 DEF Behind
<1>4. /\ accepted' \in Seq(Marks) /\ Len(accepted') = Len(accepted) + n
      /\ \A i \in 1..Len(accepted) : accepted'[i] = accepted[i]
      /\ \A i \in 1..n : accepted'[Len(accepted) + i] = frame[i]
  BY TakesBytes
<1>5. /\ Len(accepted) = Len(wire) + Len(storage)
      /\ \A i \in 1..Len(wire) : accepted[i] = wire[i]
      /\ \A i \in 1..Len(storage) : accepted[Len(wire) + i] = storage[i]
  <2>1. /\ Len(accepted) = Len(wire) + (Len(storage) - 0)
        /\ \A i \in 1..Len(wire) : accepted[i] = wire[i]
        /\ \A i \in 1..(Len(storage) - 0) : accepted[Len(wire) + i] = storage[0 + i]
    BY DEF SendInv, Intact, Joined
  <2>2. Len(storage) - 0 = Len(storage) /\ \A i \in 1..Len(storage) : 0 + i = i BY <1>1
  <2> QED BY <2>1, <2>2
<1>6. \A i \in 1..Len(wire) : accepted'[i] = wire[i]
  <2> SUFFICES ASSUME NEW i \in 1..Len(wire) PROVE accepted'[i] = wire[i] OBVIOUS
  <2>1. i \in 1..Len(accepted) BY <1>1, <1>5
  <2> QED BY <1>4, <1>5, <2>1
<1>7. ASSUME NEW i \in 1..Len(storage') PROVE accepted'[Len(wire) + i] = storage'[i]
  <2>1. CASE i <= Len(storage)
    <3>1. i \in 1..Len(storage) /\ Len(wire) + i \in 1..Len(accepted) BY <1>1, <1>3, <1>5, <2>1
    <3> QED BY <1>3, <1>4, <1>5, <3>1
  <2>2. CASE i > Len(storage)
    <3>1. i - Len(storage) \in 1..n BY <1>1, <1>3, <2>2
    <3>2. Len(accepted) + (i - Len(storage)) = Len(wire) + i /\ Len(storage) + (i - Len(storage)) = i
      BY <1>1, <1>3, <1>5, <2>2
    <3>3. accepted'[Len(accepted) + (i - Len(storage))] = frame[i - Len(storage)] BY <1>4, <3>1
    <3>4. storage'[Len(storage) + (i - Len(storage))] = frame[i - Len(storage)] BY <1>3, <3>1
    <3> QED BY <3>2, <3>3, <3>4
  <2> QED BY <1>1, <1>3, <2>1, <2>2
<1>8. Intact'
  <2>1. /\ Len(storage') = Len(storage) + n /\ Len(accepted') = Len(accepted) + n
        /\ Len(accepted) = Len(wire) + Len(storage)
    BY <1>3, <1>4, <1>5
  <2>2. n \in Nat /\ Len(storage) \in Nat /\ Len(wire) \in Nat BY <1>1
  <2>3. Len(storage') - 0 = Len(storage') /\ \A i \in 1..Len(storage') : 0 + i = i BY <2>1, <2>2
  <2>4. Len(accepted') = Len(wire) + Len(storage') BY <2>1, <2>2
  <2>5. Joined(wire, storage', 0, accepted') BY <1>6, <1>7, <2>3, <2>4 DEF Joined
  <2> QED BY <2>5 DEF Intact
<1>9. Cut'
  <2>1. PICK k \in 0..Len(accepted') : k = Len(wire) BY <1>1, <1>4, <1>5
  <2>2. \A i \in 1..Len(wire') : wire'[i] = IF i <= k THEN accepted'[i] ELSE CAN BY <1>6, <2>1
  <2> QED BY <2>1, <2>2 DEF Cut
<1> QED BY <1>2, <1>3, <1>8, <1>9

\* The share of the deadline is a natural number.
LEMMA Shares ==
  ASSUME NEW a \in Nat, NEW l \in Nat, l > 0 PROVE (a + l - 1) \div l \in Nat
<1>1. a + l - 1 \in Nat OBVIOUS
<1> DEFINE m == a + l - 1
<1> HIDE DEF m
<1>2. m \in Nat => m \div l \in Nat OBVIOUS
<1> QED BY <1>1, <1>2 DEF m

\* A part of the frame goes into the buffer.
LEMMA BufferFrameKeeps == ASSUME SendInv, BufferFrame PROVE SendInv'
<1> DEFINE n == Fits(Len(frame))
           share == (Timeout * n + Len(frame) - 1) \div Len(frame)
<1>1. /\ send_pc = "send" /\ frame # << >> /\ Buffered /\ ~bypass
      /\ storage' = storage \o SubSeq(frame, 1, n) /\ accepted' = accepted \o SubSeq(frame, 1, n)
      /\ frame' = SubSeq(frame, n + 1, Len(frame)) /\ budget' = Least(budget + share, MaxBudget)
      /\ sent' = 0 /\ elapsed' = 0 /\ sent = 0
      /\ UNCHANGED <<protocol, stream_pos, prefetch, eof, at, offered, bypass, wire, send_error, send_canceled,
                     repeats>>
      /\ \/ Len(storage') = SendCapacity /\ send_pc' = "flush" /\ after' = "send"
         \/ send_pc' = "send" /\ after' = after
  BY DEF BufferFrame, Full, source, SendInv, Batches
<1>2. /\ Len(frame) \in Nat /\ Len(frame) > 0 /\ Len(storage) \in Nat /\ Len(storage) <= SendCapacity
      /\ SendCapacity \in Nat /\ SendCapacity > 0
  <2>1. frame \in Seq(Marks) BY Moved
  <2> QED BY <1>1, <2>1, Moved
<1>3. n \in Nat /\ n <= Len(frame) /\ Len(storage) + n <= SendCapacity BY <1>2 DEF Fits, Least
<1>4. budget' \in 0..MaxBudget
  <2>1. Timeout \in Nat /\ MaxBudget \in Nat /\ budget \in 0..MaxBudget
    BY SenderAssumption DEF SendInv, SendTypeOK
  <2>2. Timeout * n \in Nat BY <1>3, <2>1
  <2>3. share \in Nat BY <1>2, <2>2, Shares
  <2> HIDE DEF share
  <2> QED BY <1>1, <2>1, <2>3 DEF Least
<1> HIDE DEF n
<1>5. Takes(n) BY <1>1, <1>3 DEF Takes
<1>6. /\ accepted' \in Seq(Marks) /\ frame' \in Seq(Marks) BY <1>5, TakesBytes
<1>7. storage' \in Seq(Marks) /\ Len(storage') = Len(storage) + n /\ Intact' /\ Cut'
  BY <1>1, <1>5, BuffersIntact
<1>8. SendTypeOK'
  <2>1. 0 \in 0..MaxBudget /\ 0 \in 0..SendCapacity BY SenderAssumption
  <2>2. Len(storage') <= SendCapacity BY <1>3, <1>7
  <2>3. after' \in {"none", "send", "recv", "done", "over"} BY <1>1 DEF SendInv, SendTypeOK
  <2> QED BY <1>1, <1>4, <1>6, <1>7, <2>1, <2>2, <2>3 DEF SendInv, SendTypeOK, Marks
<1>9. SourceExact' BY <1>1 DEF SendInv, SourceExact
<1>10. Batches'
  <2>1. 0 <= budget' BY <1>4, SenderAssumption
  <2>2. send_pc' = "flush" => sent' < Len(storage') BY <1>1, <1>2
  <2> QED BY <1>1, <2>1, <2>2 DEF SendInv, Batches, Buffered
<1>11. Stands' BY <1>1 DEF SendInv, Stands
<1> QED BY <1>5, <1>7, <1>8, <1>9, <1>10, <1>11, TakesFrames, TakesComplete DEF SendInv

\* Bytes that do not go through the buffer: all there are of a protocol without one, or CAN.
PassesOn(n) == wire' = wire \o SubSeq(frame, 1, n)

\* A place behind the first ones of a sequence.
LEMMA PlaceBehind ==
  ASSUME NEW a \in Nat, NEW n \in Nat, NEW i \in 1..(a + n), i > a
  PROVE  i - a \in 1..n /\ a + (i - a) = i
OBVIOUS

\* What is sent without the buffer is what is accepted.
LEMMA DirectIntact ==
  ASSUME SendInv, NEW n, Takes(n), sent = 0, sent' = 0, storage = << >>, UNCHANGED <<storage, bypass>>,
         bypass => frame \in {<< >>, <<CAN>>},
         PassesOn(n)
  PROVE  wire' \in Seq(Marks) /\ Intact' /\ Cut'
<1>1. /\ n \in Nat /\ n <= Len(frame) /\ frame \in Seq(Marks) /\ wire \in Seq(Marks)
      /\ wire' = wire \o SubSeq(frame, 0 + 1, n) /\ Len(wire) \in Nat /\ Len(accepted) \in Nat
      /\ Len(storage) = 0
  BY Moved DEF Takes, PassesOn
<1>2. wire' \in Seq(Marks) /\ Behind(wire, frame, 0, n, wire')
  <2>1. 0 \in Nat /\ 0 <= n BY <1>1
  <2> QED BY <1>1, <2>1, PartBehind
<1>3. /\ Len(wire') = Len(wire) + n /\ \A i \in 1..Len(wire) : wire'[i] = wire[i]
      /\ \A i \in 1..n : wire'[Len(wire) + i] = frame[i]
  <2>1. n - 0 = n /\ \A i \in 1..n : 0 + i = i BY <1>1
  <2> QED BY <1>2, <2>1 DEF Behind
<1>4. /\ accepted' \in Seq(Marks) /\ Len(accepted') = Len(accepted) + n
      /\ \A i \in 1..Len(accepted) : accepted'[i] = accepted[i]
      /\ \A i \in 1..n : accepted'[Len(accepted) + i] = frame[i]
  BY TakesBytes
<1>5. CASE ~bypass
  <2>1. Len(accepted) = Len(wire) /\ \A i \in 1..Len(wire) : accepted[i] = wire[i]
    BY <1>1, <1>5 DEF SendInv, Intact, Joined
  <2>2. ASSUME NEW i \in 1..Len(wire') PROVE accepted'[i] = wire'[i]
    <3>1. CASE i <= Len(wire)
      <4>1. i \in 1..Len(wire) /\ i \in 1..Len(accepted) BY <1>1, <2>1, <3>1
      <4> QED BY <1>3, <1>4, <2>1, <4>1
    <3>2. CASE i > Len(wire)
      <4>1. i - Len(wire) \in 1..n /\ Len(wire) + (i - Len(wire)) = i
        <5>1. Len(wire) \in Nat /\ n \in Nat /\ i \in 1..(Len(wire) + n) BY <1>1, <1>3
        <5> QED BY <3>2, <5>1, PlaceBehind
      <4> QED BY <1>3, <1>4, <2>1, <4>1
    <3>3. i \in Nat /\ Len(wire) \in Nat BY <1>1, <1>3
    <3>4. i <= Len(wire) \/ i > Len(wire) BY <3>3
    <3> QED BY <3>1, <3>2, <3>4
  <2>3. Len(accepted') = Len(wire') BY <1>1, <1>3, <1>4, <2>1
  <2>4. Joined(wire', storage', 0, accepted')
    <3>1. Len(storage') = 0 /\ Len(wire') \in Nat
      <4>1. Len(wire) \in Nat /\ n \in Nat /\ Len(wire') = Len(wire) + n BY <1>1, <1>3
      <4>2. storage' = storage /\ Len(storage) = 0 BY <1>1
      <4> QED BY <4>1, <4>2
    <3>2. Len(storage') - 0 = 0 /\ Len(wire') + 0 = Len(wire') BY <3>1
    <3>3. Len(accepted') = Len(wire') + (Len(storage') - 0) BY <2>3, <3>2
    <3>4. \A i \in 1..(Len(storage') - 0) : accepted'[Len(wire') + i] = storage'[0 + i] BY <3>2
    <3> QED BY <2>2, <3>3, <3>4 DEF Joined
  <2>5. Intact' BY <2>4 DEF Intact
  <2>6. PICK k \in 0..Len(accepted') : k = Len(wire') BY <1>1, <1>3, <2>3
  <2>7. \A i \in 1..Len(wire') : wire'[i] = IF i <= k THEN accepted'[i] ELSE CAN
    <3> SUFFICES ASSUME NEW i \in 1..Len(wire')
                 PROVE wire'[i] = IF i <= k THEN accepted'[i] ELSE CAN
      OBVIOUS
    <3>1. Len(wire') \in Nat /\ i <= k BY <1>1, <1>3, <2>6
    <3> QED BY <2>2, <3>1
  <2>8. Cut' BY <2>6, <2>7 DEF Cut
  <2> QED BY <1>2, <2>5, <2>8
<1>6. CASE bypass
  <2>1. PICK k \in 0..Len(accepted) : \A i \in 1..Len(wire) : wire[i] = IF i <= k THEN accepted[i] ELSE CAN
    BY DEF SendInv, Cut
  <2>2. \A i \in 1..n : frame[i] = CAN
    <3>1. frame = << >> => Len(frame) = 0 OBVIOUS
    <3>2. frame = <<CAN>> => Len(frame) = 1 /\ frame[1] = CAN OBVIOUS
    <3>3. CASE frame = << >> BY <1>1, <3>1, <3>3
    <3>4. CASE frame = <<CAN>>
      <4>1. ASSUME NEW i \in 1..n PROVE frame[i] = CAN
        <5>1. i = 1 BY <1>1, <3>2, <3>4
        <5> QED BY <3>2, <3>4, <5>1
      <4> QED BY <4>1
    <3> QED BY <1>6, <3>3, <3>4
  <2>3. CASE k <= Len(wire)
    <3>1. k \in 0..Len(accepted') BY <1>1, <1>4
    <3>2. ASSUME NEW i \in 1..Len(wire') PROVE wire'[i] = IF i <= k THEN accepted'[i] ELSE CAN
      <4>1. CASE i <= Len(wire)
        <5>1. i \in 1..Len(wire) /\ wire'[i] = wire[i] BY <1>1, <1>3, <4>1
        <5>2. i <= k => i \in 1..Len(accepted) BY <1>1, <2>1, <5>1
        <5> QED BY <1>4, <2>1, <5>1, <5>2
      <4>2. CASE i > Len(wire)
        <5>1. i - Len(wire) \in 1..n /\ Len(wire) + (i - Len(wire)) = i /\ ~(i <= k)
          <6>1. Len(wire) \in Nat /\ n \in Nat /\ i \in 1..(Len(wire) + n) BY <1>1, <1>3
          <6>2. ~(i <= k) BY <1>1, <2>3, <4>2
          <6> QED BY <4>2, <6>1, <6>2, PlaceBehind
        <5> QED BY <1>3, <2>2, <5>1
      <4> QED BY <1>1, <1>3, <4>1, <4>2
    <3> QED BY <1>2, <1>6, <3>1, <3>2 DEF Cut, Intact
  <2>4. CASE k > Len(wire)
    <3>1. PICK m \in 0..Len(accepted') : m = Len(wire) BY <1>1, <1>4, <2>4
    <3>2. ASSUME NEW i \in 1..Len(wire') PROVE wire'[i] = IF i <= m THEN accepted'[i] ELSE CAN
      <4>1. CASE i <= Len(wire)
        <5>1. i \in 1..Len(wire) /\ wire'[i] = wire[i] /\ i <= k /\ i \in 1..Len(accepted)
          BY <1>1, <1>3, <2>1, <2>4, <4>1
        <5> QED BY <1>4, <2>1, <3>1, <4>1, <5>1
      <4>2. CASE i > Len(wire)
        <5>1. i - Len(wire) \in 1..n /\ Len(wire) + (i - Len(wire)) = i /\ ~(i <= m)
          <6>1. Len(wire) \in Nat /\ n \in Nat /\ i \in 1..(Len(wire) + n) BY <1>1, <1>3
          <6>2. ~(i <= m) BY <1>1, <3>1, <4>2
          <6> QED BY <4>2, <6>1, <6>2, PlaceBehind
        <5> QED BY <1>3, <2>2, <5>1
      <4> QED BY <1>1, <1>3, <4>1, <4>2
    <3> QED BY <1>2, <1>6, <3>1, <3>2 DEF Cut, Intact
  <2> QED BY <1>1, <2>3, <2>4
<1> QED BY <1>5, <1>6

LEMMA DirectSendKeeps == ASSUME SendInv, NEW n \in 1..FrameSize, DirectSend(n) PROVE SendInv'
<1>1. /\ send_pc = "send" /\ n \in Nat /\ n <= Len(frame) /\ storage = << >> /\ sent = 0
      /\ bypass => frame \in {<< >>, <<CAN>>}
      /\ wire' = wire \o SubSeq(frame, 1, n) /\ accepted' = accepted \o SubSeq(frame, 1, n)
      /\ frame' = SubSeq(frame, n + 1, Len(frame))
      /\ UNCHANGED <<protocol, stream_pos, prefetch, eof, at, offered, storage, budget, bypass, sent, elapsed,
                     after, send_pc, send_error, send_canceled, repeats>>
  BY DEF DirectSend, source, batching, flush, SendInv, Batches
<1>2. Takes(n) BY <1>1 DEF Takes
<1>3. /\ accepted' \in Seq(Marks) /\ frame' \in Seq(Marks) /\ Len(frame') = Len(frame) - n
      /\ \A i \in 1..(Len(frame) - n) : frame'[i] = frame[n + i]
  BY <1>2, TakesBytes
<1>4. wire' \in Seq(Marks) /\ Intact' /\ Cut' BY <1>1, <1>2, DirectIntact DEF PassesOn
<1>5. SendTypeOK' BY <1>1, <1>3, <1>4 DEF SendInv, SendTypeOK, Marks
<1>6. SourceExact' BY <1>1 DEF SendInv, SourceExact
<1>7. bypass => frame' = << >>
  <2> SUFFICES ASSUME bypass PROVE frame' = << >> OBVIOUS
  <2>1. Len(frame) = 0 \/ Len(frame) = 1
    <3>1. frame = << >> => Len(frame) = 0 OBVIOUS
    <3>2. frame = <<CAN>> => Len(frame) = 1 OBVIOUS
    <3>3. frame = << >> \/ frame = <<CAN>> BY <1>1
    <3> QED BY <3>1, <3>2, <3>3, Zenon
  <2>2. n >= 1 BY SenderAssumption
  <2>3. n <= Len(frame) /\ n \in Nat BY <1>1
  <2>4. Len(frame) = 1 /\ n = 1
    <3>1. CASE Len(frame) = 0 BY <2>2, <2>3, <3>1
    <3>2. CASE Len(frame) = 1 BY <2>2, <2>3, <3>2
    <3> QED BY <2>1, <3>1, <3>2, Zenon
  <2>5. Len(frame') = 0
    <3>1. Len(frame') = Len(frame) - n BY <1>3
    <3> QED BY <2>4, <3>1
  <2> QED BY <1>3, <2>5
<1>8. Batches' BY <1>1, <1>7 DEF SendInv, Batches, Buffered
<1>9. Stands' BY <1>1 DEF SendInv, Stands
<1> QED BY <1>2, <1>4, <1>5, <1>6, <1>8, <1>9, TakesFrames, TakesComplete DEF SendInv

\* A send that fails aborts the buffer and forgets the frame.
LEMMA SendFailsKeeps == ASSUME SendInv, SendFails PROVE SendInv'
<1>1. /\ send_pc = "send" /\ send_pc' \in {"failing", "closing"} /\ frame' = << >> /\ send_error' # "none"
      /\ send_error' \in {send_error, "canceled", "transport"}
      /\ UNCHANGED <<protocol, stream_pos, prefetch, eof, at, offered, sent, elapsed, after, accepted, wire,
                     send_canceled, repeats>>
      /\ \/ Buffered /\ storage' = << >> /\ budget' = 0 /\ bypass' = TRUE
         \/ ~Buffered /\ UNCHANGED <<storage, budget, bypass>>
  BY DEF SendFails, Abort, source, batching, flush
<1>2. SendTypeOK'
  <2>1. 0 \in 0..MaxBudget /\ 0 <= SendCapacity BY SenderAssumption
  <2>2. frame' \in Seq(0..EOT) BY <1>1
  <2>3. storage' \in Seq(0..EOT) /\ Len(storage') <= SendCapacity
    <3>1. << >> \in Seq(0..EOT) /\ Len(<< >>) = 0 OBVIOUS
    <3>2. storage' = storage \/ storage' = << >> BY <1>1
    <3>3. storage \in Seq(0..EOT) /\ Len(storage) <= SendCapacity BY DEF SendInv, SendTypeOK
    <3> QED BY <2>1, <3>1, <3>2, <3>3
  <2>4. budget' \in 0..MaxBudget /\ bypass' \in BOOLEAN BY <1>1, <2>1 DEF SendInv, SendTypeOK
  <2> QED BY <1>1, <2>2, <2>3, <2>4 DEF SendInv, SendTypeOK
<1>3. Intact' BY <1>1 DEF SendInv, Intact, Joined
<1>4. Cut' BY <1>1 DEF SendInv, Cut
<1>5. SourceExact' BY <1>1 DEF SendInv, SourceExact
<1>6. Batches' BY <1>1 DEF SendInv, Batches, Buffered
<1>7. Stands' BY <1>1 DEF Stands
<1>8. Frames' /\ Complete' BY <1>1 DEF Frames, Complete
<1> QED BY <1>2, <1>3, <1>4, <1>5, <1>6, <1>7, <1>8 DEF SendInv

-----------------------------------------------------------------------------
\* Every step keeps the invariant.
LEMMA SendStep == SendInv /\ [SendNext]_sender => SendInv'
<1> SUFFICES ASSUME SendInv, [SendNext]_sender PROVE SendInv' OBVIOUS
<1>1. CASE Progress
  BY <1>1, FlushWritesKeeps, BatchFailsKeeps, BufferFrameKeeps, SendFailsKeeps, DirectSendKeeps, ReadFrameKeeps,
     AwaitAnswerKeeps, StreamKeeps, AcknowledgedKeeps, RefusedKeeps, SeekKeeps, FailureKeeps, NotifiesKeeps,
     ClosesKeeps, OverKeeps DEF Progress
<1>2. CASE CancelSend \/ Over \/ UNCHANGED sender BY <1>2, OverKeeps DEF Over
<1> QED BY <1>1, <1>2 DEF SendNext

\* It holds at first.
LEMMA SendInitially == SendInit => SendInv
<1> SUFFICES ASSUME SendInit PROVE SendInv OBVIOUS
<1> USE DEF SendInit
<1>1. Len(<< >>) = 0 OBVIOUS
<1>2. 0 \in 0..Size /\ 0 <= SourceSize /\ 0 <= SendCapacity /\ 0 \in 0..SendCapacity /\ 0 \in 0..MaxBudget
      /\ 0 \in 0..MaxRepeats /\ Size \in Nat
  BY SenderAssumption
<1>3. SendTypeOK
  <2>1. << >> \in Seq(1..Size) /\ << >> \in Seq(0..EOT) OBVIOUS
  <2>2. /\ protocol \in {"ymodem", "ymodem-g", "zmodem"} /\ stream_pos \in 0..Size /\ at \in 0..Size
        /\ eof \in BOOLEAN
    BY <1>2
  <2>3. prefetch \in Seq(1..Size) /\ Len(prefetch) <= SourceSize BY <1>1, <1>2, <2>1
  <2>4. frame \in Seq(0..EOT) /\ offered \in Seq(0..EOT) /\ accepted \in Seq(0..EOT) /\ wire \in Seq(0..EOT)
    BY <2>1
  <2>5. /\ storage \in Seq(0..EOT) /\ Len(storage) <= SendCapacity /\ budget \in 0..MaxBudget
        /\ bypass \in BOOLEAN /\ sent \in 0..SendCapacity /\ elapsed \in 0..MaxBudget
    BY <1>1, <1>2, <2>1
  <2>6. /\ after = "none" /\ send_pc = "read" /\ send_error = "none" /\ send_canceled \in BOOLEAN
        /\ repeats \in 0..MaxRepeats
    BY <1>2
  <2> QED BY <2>2, <2>3, <2>4, <2>5, <2>6 DEF SendTypeOK
<1>4. Intact BY <1>1 DEF Intact, Joined
<1>5. Cut BY <1>1 DEF Cut
<1>6. SourceExact BY <1>1 DEF SourceExact
<1>7. Batches BY DEF Batches
<1>8. Stands BY DEF Stands
<1>9. Frames
  <2>1. Part = 0 BY <1>1 DEF Part
  <2> QED BY <1>1, <2>1 DEF Frames, Behind0, Ends
<1>10. Complete
  <2>1. << >> # <<EOT>>
    <3>1. Len(<< >>) = 0 /\ Len(<<EOT>>) = 1 OBVIOUS
    <3> QED BY <3>1
  <2> QED BY <2>1 DEF Complete
<1> QED BY <1>3, <1>4, <1>5, <1>6, <1>7, <1>8, <1>9, <1>10 DEF SendInv

\* What the buffer holds, what is accepted of the frame of now, and what of the file was
\* accepted, whatever fails.
THEOREM SendInvariant == SendSpec => []SendInv
<1> QED BY SendInitially, SendStep, PTL DEF SendSpec

\* A file sent by YMODEM or ZMODEM goes out byte for byte and in time; what a failure cuts is
\* cut once, and success is told of a whole file only (terminal-transfer-runner.cpp, 557-1086).
THEOREM FileIsSent == SendSpec => []SendExact
<1> QED BY SendInvariant, SendInvExact, PTL

-----------------------------------------------------------------------------
(* Selection by the mouse.                                                  *)

\* A drag is at a row, or above or below the view.
DragIsAt == phase = "dragging" => pointer \in Ys
\* While a release waits, what it asked for is what the position it waits for shows there.
AsksWhatIsSet == waits.release => copied.asked = position.set + Clamped(pointer)
SelectionInv == SelectionSound /\ DragIsAt /\ AsksWhatIsSet

\* The parts of the invariant.
PhaseTyped == phase \in {"idle", "pending", "dragging", "cancelled"}
PointTyped == press \in 0..(Rows - 1) \cup {None} /\ pointer \in Ys \cup {None}
WaitsTyped == waits \in [scroll : BOOLEAN, release : BOOLEAN]
FlagsTyped == leftDown \in BOOLEAN /\ timer \in BOOLEAN /\ held \in BOOLEAN /\ down \in BOOLEAN
PositionTyped == position \in [set : 0..History, shown : 0..History]
SelectionTyped == selection \in [anchor : TextRows, end : TextRows, stale : BOOLEAN]
CopiedTyped == copied \in [is : TextRows, asked : TextRows]
ReleaseSound == waits.release => phase = "dragging" /\ waits.scroll /\ ~leftDown
ScrollSound == waits.scroll => phase = "dragging"
TimerSound == timer => phase = "dragging" /\ waits = Quiet
HeldSound == held => leftDown
PressSound == phase \in {"pending", "cancelled"} => leftDown

\* The row a pointer is clamped to is one of the view, and its row of the text one of the text.
LEMMA ClampedRow ==
  ASSUME NEW y \in Ys PROVE Clamped(y) \in 0..(Rows - 1)
BY SelectionAssumption DEF Clamped, Ys

\* What is under a pointer is a row of the text.
LEMMA ShownRow ==
  ASSUME NEW y \in Ys, NEW n \in 0..History PROVE n + Clamped(y) \in TextRows
<1>1. Clamped(y) \in 0..(Rows - 1) BY ClampedRow
<1> QED BY <1>1, SelectionAssumption DEF TextRows

\* Only a drag that waits for nothing scrolls, one row at a time.
LEMMA StepsOnly ==
  ASSUME NEW dragging \in BOOLEAN, NEW y, NEW w, NEW row, Step(dragging, y, w, row) # 0
  PROVE dragging /\ w = Quiet /\ y # None /\ Step(dragging, y, w, row) \in {-1, 1}
BY DEF Step

\* A step that moves nothing, except that what is not a drag may end.
GestureRests ==
  /\ (phase' = phase \/ (phase' = "idle" /\ phase # "dragging")) /\ press' \in {press, None}
  /\ UNCHANGED <<pointer, waits, copied>> /\ (timer' = timer \/ timer' = FALSE)
\* What it leaves of the button.
ButtonSound ==
  /\ leftDown' \in BOOLEAN /\ held' \in BOOLEAN /\ down' \in BOOLEAN /\ (held' => leftDown')
  /\ (waits.release => ~leftDown') /\ (phase' \in {"pending", "cancelled"} => leftDown')

\* The invariant, part by part.
LEMMA SelectionParts == SelectionInv <=>
  /\ PhaseTyped
  /\ PointTyped
  /\ WaitsTyped
  /\ FlagsTyped
  /\ PositionTyped
  /\ SelectionTyped
  /\ CopiedTyped
  /\ CopyExact
  /\ ReleaseSound
  /\ ScrollSound
  /\ TimerSound
  /\ HeldSound
  /\ PressSound
  /\ DragIsAt
  /\ AsksWhatIsSet
BY DEF SelectionInv, SelectionSound, SelectionTypeOK, WaitsSound, PhaseTyped, PointTyped, WaitsTyped,
  FlagsTyped, PositionTyped, SelectionTyped, CopiedTyped, ReleaseSound, ScrollSound, TimerSound, HeldSound,
  PressSound

\* What waits for nothing waits for no painting and no release.
LEMMA QuietTyped == Quiet \in [scroll : BOOLEAN, release : BOOLEAN] /\ ~Quiet.scroll /\ ~Quiet.release
BY DEF Quiet

\* At first nothing is selected.
LEMMA SelectionStarts == ASSUME SelectionInit PROVE SelectionInv
<1>PhaseTyped. PhaseTyped
  BY DEF PhaseTyped, SelectionInit
<1>PointTyped. PointTyped
  BY DEF PointTyped, SelectionInit
<1>WaitsTyped. WaitsTyped
  BY DEF WaitsTyped, SelectionInit, Quiet
<1>FlagsTyped. FlagsTyped
  BY DEF FlagsTyped, SelectionInit
<1>PositionTyped. PositionTyped
  BY SelectionAssumption DEF PositionTyped, SelectionInit
<1>SelectionTyped. SelectionTyped
  BY SelectionAssumption DEF SelectionTyped, SelectionInit, TextRows
<1>CopiedTyped. CopiedTyped
  BY SelectionAssumption DEF CopiedTyped, SelectionInit, TextRows
<1>CopyExact. CopyExact
  BY DEF CopyExact, SelectionInit
<1>ReleaseSound. ReleaseSound
  BY DEF ReleaseSound, SelectionInit, Quiet
<1>ScrollSound. ScrollSound
  BY DEF ScrollSound, SelectionInit, Quiet
<1>TimerSound. TimerSound
  BY DEF TimerSound, SelectionInit
<1>HeldSound. HeldSound
  BY DEF HeldSound, SelectionInit
<1>PressSound. PressSound
  BY DEF PressSound, SelectionInit
<1>DragIsAt. DragIsAt
  BY DEF DragIsAt, SelectionInit
<1>AsksWhatIsSet. AsksWhatIsSet
  BY DEF AsksWhatIsSet, SelectionInit, Quiet
<1> QED BY <1>PhaseTyped, <1>PointTyped, <1>WaitsTyped, <1>FlagsTyped, <1>PositionTyped, <1>SelectionTyped,
  <1>CopiedTyped, <1>CopyExact, <1>ReleaseSound, <1>ScrollSound, <1>TimerSound, <1>HeldSound, <1>PressSound,
  <1>DragIsAt, <1>AsksWhatIsSet, SelectionParts

\* A press begins a gesture at a row of the view, or is left to the host.
LEMMA PressKeeps == ASSUME SelectionInv, LeftPress PROVE SelectionInv'
<1>p. PhaseTyped /\ PointTyped /\ WaitsTyped /\ FlagsTyped /\ PositionTyped /\ SelectionTyped /\
      CopiedTyped /\ CopyExact /\ ReleaseSound /\ ScrollSound /\ TimerSound /\ HeldSound /\
      PressSound /\ DragIsAt /\ AsksWhatIsSet
  BY SelectionParts
<1>1. PICK y \in 0..(Rows - 1), taken \in BOOLEAN, multiple \in BOOLEAN : Press(y, taken, multiple)
  BY DEF LeftPress
<1>2. y \in Ys /\ position.shown + y \in TextRows
  BY <1>p, SelectionAssumption DEF Ys, TextRows, PositionTyped
<1>3. copied' = copied \/ copied' = [copied EXCEPT !.asked = copied.is]
  BY <1>1 DEF Press
<1>4. \/ selection' = selection
      \/ selection' = [anchor |-> position.shown + y, end |-> position.shown + y, stale |-> FALSE]
  BY <1>1 DEF Press
<1>PhaseTyped. PhaseTyped'
  BY <1>1 DEF PhaseTyped, Press, Selecting
<1>PointTyped. PointTyped'
  BY <1>p, <1>1, <1>2 DEF PointTyped, Press
<1>WaitsTyped. WaitsTyped'
  BY <1>p, <1>1, QuietTyped DEF WaitsTyped, Press
<1>FlagsTyped. FlagsTyped'
  BY <1>p, <1>1 DEF FlagsTyped, Press
<1>PositionTyped. PositionTyped'
  BY <1>p, <1>1 DEF PositionTyped, Press
<1>SelectionTyped. SelectionTyped'
  <2>1. CASE selection' = selection
    BY <1>p, <2>1 DEF SelectionTyped
  <2>2. CASE selection' = [anchor |-> position.shown + y, end |-> position.shown + y, stale |-> FALSE]
    <3>1. FALSE \in BOOLEAN
      OBVIOUS
    <3>2. [anchor |-> position.shown + y, end |-> position.shown + y, stale |-> FALSE]
            \in [anchor : TextRows, end : TextRows, stale : BOOLEAN]
      BY <1>2, Zenon
    <3> QED BY <2>2, <3>2, Zenon DEF SelectionTyped
  <2> QED BY <1>4, <2>1, <2>2
<1>CopiedTyped. CopiedTyped'
  BY <1>p, <1>3 DEF CopiedTyped
<1>CopyExact. CopyExact'
  BY <1>p, <1>1 DEF CopyExact, CopiedTyped, Press
<1>ReleaseSound. ReleaseSound'
  BY <1>1, QuietTyped DEF ReleaseSound, Press
<1>ScrollSound. ScrollSound'
  BY <1>p, <1>1, QuietTyped DEF ScrollSound, Press
<1>TimerSound. TimerSound'
  BY <1>p, <1>1 DEF TimerSound, Press
<1>HeldSound. HeldSound'
  BY <1>1 DEF HeldSound, Press
<1>PressSound. PressSound'
  BY <1>1 DEF PressSound, Press
<1>DragIsAt. DragIsAt'
  BY <1>p, <1>1, <1>2 DEF DragIsAt, Press
<1>AsksWhatIsSet. AsksWhatIsSet'
  BY <1>1, QuietTyped DEF AsksWhatIsSet, Press
<1> QED BY <1>PhaseTyped, <1>PointTyped, <1>WaitsTyped, <1>FlagsTyped, <1>PositionTyped, <1>SelectionTyped,
  <1>CopiedTyped, <1>CopyExact, <1>ReleaseSound, <1>ScrollSound, <1>TimerSound, <1>HeldSound, <1>PressSound,
  <1>DragIsAt, <1>AsksWhatIsSet, SelectionParts, PTL

\* A gesture that is given up asks for nothing.
LEMMA CancelKeeps ==
  ASSUME SelectionInv, NEW pressed \in BOOLEAN, Selecting, Cancels(pressed), leftDown' = pressed, held'
    \in BOOLEAN, held' => pressed,
  down' \in BOOLEAN, UNCHANGED position, selection' = selection PROVE SelectionInv'
<1>p. PhaseTyped /\ PointTyped /\ WaitsTyped /\ FlagsTyped /\ PositionTyped /\ SelectionTyped /\
      CopiedTyped /\ CopyExact /\ ReleaseSound /\ ScrollSound /\ TimerSound /\ HeldSound /\
      PressSound /\ DragIsAt /\ AsksWhatIsSet
  BY SelectionParts
<1>PhaseTyped. PhaseTyped'
  BY DEF PhaseTyped, Cancels
<1>PointTyped. PointTyped'
  BY DEF PointTyped, Cancels
<1>WaitsTyped. WaitsTyped'
  BY QuietTyped DEF WaitsTyped, Cancels
<1>FlagsTyped. FlagsTyped'
  BY DEF FlagsTyped, Cancels
<1>PositionTyped. PositionTyped'
  BY <1>p DEF PositionTyped
<1>SelectionTyped. SelectionTyped'
  BY <1>p DEF SelectionTyped
<1>CopiedTyped. CopiedTyped'
  BY <1>p DEF CopiedTyped, Cancels
<1>CopyExact. CopyExact'
  BY DEF CopyExact, Cancels
<1>ReleaseSound. ReleaseSound'
  BY QuietTyped DEF ReleaseSound, Cancels
<1>ScrollSound. ScrollSound'
  BY QuietTyped DEF ScrollSound, Cancels
<1>TimerSound. TimerSound'
  BY DEF TimerSound, Cancels
<1>HeldSound. HeldSound'
  BY DEF HeldSound
<1>PressSound. PressSound'
  BY DEF PressSound, Cancels
<1>DragIsAt. DragIsAt'
  BY DEF DragIsAt, Cancels
<1>AsksWhatIsSet. AsksWhatIsSet'
  BY QuietTyped DEF AsksWhatIsSet, Cancels
<1> QED BY <1>PhaseTyped, <1>PointTyped, <1>WaitsTyped, <1>FlagsTyped, <1>PositionTyped, <1>SelectionTyped,
  <1>CopiedTyped, <1>CopyExact, <1>ReleaseSound, <1>ScrollSound, <1>TimerSound, <1>HeldSound, <1>PressSound,
  <1>DragIsAt, <1>AsksWhatIsSet, SelectionParts, PTL

\* A drag, or its release: the end is at the row that is shown, or waits for the painting.
LEMMA DragKeeps == ASSUME SelectionInv, NEW y \in Ys, NEW release \in BOOLEAN, Selecting, Drags(y, release),
  waits.release => release, leftDown' \in BOOLEAN, release => ~leftDown', held' \in BOOLEAN, held' => leftDown',
  down' \in BOOLEAN, UNCHANGED position, press' \in {None, press} PROVE SelectionInv'
<1>p. PhaseTyped /\ PointTyped /\ WaitsTyped /\ FlagsTyped /\ PositionTyped /\ SelectionTyped /\
      CopiedTyped /\ CopyExact /\ ReleaseSound /\ ScrollSound /\ TimerSound /\ HeldSound /\
      PressSound /\ DragIsAt /\ AsksWhatIsSet
  BY SelectionParts
<1> DEFINE shows == IF waits.scroll THEN position.set ELSE position.shown
           w == [waits EXCEPT !.release = release]
<1>1. shows + Clamped(y) \in TextRows /\ position.shown + Clamped(y) \in TextRows
  BY <1>p, ShownRow DEF PositionTyped
<1>2. w \in [scroll : BOOLEAN, release : BOOLEAN] /\ w.scroll = waits.scroll /\ w.release = release
  BY <1>p DEF WaitsTyped
<1>3. /\ selection' = IF waits.scroll THEN selection ELSE [selection EXCEPT !.end = position.shown + Clamped(y)]
      /\ pointer' = y
      /\ IF release /\ ~waits.scroll
         THEN phase' = "idle" /\ timer' = FALSE /\ waits' = Quiet
         ELSE /\ phase' = "dragging" /\ waits' = w /\ timer' = (Step(TRUE, y, w, position.set) # 0)
  BY DEF Drags, EndAt
<1>4. copied' = IF ~release THEN copied
                ELSE IF waits.scroll THEN [copied EXCEPT !.asked = shows + Clamped(y)]
                ELSE [is |-> shows + Clamped(y), asked |-> shows + Clamped(y)]
  BY <1>p DEF Drags, EndAt, CopiedTyped, SelectionTyped
<1>5. Step(TRUE, y, w, position.set) # 0 => w = Quiet
  BY StepsOnly
<1> HIDE DEF shows, w
<1>PhaseTyped. PhaseTyped'
  BY <1>3 DEF PhaseTyped
<1>PointTyped. PointTyped'
  BY <1>p, <1>3 DEF PointTyped
<1>WaitsTyped. WaitsTyped'
  BY <1>2, <1>3, QuietTyped DEF WaitsTyped
<1>FlagsTyped. FlagsTyped'
  BY <1>3 DEF FlagsTyped
<1>PositionTyped. PositionTyped'
  BY <1>p DEF PositionTyped
<1>SelectionTyped. SelectionTyped'
  BY <1>p, <1>1, <1>3 DEF SelectionTyped
<1>CopiedTyped. CopiedTyped'
  BY <1>p, <1>1, <1>4 DEF CopiedTyped
<1>CopyExact. CopyExact'
  <2>1. CASE ~release
    BY <1>p, <1>4, <2>1 DEF CopyExact
  <2>2. CASE release /\ waits.scroll
    BY <1>2, <1>3, <2>2 DEF CopyExact
  <2>3. CASE release /\ ~waits.scroll
    BY <1>4, <2>3 DEF CopyExact
  <2> QED BY <2>1, <2>2, <2>3
<1>ReleaseSound. ReleaseSound'
  BY <1>2, <1>3, QuietTyped DEF ReleaseSound
<1>ScrollSound. ScrollSound'
  BY <1>3, QuietTyped DEF ScrollSound
<1>TimerSound. TimerSound'
  BY <1>3, <1>5 DEF TimerSound
<1>HeldSound. HeldSound'
  BY DEF HeldSound
<1>PressSound. PressSound'
  BY <1>3 DEF PressSound
<1>DragIsAt. DragIsAt'
  BY <1>3 DEF DragIsAt
<1>AsksWhatIsSet. AsksWhatIsSet'
  BY <1>p, <1>2, <1>3, <1>4, QuietTyped DEF AsksWhatIsSet, CopiedTyped, shows
<1> QED BY <1>PhaseTyped, <1>PointTyped, <1>WaitsTyped, <1>FlagsTyped, <1>PositionTyped, <1>SelectionTyped,
  <1>CopiedTyped, <1>CopyExact, <1>ReleaseSound, <1>ScrollSound, <1>TimerSound, <1>HeldSound, <1>PressSound,
  <1>DragIsAt, <1>AsksWhatIsSet, SelectionParts, PTL

\* A step that leaves the gesture alone.
LEMMA GestureRestKeeps ==
  ASSUME SelectionInv, GestureRests, ButtonSound, PositionTyped', position'.set = position.set, SelectionTyped'
    PROVE SelectionInv'
<1>p. PhaseTyped /\ PointTyped /\ WaitsTyped /\ FlagsTyped /\ PositionTyped /\ SelectionTyped /\
      CopiedTyped /\ CopyExact /\ ReleaseSound /\ ScrollSound /\ TimerSound /\ HeldSound /\
      PressSound /\ DragIsAt /\ AsksWhatIsSet
  BY SelectionParts
<1>PhaseTyped. PhaseTyped'
  BY <1>p DEF PhaseTyped, GestureRests
<1>PointTyped. PointTyped'
  BY <1>p DEF PointTyped, GestureRests
<1>WaitsTyped. WaitsTyped'
  BY <1>p DEF WaitsTyped, GestureRests
<1>FlagsTyped. FlagsTyped'
  BY <1>p DEF FlagsTyped, GestureRests, ButtonSound
<1>PositionTyped. PositionTyped'
  OBVIOUS
<1>SelectionTyped. SelectionTyped'
  OBVIOUS
<1>CopiedTyped. CopiedTyped'
  BY <1>p DEF CopiedTyped, GestureRests
<1>CopyExact. CopyExact'
  BY <1>p DEF CopyExact, GestureRests
<1>ReleaseSound. ReleaseSound'
  BY <1>p DEF ReleaseSound, GestureRests, ButtonSound
<1>ScrollSound. ScrollSound'
  BY <1>p DEF ScrollSound, GestureRests
<1>TimerSound. TimerSound'
  BY <1>p DEF TimerSound, GestureRests
<1>HeldSound. HeldSound'
  BY DEF HeldSound, ButtonSound
<1>PressSound. PressSound'
  BY DEF PressSound, ButtonSound
<1>DragIsAt. DragIsAt'
  BY <1>p DEF DragIsAt, GestureRests
<1>AsksWhatIsSet. AsksWhatIsSet'
  BY <1>p DEF AsksWhatIsSet, GestureRests
<1> QED BY <1>PhaseTyped, <1>PointTyped, <1>WaitsTyped, <1>FlagsTyped, <1>CopiedTyped, <1>CopyExact,
  <1>ReleaseSound, <1>ScrollSound, <1>TimerSound, <1>HeldSound, <1>PressSound, <1>DragIsAt, <1>AsksWhatIsSet,
  SelectionParts, PTL

\* A drag that scrolls waits for the painting.
LEMMA ScrollKeeps ==
  ASSUME SelectionInv, NEW by \in {-1, 1}, Scrolls(by), phase = "dragging", ~waits.release, pointer' \in
    Ys,
  UNCHANGED <<phase, press, leftDown, held, selection, copied, down>>
  PROVE SelectionInv'
<1>p. PhaseTyped /\ PointTyped /\ WaitsTyped /\ FlagsTyped /\ PositionTyped /\ SelectionTyped /\
      CopiedTyped /\ CopyExact /\ ReleaseSound /\ ScrollSound /\ TimerSound /\ HeldSound /\
      PressSound /\ DragIsAt /\ AsksWhatIsSet
  BY SelectionParts
<1>1. \/ UNCHANGED <<position, timer, waits>>
      \/ /\ position' = [position EXCEPT !.set = position.set + by] /\ position.set + by \in 0..History
         /\ timer' = FALSE /\ waits' = [waits EXCEPT !.scroll = TRUE]
  BY DEF Scrolls
<1>2. /\ waits' \in [scroll : BOOLEAN, release : BOOLEAN] /\ ~waits'.release
      /\ timer' => timer /\ waits' = waits
  <2>1. CASE UNCHANGED <<position, timer, waits>>
    BY <1>p, <2>1 DEF WaitsTyped
  <2>2. CASE timer' = FALSE /\ waits' = [waits EXCEPT !.scroll = TRUE]
    BY <1>p, <2>2 DEF WaitsTyped
  <2> QED BY <1>1, <2>1, <2>2
<1>PhaseTyped. PhaseTyped'
  BY DEF PhaseTyped
<1>PointTyped. PointTyped'
  BY <1>p DEF PointTyped
<1>WaitsTyped. WaitsTyped'
  BY <1>2 DEF WaitsTyped
<1>FlagsTyped. FlagsTyped'
  BY <1>p, <1>1 DEF FlagsTyped
<1>PositionTyped. PositionTyped'
  BY <1>p, <1>1 DEF PositionTyped
<1>SelectionTyped. SelectionTyped'
  BY <1>p DEF SelectionTyped
<1>CopiedTyped. CopiedTyped'
  BY <1>p DEF CopiedTyped
<1>CopyExact. CopyExact'
  BY <1>p DEF CopyExact
<1>ReleaseSound. ReleaseSound'
  BY <1>2 DEF ReleaseSound
<1>ScrollSound. ScrollSound'
  BY DEF ScrollSound
<1>TimerSound. TimerSound'
  BY <1>p, <1>2 DEF TimerSound
<1>HeldSound. HeldSound'
  BY <1>p DEF HeldSound
<1>PressSound. PressSound'
  BY DEF PressSound
<1>DragIsAt. DragIsAt'
  BY DEF DragIsAt
<1>AsksWhatIsSet. AsksWhatIsSet'
  BY <1>2 DEF AsksWhatIsSet
<1> QED BY <1>PhaseTyped, <1>PointTyped, <1>WaitsTyped, <1>FlagsTyped, <1>PositionTyped, <1>SelectionTyped,
  <1>CopiedTyped, <1>CopyExact, <1>ReleaseSound, <1>ScrollSound, <1>TimerSound, <1>HeldSound, <1>PressSound,
  <1>DragIsAt, <1>AsksWhatIsSet, SelectionParts, PTL

\* What the pointer does to the gesture, with the button down or let go.
LEMMA PointerKeeps == ASSUME SelectionInv, NEW y \in Ys, NEW release \in BOOLEAN, PointerMoves(y, release),
  leftDown' \in BOOLEAN, release => ~leftDown', ~release => leftDown' = leftDown,
  held' \in BOOLEAN, held' => leftDown', down' \in BOOLEAN, UNCHANGED position
  PROVE SelectionInv'
<1>p. PhaseTyped /\ PointTyped /\ WaitsTyped /\ FlagsTyped /\ PositionTyped /\ SelectionTyped /\
      CopiedTyped /\ CopyExact /\ ReleaseSound /\ ScrollSound /\ TimerSound /\ HeldSound /\
      PressSound /\ DragIsAt /\ AsksWhatIsSet
  BY SelectionParts
<1>1. \/ GestureRests /\ (release => phase' \notin {"pending", "cancelled"}) /\ UNCHANGED selection
      \/ Cancels(leftDown') /\ Selecting /\ UNCHANGED selection
      \/ Drags(y, release) /\ Selecting /\ press' \in {None, press} /\ (waits.release => release)
  BY <1>p DEF PointerMoves, DragRefused, Selecting, ReleaseSound, GestureRests
<1>2. CASE GestureRests /\ (release => phase' \notin {"pending", "cancelled"}) /\ UNCHANGED selection
  <2>1. PositionTyped' /\ SelectionTyped' /\ position'.set = position.set
    BY <1>p, <1>2 DEF PositionTyped, SelectionTyped
  <2>2. ButtonSound
    BY <1>p, <1>2 DEF ButtonSound, GestureRests, PressSound, ReleaseSound
  <2> QED BY <1>2, <2>1, <2>2, GestureRestKeeps
<1>3. CASE Cancels(leftDown') /\ Selecting /\ UNCHANGED selection
  BY <1>3, CancelKeeps
<1>4. CASE Drags(y, release) /\ Selecting /\ press' \in {None, press} /\ (waits.release => release)
  BY <1>4, DragKeeps
<1> QED BY <1>1, <1>2, <1>3, <1>4

\* A motion leaves the button alone.
LEMMA MotionKeeps == ASSUME SelectionInv, Motion PROVE SelectionInv'
<1>p. HeldSound /\ FlagsTyped
  BY SelectionParts
<1>1. PICK y \in Ys : PointerMoves(y, FALSE) /\ held' = (held /\ ~DragRefused(y))
  BY DEF Motion
<1>2. leftDown' = leftDown /\ UNCHANGED <<position, down>>
  BY DEF Motion
<1>3. leftDown' \in BOOLEAN /\ held' \in BOOLEAN /\ (held' => leftDown') /\ down' \in BOOLEAN
  BY <1>p, <1>1, <1>2 DEF HeldSound, FlagsTyped
<1> QED BY <1>1, <1>2, <1>3, PointerKeeps

\* After a release the button is up.
LEMMA ReleaseKeeps == ASSUME SelectionInv, LeftRelease PROVE SelectionInv'
<1>1. PICK y \in Ys : PointerMoves(y, TRUE)
  BY DEF LeftRelease
<1>2. down' = FALSE /\ leftDown' = FALSE /\ held' = FALSE /\ UNCHANGED position
  BY DEF LeftRelease
<1> QED BY <1>1, <1>2, PointerKeeps

\* A gesture that is interrupted, or whose text is gone.
LEMMA GivenUpKeeps == ASSUME SelectionInv, Selecting, CancelGesture, down' = down PROVE SelectionInv'
<1>1. leftDown \in BOOLEAN /\ down \in BOOLEAN
  BY SelectionParts DEF FlagsTyped
<1>2. Cancels(leftDown) /\ held' = FALSE /\ UNCHANGED <<leftDown, position, selection>>
  BY DEF CancelGesture
<1> QED BY <1>1, <1>2, CancelKeeps

\* The wheel scrolls a drag whose release does not wait.
LEMMA WheelKeeps == ASSUME SelectionInv, Wheel PROVE SelectionInv'
<1>1. PICK y \in Ys, by \in {-1, 1} : pointer' = y /\ Scrolls(by)
  BY DEF Wheel
<1> QED BY ScrollKeeps DEF Wheel

\* Text that changes below a gesture leaves it to its next event.
LEMMA TextKeeps == ASSUME SelectionInv, TextChanges PROVE SelectionInv'
<1>p. PhaseTyped /\ PointTyped /\ WaitsTyped /\ FlagsTyped /\ PositionTyped /\ SelectionTyped /\
      CopiedTyped /\ CopyExact /\ ReleaseSound /\ ScrollSound /\ TimerSound /\ HeldSound /\
      PressSound /\ DragIsAt /\ AsksWhatIsSet
  BY SelectionParts
<1>1. UNCHANGED <<phase, press, pointer, waits, leftDown, timer, held, position, copied, down>>
  BY DEF TextChanges, gesture
<1>2. SelectionTyped' /\ PositionTyped'
  BY <1>p DEF TextChanges, SelectionTyped, PositionTyped
<1>3. GestureRests /\ ButtonSound
  BY <1>p, <1>1 DEF GestureRests, ButtonSound, FlagsTyped, ReleaseSound, HeldSound, PressSound
<1> QED BY <1>1, <1>2, <1>3, GestureRestKeeps

\* Painting changes what is shown, never what it was told to show.
LEMMA PaintKeeps == ASSUME SelectionInv, Paint PROVE SelectionInv'
<1>p. PhaseTyped /\ PointTyped /\ WaitsTyped /\ FlagsTyped /\ PositionTyped /\ SelectionTyped /\
      CopiedTyped /\ CopyExact /\ ReleaseSound /\ ScrollSound /\ TimerSound /\ HeldSound /\
      PressSound /\ DragIsAt /\ AsksWhatIsSet
  BY SelectionParts
<1>1. UNCHANGED <<phase, press, pointer, waits, leftDown, timer, held, selection, copied, down>>
  BY DEF Paint, gesture
<1>2. SelectionTyped' /\ PositionTyped' /\ position'.set = position.set
  BY <1>p DEF Paint, SelectionTyped, PositionTyped
<1>3. GestureRests /\ ButtonSound
  BY <1>p, <1>1 DEF GestureRests, ButtonSound, FlagsTyped, ReleaseSound, HeldSound, PressSound
<1> QED BY <1>2, <1>3, GestureRestKeeps

\* A step of the button or the timer alone.
LEMMA StandsKeeps ==
  ASSUME SelectionInv, UNCHANGED <<phase, press, pointer, waits, leftDown, held, position, selection,
    copied>>,
  down' \in BOOLEAN, timer' = timer \/ timer' = FALSE PROVE SelectionInv'
<1>p. PhaseTyped /\ PointTyped /\ WaitsTyped /\ FlagsTyped /\ PositionTyped /\ SelectionTyped /\
      CopiedTyped /\ CopyExact /\ ReleaseSound /\ ScrollSound /\ TimerSound /\ HeldSound /\
      PressSound /\ DragIsAt /\ AsksWhatIsSet
  BY SelectionParts
<1>2. SelectionTyped' /\ PositionTyped' /\ position'.set = position.set
  BY <1>p DEF SelectionTyped, PositionTyped
<1>3. GestureRests /\ ButtonSound
  BY <1>p DEF GestureRests, ButtonSound, FlagsTyped, ReleaseSound, HeldSound, PressSound
<1> QED BY <1>2, <1>3, GestureRestKeeps

\* The timer scrolls a drag that is outside of the view, or stops.
LEMMA TickKeeps == ASSUME SelectionInv, Tick PROVE SelectionInv'
<1>p. PhaseTyped /\ PointTyped /\ WaitsTyped /\ FlagsTyped /\ PositionTyped /\ SelectionTyped /\
      CopiedTyped /\ CopyExact /\ ReleaseSound /\ ScrollSound /\ TimerSound /\ HeldSound /\
      PressSound /\ DragIsAt /\ AsksWhatIsSet
  BY SelectionParts
<1> DEFINE by == Step(phase = "dragging", pointer, waits, position.set)
<1>1. CASE Invalid
  BY <1>1, GivenUpKeeps DEF Tick, Invalid
<1>2. CASE ~Invalid /\ by # 0
  <2>1. phase = "dragging" /\ waits = Quiet /\ by \in {-1, 1}
    BY <1>2 DEF Step
  <2>2. pointer \in Ys /\ ~waits.release
    BY <1>p, <2>1, QuietTyped DEF DragIsAt
  <2>3. Scrolls(by) /\ UNCHANGED <<phase, press, pointer, leftDown, held, selection, copied, down>>
    BY <1>2 DEF Tick
  <2> HIDE DEF by
  <2> QED BY <2>1, <2>2, <2>3, ScrollKeeps
<1>3. CASE ~Invalid /\ by = 0
  <2>1. timer' = FALSE /\ UNCHANGED <<position, waits, phase, press, pointer, leftDown, held, selection, copied, down>>
    BY <1>3 DEF Tick
  <2> QED BY <1>p, <2>1, StandsKeeps DEF FlagsTyped
<1> QED BY <1>1, <1>2, <1>3

\* The rows are painted: what is under the pointer is what a release has asked for.
LEMMA ShownKeeps ==
  ASSUME SelectionInv, NEW release \in BOOLEAN, waits.scroll, Painted, waits.release = release,
  selection' = EndAt(pointer),
  IF release THEN Finishes(selection')
  ELSE /\ waits' = [waits EXCEPT !.scroll = FALSE] /\ UNCHANGED <<phase, copied>>
       /\ timer' = (Step(phase = "dragging", pointer, waits', position.set) # 0),
  UNCHANGED <<press, pointer, leftDown, held, position, down>>
  PROVE SelectionInv'
<1>p. PhaseTyped /\ PointTyped /\ WaitsTyped /\ FlagsTyped /\ PositionTyped /\ SelectionTyped /\
      CopiedTyped /\ CopyExact /\ ReleaseSound /\ ScrollSound /\ TimerSound /\ HeldSound /\
      PressSound /\ DragIsAt /\ AsksWhatIsSet
  BY SelectionParts
<1>1. pointer \in Ys /\ phase = "dragging"
  BY <1>p DEF ScrollSound, DragIsAt
<1>2. position.shown + Clamped(pointer) \in TextRows /\ position.shown = position.set
  BY <1>p, <1>1, ShownRow DEF PositionTyped, Painted
<1>3. selection' = [selection EXCEPT !.end = position.shown + Clamped(pointer)]
      /\ selection'.end = position.shown + Clamped(pointer)
  BY DEF EndAt
<1>4. \/ /\ release /\ phase' = "idle" /\ timer' = FALSE /\ waits' = Quiet
         /\ copied' = [copied EXCEPT !.is = position.shown + Clamped(pointer)]
      \/ /\ ~release /\ waits' = [waits EXCEPT !.scroll = FALSE] /\ UNCHANGED <<phase, copied>>
         /\ timer' \in BOOLEAN /\ (timer' => waits' = Quiet)
  BY <1>3 DEF Finishes, Step
<1>PhaseTyped. PhaseTyped'
  BY <1>1, <1>4 DEF PhaseTyped
<1>PointTyped. PointTyped'
  BY <1>p DEF PointTyped
<1>WaitsTyped. WaitsTyped'
  BY <1>p, <1>4, QuietTyped DEF WaitsTyped
<1>FlagsTyped. FlagsTyped'
  BY <1>p, <1>4 DEF FlagsTyped
<1>PositionTyped. PositionTyped'
  BY <1>p DEF PositionTyped
<1>SelectionTyped. SelectionTyped'
  BY <1>p, <1>2, <1>3 DEF SelectionTyped
<1>CopiedTyped. CopiedTyped'
  BY <1>p, <1>2, <1>4 DEF CopiedTyped
<1>CopyExact. CopyExact'
  BY <1>p, <1>2, <1>4 DEF CopyExact, CopiedTyped, AsksWhatIsSet
<1>ReleaseSound. ReleaseSound'
  BY <1>p, <1>4, QuietTyped DEF ReleaseSound, WaitsTyped
<1>ScrollSound. ScrollSound'
  BY <1>1, <1>4, QuietTyped DEF ScrollSound
<1>TimerSound. TimerSound'
  BY <1>1, <1>4 DEF TimerSound
<1>HeldSound. HeldSound'
  BY <1>p DEF HeldSound
<1>PressSound. PressSound'
  BY <1>1, <1>4 DEF PressSound
<1>DragIsAt. DragIsAt'
  BY <1>1 DEF DragIsAt
<1>AsksWhatIsSet. AsksWhatIsSet'
  BY <1>p, <1>4 DEF AsksWhatIsSet, WaitsTyped, CopiedTyped
<1> QED BY <1>PhaseTyped, <1>PointTyped, <1>WaitsTyped, <1>FlagsTyped, <1>PositionTyped, <1>SelectionTyped,
  <1>CopiedTyped, <1>CopyExact, <1>ReleaseSound, <1>ScrollSound, <1>TimerSound, <1>HeldSound, <1>PressSound,
  <1>DragIsAt, <1>AsksWhatIsSet, SelectionParts, PTL

\* A drag that waited goes on, ends, or is given up.
LEMMA ResumeKeeps == ASSUME SelectionInv, Resume PROVE SelectionInv'
<1>1. CASE selection.stale
  BY <1>1, SelectionParts, GivenUpKeeps DEF Resume, Selecting, ScrollSound
<1>2. CASE ~selection.stale
  BY <1>2, SelectionParts, ShownKeeps DEF Resume, WaitsTyped
<1> QED BY <1>1, <1>2

\* However a gesture is interrupted, and however late its rows are painted, what is copied
\* ends where the user let go, no release waits for a painting that does not come, and the
\* timer and the uncompressed motion end with the drag (terminal-runtime.cpp).
THEOREM SelectionIsSound == SelectionSpec => []SelectionSound
<1>1. SelectionInit => SelectionInv
  BY SelectionStarts
<1>2. SelectionInv /\ [SelectionNext]_mouse => SelectionInv'
  <2> SUFFICES ASSUME SelectionInv, [SelectionNext]_mouse PROVE SelectionInv'
    OBVIOUS
  <2>0. FlagsTyped
    BY SelectionParts
  <2>1. CASE ReleaseLost
    BY <2>1, StandsKeeps DEF ReleaseLost, gesture
  <2>2. CASE Interrupts
    BY <2>2, GivenUpKeeps DEF Interrupts
  <2>3. CASE Validates
    BY <2>3, GivenUpKeeps DEF Validates, Invalid
  <2>4. CASE UNCHANGED mouse
    BY <2>0, <2>4, StandsKeeps DEF mouse, gesture, FlagsTyped
  <2> QED
    BY <2>1, <2>2, <2>3, <2>4, PressKeeps, MotionKeeps, ReleaseKeeps, WheelKeeps, TextKeeps, TickKeeps,
      PaintKeeps, ResumeKeeps DEF SelectionNext
<1>3. SelectionInv => SelectionSound
  BY DEF SelectionInv
<1> QED BY <1>1, <1>2, <1>3, PTL DEF SelectionSpec

-----------------------------------------------------------------------------
(* The connection of a window.                                              *)
(*                                                                         *)
(* The state is the record Now of its variables, so that each operation of the   *)
(* code is a function of it.  "Sound" is what every operation keeps, whatever is   *)
(* asked of the window and wherever it stands in its closing; "Calm" says of the   *)
(* policy of a frame that it has nothing left to do.  A frame that was not asked   *)
(* for leaves a calm state: so what waits never waits for a frame nobody schedules. *)

\* The types of the fields of the state.
ConnectionStates == [phase : Phases, live : BOOLEAN, carrier : BOOLEAN, losses : 0..MaxLosses,
       ended : BOOLEAN, cancelled : BOOLEAN, busy : {Unset, "reserved", "text", "transfer", "break"},
       changing : BOOLEAN, encoding : Encodings \cup {Unset}]
PendingStates == [connection : {Unset} \cup Connections, again : BOOLEAN,
       encoding : {Unset} \cup Encodings, service : {Unset, "text", "transfer"}, auto : BOOLEAN]
RunningStates == [service : {Unset, "text", "selecting", "transfer"}, stop : BOOLEAN,
       encoding : {Unset} \cup Encodings, break : BOOLEAN, watch : {Unset, "on", "cancelled"}]
RecoveryStates == [request : {Unset} \cup Connections, returned : BOOLEAN]
InputStates == [state : {"enabled", "draining", "disabled"}, allowed : BOOLEAN, failed : BOOLEAN]
GivenStates == [encoding : {Unset} \cup Encodings, owed : Nat, starts : 0..MaxStarts]
States == [c : ConnectionStates, p : PendingStates, r : RunningStates, v : RecoveryStates,
  i : InputStates, h : 0..MaxLosses, g : GivenStates, f : BOOLEAN]

\* A reservation has the transfer that will join it, or the question that will give it back.
Held(s) == s.c.busy = "reserved" <=> s.p.service = "transfer" \/ s.p.auto \/ s.r.service = "selecting"
\* One service at a time is accepted and not finished: it is pending, announced, or runs.
Owed(s) ==
  /\ s.g.owed = IF Serving(s) THEN 1 ELSE 0
  /\ s.p.service # Unset => ~Active(s)
  /\ s.p.auto => s.r.service = Unset
\* What the connection serves has the coroutine that waits for it, and nothing else runs.
Apart(s) ==
  /\ s.c.busy \in {"text", "transfer"} => s.r.service = s.c.busy
  /\ s.c.busy = "break" => s.r.break
  /\ s.c.changing => s.r.encoding # Unset
  /\ Serving(s) => ~s.r.break /\ s.r.encoding = Unset
  /\ s.p.encoding # Unset => ~Exclusive(s)
  /\ s.p.connection # Unset => ~Exclusive(s)
\* A connection that is not there serves nothing.
Idle(s) == s.c.phase \in {"idle", "closed"} => s.c.busy = Unset /\ ~s.c.changing
\* A connection that is still to start is one the bound allows.
Counted(s) ==
  /\ s.p.connection # Unset => s.g.starts < MaxStarts
  /\ s.v.returned => s.g.starts < MaxStarts
\* The encoding the user was told last is that of the connection, or the one it is exchanged
\* for, and goes with the connections that are still to start.
Carried(s) ==
  /\ s.c.phase \in {"starting", "connected"} => s.c.encoding # Unset /\ s.c.encoding \in {s.g.encoding, s.r.encoding}
  /\ s.p.connection # Unset => /\ s.p.connection.encoding = s.g.encoding
                               /\ s.c.phase \notin {"starting", "connected"}
  /\ s.v.request # Unset => s.v.request.encoding = s.g.encoding
\* A window that closes has nothing pending, and each thing it waited for is over.
Left(s, w) ==
  /\ w # "open" => /\ s.c.phase \notin {"starting", "connected"}
                   /\ s.p.connection = Unset /\ s.p.encoding = Unset /\ s.p.service = Unset /\ ~s.p.auto
                   /\ s.v.request = Unset
  /\ w \in {"recovery", "encoding", "service", "break", "closed"} => s.c.phase \in {"idle", "closed"}
  /\ w \in {"encoding", "service", "break", "closed"} => s.r.watch = Unset
  /\ w \in {"service", "break", "closed"} => s.r.encoding = Unset
  /\ w \in {"break", "closed"} => s.r.service = Unset
  /\ w = "closed" => ~s.r.break
Sound(s, w) ==
  Held(s) /\ Owed(s) /\ Apart(s) /\ Idle(s) /\ Counted(s) /\ Carried(s) /\ Left(s, w)

\* No part of the policy has anything left to do: it withdraws nothing, recovers no device,
\* leaves the widget as it is, starts no connection and begins nothing that was accepted.
NoneToCancel(s) == s.r.stop /\ ~s.p.auto /\ s.p.service = Unset
Forgotten(s) == s.c.phase # "starting" /\ (~Ready(s.c) \/ Interrupted(s)) => s.p.encoding = Unset
Withdrawn(s) ==
  \/ ~s.c.carrier \/ Interrupted(s)
  \/ (s.p.auto \/ s.r.service = "selecting") /\ s.c.ended
  => NoneToCancel(s)
Recovered(s) ==
  ~(/\ s.c.phase = "closed" /\ ~s.c.cancelled /\ s.v.request # Unset /\ s.v.returned
    /\ s.p.connection = Unset /\ ~Exclusive(s))
Allowed(s) == Enabled(s) = (s.i.state = "enabled")
Started(s) ==
  ~(/\ s.p.connection # Unset /\ Drained(s) /\ s.c.phase \in {"idle", "closed"}
    /\ s.p.again \/ s.r.watch = Unset)
Settled(s) == Forgotten(s) /\ Withdrawn(s) /\ Recovered(s) /\ Allowed(s) /\ Started(s)
Begun(s) == Drained(s) => ~s.p.auto /\ s.p.encoding = Unset /\ s.p.service = Unset
Calm(s) == Settled(s) /\ Begun(s) /\ ~(Interrupted(s) /\ Drained(s))
\* A state without a frame that was asked for is calm, unless the window can have none.
Framed(s, w) == ~s.f /\ w # "closed" /\ ~s.i.failed => Calm(s)

\* Stopping the connection leaves the state sound.
LEMMA StopSound ==
  ASSUME NEW s \in States, NEW w, Sound(s, w)
  PROVE  Stop(s) \in States /\ Sound(Stop(s), w)
<1>1. CASE s.c.phase \in {"idle", "closed"}
  BY <1>1 DEF Stop
<1>2. CASE s.c.phase \notin {"idle", "closed"}
  <2> DEFINE t == Stop(s)
  <2>1. t \in States
    BY <1>2 DEF Stop, States, ConnectionStates, Phases
  <2>2. t.p = s.p /\ t.r = s.r /\ t.v = s.v /\ t.g = s.g
    BY <1>2 DEF Stop, States
  <2>3. t.c.phase = "stopping" /\ t.c.busy = s.c.busy /\ t.c.changing = s.c.changing
    BY <1>2 DEF Stop, States, ConnectionStates
  <2> HIDE DEF t
  <2>a. Held(t) BY <1>2, <2>2, <2>3 DEF Sound, Held
  <2>b. Owed(t) BY <1>2, <2>2, <2>3 DEF Sound, Owed, Serving, Active
  <2>c. Apart(t) BY <1>2, <2>2, <2>3 DEF Sound, Apart, Serving, Active, Exclusive
  <2>d. Idle(t) BY <1>2, <2>2, <2>3 DEF Sound, Idle
  <2>e. Counted(t) BY <1>2, <2>2, <2>3 DEF Sound, Counted
  <2>f. Carried(t) BY <1>2, <2>2, <2>3 DEF Sound, Carried
  <2>g. Left(t, w) BY <1>2, <2>2, <2>3 DEF Sound, Left
  <2> QED BY <2>a, <2>b, <2>c, <2>d, <2>e, <2>f, <2>g, <2>1 DEF Sound, t
<1> QED BY <1>1, <1>2

\* The device is watched no longer.
LEMMA UnwatchedSound ==
  ASSUME NEW s \in States, NEW w, Sound(s, w)
  PROVE  Unwatched(s) \in States /\ Sound(Unwatched(s), w)
<1> DEFINE t == Unwatched(s)
<1>1. t \in States
  BY DEF Unwatched, States, RunningStates, RecoveryStates
<1>2. t.c = s.c /\ t.p = s.p /\ t.g = s.g
  BY DEF Unwatched, States
<1>3. t.r.service = s.r.service /\ t.r.encoding = s.r.encoding /\ t.r.break = s.r.break
  BY DEF Unwatched, States, RunningStates
<1>4. s.r.watch = Unset => t.r.watch = Unset
  BY RuntimeAssumption DEF Unwatched, States, RunningStates
<1>5. t.v.request = Unset /\ t.v.returned = s.v.returned
  BY DEF Unwatched, States, RecoveryStates
<1> HIDE DEF t
<1>a. Held(t) BY <1>2, <1>3, <1>4, <1>5 DEF Sound, Held
<1>b. Owed(t) BY <1>2, <1>3, <1>4, <1>5 DEF Sound, Owed, Serving, Active
<1>c. Apart(t) BY <1>2, <1>3, <1>4, <1>5 DEF Sound, Apart, Serving, Active, Exclusive
<1>d. Idle(t) BY <1>2, <1>3, <1>4, <1>5 DEF Sound, Idle
<1>e. Counted(t) BY <1>2, <1>3, <1>4, <1>5 DEF Sound, Counted
<1>f. Carried(t) BY <1>2, <1>3, <1>4, <1>5 DEF Sound, Carried
<1>g. Left(t, w) BY <1>2, <1>3, <1>4, <1>5 DEF Sound, Left
<1> QED BY <1>a, <1>b, <1>c, <1>d, <1>e, <1>f, <1>g, <1>1 DEF Sound, t

\* A service that was accepted and is finished before it ran.
LEMMA FinishSound ==
  ASSUME NEW s \in States, NEW w, Sound(s, w), s.p.service = "text", NEW stop \in BOOLEAN
  PROVE  LET t == Finish([s EXCEPT !.r.stop = stop, !.p.auto = FALSE, !.p.service = Unset])
         IN  t \in States /\ Sound(t, w)
<1> DEFINE t == Finish([s EXCEPT !.r.stop = stop, !.p.auto = FALSE, !.p.service = Unset])
<1>1. s.g.owed = 1
  BY RuntimeAssumption DEF Sound, Owed, Serving
<1>8. s.g.owed - 1 = 0 /\ [s.g EXCEPT !.owed = @ - 1] = [s.g EXCEPT !.owed = 0]
  BY <1>1
<1> DEFINE u == [s EXCEPT !.r.stop = stop, !.p.auto = FALSE, !.p.service = Unset]
<1>9. u.g = s.g /\ u.g.owed = 1 /\ u \in States
  BY <1>1 DEF States, RunningStates, PendingStates
<1>2. t \in States
  <2> HIDE DEF u
  <2>1. [u EXCEPT !.r.service = Unset, !.g.owed = 0, !.f = TRUE] \in States
    BY <1>9 DEF States, RunningStates, GivenStates
  <2>2. Finish(u) = [u EXCEPT !.r.service = Unset, !.g.owed = 0, !.f = TRUE]
    BY <1>9, 1 - 1 = 0 DEF Finish, States, RunningStates, GivenStates
  <2> QED BY <2>1, <2>2 DEF u
<1>3. t.c = s.c /\ t.v = s.v
  BY DEF Finish, States
<1>4. t.r.service = Unset /\ t.r.encoding = s.r.encoding /\ t.r.break = s.r.break /\ t.r.watch = s.r.watch
  BY DEF Finish, States, RunningStates
<1>5. ~t.p.auto /\ t.p.service = Unset /\ t.p.encoding = s.p.encoding /\ t.p.connection = s.p.connection
  BY DEF Finish, States, PendingStates
<1>6. t.g.owed = 0 /\ t.g.encoding = s.g.encoding /\ t.g.starts = s.g.starts
  BY <1>1 DEF Finish, States, GivenStates
<1>7. s.r.service = Unset /\ ~s.p.auto
  BY RuntimeAssumption DEF Sound, Owed, Active
<1> HIDE DEF t
<1>a. Held(t) BY <1>3, <1>4, <1>5, <1>6, <1>7, RuntimeAssumption DEF Sound, Held
<1>b. Owed(t) BY <1>3, <1>4, <1>5, <1>6, <1>7, RuntimeAssumption DEF Sound, Owed, Serving, Active
<1>c. Apart(t) BY <1>3, <1>4, <1>5, <1>6, <1>7, RuntimeAssumption DEF Sound, Apart, Serving, Active, Exclusive
<1>d. Idle(t) BY <1>3, <1>4, <1>5, <1>6, <1>7, RuntimeAssumption DEF Sound, Idle
<1>e. Counted(t) BY <1>3, <1>4, <1>5, <1>6, <1>7, RuntimeAssumption DEF Sound, Counted
<1>f. Carried(t) BY <1>3, <1>4, <1>5, <1>6, <1>7, RuntimeAssumption DEF Sound, Carried
<1>g. Left(t, w) BY <1>3, <1>4, <1>5, <1>6, <1>7, RuntimeAssumption DEF Sound, Left
<1> QED BY <1>a, <1>b, <1>c, <1>d, <1>e, <1>f, <1>g, <1>2 DEF Sound, t

\* A transfer joins its reservation.
LEMMA JoinsSound ==
  ASSUME NEW s \in States, NEW w, Sound(s, w), s.p.service = "transfer" \/ s.r.service = "selecting",
         NEW stop \in BOOLEAN
  PROVE  LET t == Joins([s EXCEPT !.r.stop = stop, !.p.auto = FALSE, !.p.service = Unset])
         IN  t \in States /\ Sound(t, w)
<1> DEFINE t == Joins([s EXCEPT !.r.stop = stop, !.p.auto = FALSE, !.p.service = Unset])
<1>1. t \in States
  <2>1. /\ [s.r EXCEPT !.stop = stop, !.service = "transfer"] \in RunningStates
        /\ [s.p EXCEPT !.auto = FALSE, !.service = Unset] \in PendingStates
        /\ [s.c EXCEPT !.busy = "transfer"] \in ConnectionStates
    BY DEF States, RunningStates, PendingStates, ConnectionStates
  <2>2. t = [s EXCEPT !.r = [s.r EXCEPT !.stop = stop, !.service = "transfer"],
                      !.p = [s.p EXCEPT !.auto = FALSE, !.service = Unset],
                      !.c = [s.c EXCEPT !.busy = "transfer"]]
    BY DEF Joins, States
  <2> HIDE DEF t
  <2> QED BY <2>1, <2>2 DEF States
<1>2. t.v = s.v /\ t.g = s.g
  BY DEF Joins, States
<1>3. t.r.service = "transfer" /\ t.r.encoding = s.r.encoding /\ t.r.break = s.r.break /\ t.r.watch = s.r.watch
  BY DEF Joins, States, RunningStates
<1>4. ~t.p.auto /\ t.p.service = Unset /\ t.p.encoding = s.p.encoding /\ t.p.connection = s.p.connection
  BY DEF Joins, States, PendingStates
<1>5. /\ t.c.phase = s.c.phase /\ t.c.busy = "transfer"
      /\ t.c.changing = s.c.changing /\ t.c.encoding = s.c.encoding
  BY DEF Joins, States, ConnectionStates
<1>6. s.c.busy = "reserved" /\ Serving(s)
  BY RuntimeAssumption DEF Sound, Held, Serving, Active
<1> HIDE DEF t
<1>a. Held(t) BY <1>2, <1>3, <1>4, <1>5, <1>6, RuntimeAssumption DEF Sound, Held
<1>b. Owed(t) BY <1>2, <1>3, <1>4, <1>5, <1>6, RuntimeAssumption DEF Sound, Owed, Serving, Active
<1>c. Apart(t) BY <1>2, <1>3, <1>4, <1>5, <1>6, RuntimeAssumption DEF Sound, Apart, Serving, Active, Exclusive
<1>d. Idle(t) BY <1>2, <1>3, <1>4, <1>5, <1>6, RuntimeAssumption DEF Sound, Idle
<1>e. Counted(t) BY <1>2, <1>3, <1>4, <1>5, <1>6, RuntimeAssumption DEF Sound, Counted
<1>f. Carried(t) BY <1>2, <1>3, <1>4, <1>5, <1>6, RuntimeAssumption DEF Sound, Carried
<1>g. Left(t, w) BY <1>2, <1>3, <1>4, <1>5, <1>6, RuntimeAssumption DEF Sound, Left
<1> QED BY <1>a, <1>b, <1>c, <1>d, <1>e, <1>f, <1>g, <1>1 DEF Sound, t

\* The user is asked for the files.
LEMMA SelectsSound ==
  ASSUME NEW s \in States, NEW w, Sound(s, w), s.p.auto, NEW stop \in BOOLEAN
  PROVE  LET t == [s EXCEPT !.r.stop = stop, !.p.auto = FALSE, !.p.service = Unset, !.r.service = "selecting"]
         IN  t \in States /\ Sound(t, w)
<1> DEFINE t == [s EXCEPT !.r.stop = stop, !.p.auto = FALSE, !.p.service = Unset, !.r.service = "selecting"]
<1>1. t \in States
  BY DEF States, RunningStates, PendingStates
<1>2. t.c = s.c /\ t.v = s.v /\ t.g = s.g
  BY DEF States
<1>3. t.r.service = "selecting" /\ t.r.encoding = s.r.encoding /\ t.r.break = s.r.break /\ t.r.watch = s.r.watch
  BY DEF States, RunningStates
<1>4. ~t.p.auto /\ t.p.service = Unset /\ t.p.encoding = s.p.encoding /\ t.p.connection = s.p.connection
  BY DEF States, PendingStates
<1>5. s.c.busy = "reserved" /\ Serving(s)
  BY DEF Sound, Held, Serving, Active
<1> HIDE DEF t
<1>a. Held(t) BY <1>2, <1>3, <1>4, <1>5, RuntimeAssumption DEF Sound, Held
<1>b. Owed(t) BY <1>2, <1>3, <1>4, <1>5, RuntimeAssumption DEF Sound, Owed, Serving, Active
<1>c. Apart(t) BY <1>2, <1>3, <1>4, <1>5, RuntimeAssumption DEF Sound, Apart, Serving, Active, Exclusive
<1>d. Idle(t) BY <1>2, <1>3, <1>4, <1>5, RuntimeAssumption DEF Sound, Idle
<1>e. Counted(t) BY <1>2, <1>3, <1>4, <1>5, RuntimeAssumption DEF Sound, Counted
<1>f. Carried(t) BY <1>2, <1>3, <1>4, <1>5, RuntimeAssumption DEF Sound, Carried
<1>g. Left(t, w) BY <1>2, <1>3, <1>4, <1>5, RuntimeAssumption DEF Sound, Left
<1> QED BY <1>a, <1>b, <1>c, <1>d, <1>e, <1>f, <1>g, <1>1 DEF Sound, t

\* Cancelling a transfer withdraws a text, joins a reservation or leaves the question.
LEMMA CancelSound ==
  ASSUME NEW s \in States, NEW w, Sound(s, w)
  PROVE  CancelTransfer(s) \in States /\ Sound(CancelTransfer(s), w)
<1>1. CASE s.p.auto
  <2>1. CancelTransfer(s) = [s EXCEPT !.r.stop = TRUE, !.p.auto = FALSE, !.p.service = Unset, !.r.service = "selecting"]
    BY <1>1 DEF CancelTransfer, States, RunningStates, PendingStates
  <2> QED BY <1>1, <2>1, SelectsSound
<1>2. CASE ~s.p.auto /\ s.p.service = "transfer"
  BY <1>2, JoinsSound DEF CancelTransfer
<1>3. CASE ~s.p.auto /\ s.p.service = "text"
  BY <1>3, FinishSound DEF CancelTransfer
<1>4. CASE ~s.p.auto /\ s.p.service = Unset
  <2> DEFINE t == [s EXCEPT !.r.stop = TRUE, !.p.auto = FALSE, !.p.service = Unset]
  <2>1. t \in States
    BY DEF States, RunningStates, PendingStates
  <2>2. t.c = s.c /\ t.v = s.v /\ t.g = s.g
    BY DEF States
  <2>3. t.r.service = s.r.service /\ t.r.encoding = s.r.encoding /\ t.r.break = s.r.break /\ t.r.watch = s.r.watch
    BY DEF States, RunningStates
  <2>4. t.p = s.p
    BY <1>4 DEF States, PendingStates
  <2>5. CancelTransfer(s) = t
    BY <1>4, RuntimeAssumption DEF CancelTransfer
  <2> HIDE DEF t
  <2>6. Sound(t, w)
    BY <2>2, <2>3, <2>4 DEF Sound, Held, Owed, Apart, Idle, Counted, Carried, Left, Serving, Active, Exclusive
  <2> QED BY <2>1, <2>5, <2>6
<1>5. s.p.auto \in BOOLEAN /\ s.p.service \in {Unset, "text", "transfer"}
  BY DEF States, PendingStates
<1> QED BY <1>1, <1>2, <1>3, <1>4, <1>5

\* Requests that were not begun are forgotten.
LEMMA ForgetsSound ==
  ASSUME NEW s \in States, NEW w, Sound(s, w), NEW c \in {Unset, s.p.connection}
  PROVE  LET t == [s EXCEPT !.p.connection = c, !.p.encoding = Unset] IN t \in States /\ Sound(t, w)
<1> DEFINE t == [s EXCEPT !.p.connection = c, !.p.encoding = Unset]
<1>1. t \in States
  BY DEF States, PendingStates
<1>2. t.c = s.c /\ t.v = s.v /\ t.g = s.g /\ t.r = s.r
  BY DEF States
<1>3. /\ t.p.auto = s.p.auto /\ t.p.service = s.p.service /\ t.p.encoding = Unset
      /\ t.p.connection \in {Unset, s.p.connection}
  BY DEF States, PendingStates
<1> HIDE DEF t
<1>a. Held(t) BY <1>2, <1>3 DEF Sound, Held
<1>b. Owed(t) BY <1>2, <1>3 DEF Sound, Owed, Serving, Active
<1>c. Apart(t) BY <1>2, <1>3 DEF Sound, Apart, Serving, Active, Exclusive
<1>d. Idle(t) BY <1>2, <1>3 DEF Sound, Idle
<1>e. Counted(t) BY <1>2, <1>3 DEF Sound, Counted
<1>f. Carried(t) BY <1>2, <1>3 DEF Sound, Carried
<1>g. Left(t, w) BY <1>2, <1>3 DEF Sound, Left
<1> QED BY <1>a, <1>b, <1>c, <1>d, <1>e, <1>f, <1>g, <1>1 DEF Sound, t

\* Only the input, the losses that were handled and the frame differ.
LEMMA SameSound ==
  ASSUME NEW s \in States, NEW t \in States, NEW w, Sound(s, w),
         t.c = s.c, t.p = s.p, t.r = s.r, t.v = s.v, t.g = s.g
  PROVE  Sound(t, w)
BY DEF Sound, Held, Owed, Apart, Idle, Counted, Carried, Left, Serving, Active, Exclusive

\* Withdraws, step by step.
LEMMA WithdrawsSound ==
  ASSUME NEW s \in States, NEW w, Sound(s, w)
  PROVE  Withdraws(s) \in States /\ Sound(Withdraws(s), w)
<1> DEFINE a == IF s.c.phase # "starting" /\ (~Ready(s.c) \/ Interrupted(s))
                THEN [s EXCEPT !.p.encoding = Unset] ELSE s
           b == IF ~s.c.carrier \/ Interrupted(s) THEN CancelTransfer(a) ELSE a
<1>1. [s EXCEPT !.p.encoding = Unset] = [s EXCEPT !.p.connection = s.p.connection, !.p.encoding = Unset]
  BY DEF States, PendingStates
<1>2. a \in States /\ Sound(a, w)
  BY <1>1, ForgetsSound
<1> HIDE DEF a
<1>3. b \in States /\ Sound(b, w)
  BY <1>2, CancelSound
<1> HIDE DEF b
<1>4. Withdraws(s) \in {b, CancelTransfer(b)}
  BY DEF Withdraws, a, b
<1> QED BY <1>3, <1>4, CancelSound

\* A device that returned is connected to again.
LEMMA RecoversSound ==
  ASSUME NEW s \in States, NEW w, Sound(s, w)
  PROVE  Recovers(s) \in States /\ Sound(Recovers(s), w)
<1> DEFINE t == Recovers(s)
<1>1. CASE t = s
  BY <1>1
<1>2. CASE t # s
  <2>1. /\ t = [s EXCEPT !.p.connection = s.v.request, !.p.again = TRUE, !.i.allowed = TRUE]
        /\ s.c.phase = "closed" /\ s.v.request # Unset /\ s.v.returned /\ ~Exclusive(s)
    BY <1>2 DEF Recovers
  <2> HIDE DEF t
  <2>2. t \in States
    BY <2>1 DEF States, PendingStates, RecoveryStates, InputStates
  <2>3. t.c = s.c /\ t.r = s.r /\ t.v = s.v /\ t.g = s.g
    BY <2>1 DEF States
  <2>4. /\ t.p.connection = s.v.request /\ t.p.encoding = s.p.encoding
        /\ t.p.service = s.p.service /\ t.p.auto = s.p.auto
    BY <2>1 DEF States, PendingStates
  <2>a. Held(t) BY <2>1, <2>3, <2>4 DEF Sound, Held
  <2>b. Owed(t) BY <2>1, <2>3, <2>4 DEF Sound, Owed, Serving, Active
  <2>c. Apart(t) BY <2>1, <2>3, <2>4 DEF Sound, Apart, Serving, Active, Exclusive
  <2>d. Idle(t) BY <2>1, <2>3, <2>4 DEF Sound, Idle
  <2>e. Counted(t) BY <2>1, <2>3, <2>4 DEF Sound, Counted
  <2>f. Carried(t) BY <2>1, <2>3, <2>4 DEF Sound, Carried
  <2>g. Left(t, w) BY <2>1, <2>3, <2>4 DEF Sound, Left
  <2> QED BY <2>a, <2>b, <2>c, <2>d, <2>e, <2>f, <2>g, <2>2 DEF Sound, t
<1> QED BY <1>1, <1>2

\* The widget alone.
LEMMA InhibitsSound ==
  ASSUME NEW s \in States, NEW w, Sound(s, w), NEW busy \in BOOLEAN, NEW t \in Inhibits(s, busy)
  PROVE  t \in States /\ Sound(t, w)
<1>1. CASE t = s
  BY <1>1
<1>2. CASE t = [s EXCEPT !.f = TRUE]
  <2>1. t \in States /\ t.c = s.c /\ t.p = s.p /\ t.r = s.r /\ t.v = s.v /\ t.g = s.g
    BY <1>2 DEF States
  <2> QED BY <2>1, SameSound
<1>3. CASE \E x \in {"enabled", "draining", "disabled"} : t = [s EXCEPT !.i.state = x]
  <2>1. t \in States /\ t.c = s.c /\ t.p = s.p /\ t.r = s.r /\ t.v = s.v /\ t.g = s.g
    BY <1>3 DEF States, InputStates
  <2> QED BY <2>1, SameSound
<1> QED BY <1>1, <1>2, <1>3 DEF Inhibits

\* A connection is started.
LEMMA StartsSound ==
  ASSUME NEW s \in States, NEW w, Sound(s, w)
  PROVE  Starts(s) \in States /\ Sound(Starts(s), w)
<1> DEFINE t == Starts(s)
           request == s.p.connection
           watches == request # Unset /\ request.watched /\ ~s.p.again
<1>1. CASE t = s
  BY <1>1
<1>2. CASE t # s
  <2>1. /\ t = [s EXCEPT !.p.connection = Unset, !.p.again = FALSE,
                  !.v = [request |-> IF watches THEN request ELSE @.request, returned |-> FALSE],
                  !.r.watch = IF watches THEN "on" ELSE @,
                  !.c = [NoConnection EXCEPT !.phase = "starting", !.live = TRUE, !.encoding = request.encoding],
                  !.g.starts = @ + 1, !.f = TRUE]
        /\ request # Unset /\ s.c.phase \in {"idle", "closed"}
    BY <1>2 DEF Starts
  <2> HIDE DEF t
  <2>2. request \in Connections /\ request.encoding \in Encodings /\ s.g.starts + 1 \in 0..MaxStarts
    <3>1. request \in Connections
      BY <2>1 DEF States, PendingStates
    <3>2. s.g.starts \in 0..MaxStarts /\ s.g.starts < MaxStarts
      BY <2>1 DEF Sound, Counted, States, GivenStates
    <3> QED BY <3>1, <3>2, RuntimeAssumption DEF Connections
  <2>3. /\ t.c \in ConnectionStates /\ t.c.phase = "starting" /\ t.c.encoding = request.encoding
        /\ t.c.busy = Unset /\ ~t.c.changing
    <3>1. t.c = [phase |-> "starting", live |-> TRUE, carrier |-> TRUE, losses |-> 0, ended |-> FALSE,
                 cancelled |-> FALSE, busy |-> Unset, changing |-> FALSE, encoding |-> request.encoding]
      BY <2>1 DEF States, NoConnection
    <3>2. 0 \in 0..MaxLosses
      BY RuntimeAssumption
    <3> QED BY <2>2, <3>1, <3>2 DEF ConnectionStates, Phases
  <2>4. t.v \in RecoveryStates /\ t.v.request \in {request, s.v.request} /\ ~t.v.returned
    BY <2>1, <2>2 DEF States, RecoveryStates
  <2>5. /\ t.r \in RunningStates
        /\ t.r.service = s.r.service /\ t.r.encoding = s.r.encoding /\ t.r.break = s.r.break
    BY <2>1 DEF States, RunningStates
  <2>6. /\ t.p \in PendingStates /\ t.p.connection = Unset /\ t.p.encoding = s.p.encoding
        /\ t.p.service = s.p.service /\ t.p.auto = s.p.auto
    BY <2>1 DEF States, PendingStates
  <2>7. t.g \in GivenStates /\ t.g.encoding = s.g.encoding /\ t.g.owed = s.g.owed
    BY <2>1, <2>2 DEF States, GivenStates
  <2>8. t \in States
    BY <2>1, <2>3, <2>4, <2>5, <2>6, <2>7 DEF States
  <2>9. w = "open" /\ ~Exclusive(s) /\ request.encoding = s.g.encoding /\ s.c.busy = Unset /\ ~s.c.changing
    BY <2>1 DEF Sound, Left, Apart, Carried, Idle
  <2> HIDE DEF watches
  <2>a. Held(t) BY <2>1, <2>2, <2>3, <2>4, <2>5, <2>6, <2>7, <2>9, RuntimeAssumption DEF Sound, Held
  <2>b. Owed(t) BY <2>1, <2>2, <2>3, <2>4, <2>5, <2>6, <2>7, <2>9, RuntimeAssumption DEF Sound, Owed, Serving, Active
  <2>c. Apart(t) BY <2>1, <2>2, <2>3, <2>4, <2>5, <2>6, <2>7, <2>9, RuntimeAssumption DEF Sound, Apart, Serving, Active, Exclusive
  <2>d. Idle(t) BY <2>1, <2>2, <2>3, <2>4, <2>5, <2>6, <2>7, <2>9, RuntimeAssumption DEF Sound, Idle
  <2>e. Counted(t) BY <2>1, <2>2, <2>3, <2>4, <2>5, <2>6, <2>7, <2>9, RuntimeAssumption DEF Sound, Counted
  <2>f. Carried(t) BY <2>1, <2>2, <2>3, <2>4, <2>5, <2>6, <2>7, <2>9, RuntimeAssumption DEF Sound, Carried
  <2>g. Left(t, w) BY <2>1, <2>2, <2>3, <2>4, <2>5, <2>6, <2>7, <2>9, RuntimeAssumption DEF Sound, Left
  <2> QED BY <2>a, <2>b, <2>c, <2>d, <2>e, <2>f, <2>g, <2>8 DEF Sound, t
<1> QED BY <1>1, <1>2

\* The handled losses and the frame.
LEMMA HandlesSound ==
  ASSUME NEW s \in States, NEW w, Sound(s, w), NEW before \in States
  PROVE  Handles(s, before) \in States /\ Sound(Handles(s, before), w)
<1> DEFINE t == Handles(s, before)
<1>1. t \in States /\ t.c = s.c /\ t.p = s.p /\ t.r = s.r /\ t.v = s.v /\ t.g = s.g
  <2>1. before.c.losses \in 0..MaxLosses
    BY DEF States, ConnectionStates
  <2> QED BY <2>1 DEF Handles, States
<1> QED BY <1>1, SameSound


\* A request or a recovery that changes its encoding is still one.
LEMMA EncodedConnection ==
  ASSUME NEW r \in {Unset} \cup Connections, NEW e \in Encodings
  PROVE  LET q == IF r = Unset THEN Unset ELSE [r EXCEPT !.encoding = e]
         IN  q \in {Unset} \cup Connections /\ (q # Unset => q.encoding = e) /\ (q = Unset) = (r = Unset)
BY RuntimeAssumption DEF Connections

\* The connection took the encoding.
LEMMA ToldSound ==
  ASSUME NEW s \in States, NEW w, Sound(s, w), NEW e \in Encodings, ~s.c.changing, s.p.connection = Unset
  PROVE  LET t == EncodingReturns([s EXCEPT !.p.encoding = Unset, !.c.encoding = e], e, TRUE)
         IN  t \in States /\ Sound(t, w)
<1> DEFINE request == IF s.v.request = Unset THEN Unset ELSE [s.v.request EXCEPT !.encoding = e]
           t == EncodingReturns([s EXCEPT !.p.encoding = Unset, !.c.encoding = e], e, TRUE)
<1>1. t = [s EXCEPT !.p.encoding = Unset, !.c.encoding = e, !.r.encoding = Unset, !.f = TRUE,
                    !.g.encoding = e, !.v.request = request]
  BY DEF EncodingReturns, States, RecoveryStates
<1>2. /\ request \in {Unset} \cup Connections /\ (request # Unset => request.encoding = e)
      /\ (request = Unset) = (s.v.request = Unset)
  <2>1. s.v.request \in {Unset} \cup Connections
    BY DEF States, RecoveryStates
  <2> QED BY <2>1, EncodedConnection
<1> HIDE DEF request, t
<1>3. t \in States
  <2>1. [s.c EXCEPT !.encoding = e] \in ConnectionStates
    BY DEF States, ConnectionStates
  <2>2. [s.p EXCEPT !.encoding = Unset] \in PendingStates /\ [s.r EXCEPT !.encoding = Unset] \in RunningStates
    BY DEF States, PendingStates, RunningStates
  <2>3. [s.v EXCEPT !.request = request] \in RecoveryStates /\ [s.g EXCEPT !.encoding = e] \in GivenStates
    BY <1>2 DEF States, RecoveryStates, GivenStates
  <2>4. t = [s EXCEPT !.p = [s.p EXCEPT !.encoding = Unset], !.c = [s.c EXCEPT !.encoding = e],
                      !.r = [s.r EXCEPT !.encoding = Unset], !.f = TRUE,
                      !.g = [s.g EXCEPT !.encoding = e], !.v = [s.v EXCEPT !.request = request]]
    BY <1>1 DEF States
  <2> QED BY <2>1, <2>2, <2>3, <2>4 DEF States
<1>4. /\ t.c.phase = s.c.phase /\ t.c.busy = s.c.busy /\ t.c.changing = s.c.changing /\ t.c.encoding = e
  BY <1>1 DEF States, ConnectionStates
<1>5. /\ t.p.connection = Unset /\ t.p.encoding = Unset
      /\ t.p.service = s.p.service /\ t.p.auto = s.p.auto
  BY <1>1 DEF States, PendingStates
<1>6. t.r.service = s.r.service /\ t.r.encoding = Unset /\ t.r.break = s.r.break /\ t.r.watch = s.r.watch
  BY <1>1 DEF States, RunningStates
<1>7. t.v.request = request /\ t.v.returned = s.v.returned
  BY <1>1 DEF States, RecoveryStates
<1>8. t.g.encoding = e /\ t.g.owed = s.g.owed /\ t.g.starts = s.g.starts
  BY <1>1 DEF States, GivenStates
<1>a. Held(t) BY <1>2, <1>4, <1>5, <1>6, <1>7, <1>8, RuntimeAssumption DEF Sound, Held
<1>b. Owed(t) BY <1>2, <1>4, <1>5, <1>6, <1>7, <1>8, RuntimeAssumption DEF Sound, Owed, Serving, Active
<1>c. Apart(t) BY <1>2, <1>4, <1>5, <1>6, <1>7, <1>8, RuntimeAssumption DEF Sound, Apart, Serving, Active, Exclusive
<1>d. Idle(t) BY <1>2, <1>4, <1>5, <1>6, <1>7, <1>8, RuntimeAssumption DEF Sound, Idle
<1>e. Counted(t) BY <1>2, <1>4, <1>5, <1>6, <1>7, <1>8, RuntimeAssumption DEF Sound, Counted
<1>f. Carried(t) BY <1>2, <1>4, <1>5, <1>6, <1>7, <1>8, RuntimeAssumption DEF Sound, Carried
<1>g. Left(t, w) BY <1>2, <1>4, <1>5, <1>6, <1>7, <1>8, RuntimeAssumption DEF Sound, Left
<1> QED BY <1>a, <1>b, <1>c, <1>d, <1>e, <1>f, <1>g, <1>3 DEF Sound, t

\* The connection refused it.
LEMMA RefusedSound ==
  ASSUME NEW s \in States, NEW w, Sound(s, w), NEW e \in Encodings, ~s.c.changing,
         s.r.encoding \in {Unset} \/ s.r.encoding # s.c.encoding
  PROVE  LET t == EncodingReturns([s EXCEPT !.p.encoding = Unset], e, FALSE)
         IN  t \in States /\ Sound(t, w)
<1> DEFINE t == EncodingReturns([s EXCEPT !.p.encoding = Unset], e, FALSE)
<1>1. t = [s EXCEPT !.p.encoding = Unset, !.r.encoding = Unset, !.f = TRUE]
  BY DEF EncodingReturns
<1> HIDE DEF t
<1>2. t \in States
  BY <1>1 DEF States, PendingStates, RunningStates
<1>3. t.c = s.c /\ t.v = s.v /\ t.g = s.g
  BY <1>1 DEF States
<1>4. /\ t.p.connection = s.p.connection /\ t.p.encoding = Unset
      /\ t.p.service = s.p.service /\ t.p.auto = s.p.auto
  BY <1>1 DEF States, PendingStates
<1>5. t.r.service = s.r.service /\ t.r.encoding = Unset /\ t.r.break = s.r.break /\ t.r.watch = s.r.watch
  BY <1>1 DEF States, RunningStates
<1>a. Held(t) BY <1>3, <1>4, <1>5, RuntimeAssumption DEF Sound, Held
<1>b. Owed(t) BY <1>3, <1>4, <1>5, RuntimeAssumption DEF Sound, Owed, Serving, Active
<1>c. Apart(t) BY <1>3, <1>4, <1>5, RuntimeAssumption DEF Sound, Apart, Serving, Active, Exclusive
<1>d. Idle(t) BY <1>3, <1>4, <1>5, RuntimeAssumption DEF Sound, Idle
<1>e. Counted(t) BY <1>3, <1>4, <1>5, RuntimeAssumption DEF Sound, Counted
<1>f. Carried(t) BY <1>3, <1>4, <1>5, RuntimeAssumption DEF Sound, Carried
<1>g. Left(t, w) BY <1>3, <1>4, <1>5, RuntimeAssumption DEF Sound, Left
<1> QED BY <1>a, <1>b, <1>c, <1>d, <1>e, <1>f, <1>g, <1>2 DEF Sound, t

\* A change of the encoding is refused, done, or exchanged.
LEMMA ChangesSound ==
  ASSUME NEW s \in States, NEW w, Sound(s, w), s.p.encoding # Unset
  PROVE  LET t == ChangesEncoding(s, s.p.encoding) IN t \in States /\ Sound(t, w)
<1> DEFINE e == s.p.encoding
           t == ChangesEncoding(s, e)
<1>1. e \in Encodings
  BY DEF States, PendingStates
<1>2. ~Exclusive(s) /\ s.r.encoding = Unset /\ ~s.c.changing
  BY DEF Sound, Apart, Exclusive
<1>3. CASE s.c.busy # Unset \/ s.c.changing \/ ~(s.c.phase = "starting" \/ Ready(s.c))
  <2>1. t = EncodingReturns([s EXCEPT !.p.encoding = Unset], e, FALSE)
    BY <1>3 DEF ChangesEncoding
  <2> QED BY <1>1, <1>2, <2>1, RefusedSound
<1>4. CASE /\ s.c.busy = Unset /\ ~s.c.changing /\ (s.c.phase = "starting" \/ Ready(s.c))
           /\ (s.c.phase = "starting" \/ s.c.encoding = e)
  <2>1. s.p.connection = Unset
    BY <1>4 DEF Sound, Carried, Ready
  <2>2. t = EncodingReturns([s EXCEPT !.p.encoding = Unset, !.c.encoding = e], e, TRUE)
    BY <1>4 DEF ChangesEncoding, States
  <2> QED BY <1>1, <1>2, <2>1, <2>2, ToldSound
<1>5. CASE /\ s.c.busy = Unset /\ ~s.c.changing /\ (s.c.phase = "starting" \/ Ready(s.c))
           /\ ~(s.c.phase = "starting" \/ s.c.encoding = e)
  <2>1. t = [s EXCEPT !.p.encoding = Unset, !.c.changing = TRUE, !.r.encoding = e]
    BY <1>5 DEF ChangesEncoding
  <2>2. s.c.phase = "connected"
    BY <1>5 DEF Ready
  <2> HIDE DEF t, e
  <2>3. t \in States
    BY <1>1, <2>1 DEF States, PendingStates, RunningStates, ConnectionStates
  <2>4. t.v = s.v /\ t.g = s.g
    BY <2>1 DEF States
  <2>5. /\ t.c.phase = s.c.phase /\ t.c.busy = s.c.busy /\ t.c.changing /\ t.c.encoding = s.c.encoding
    BY <2>1 DEF States, ConnectionStates
  <2>6. /\ t.p.connection = s.p.connection /\ t.p.encoding = Unset
        /\ t.p.service = s.p.service /\ t.p.auto = s.p.auto
    BY <2>1 DEF States, PendingStates
  <2>7. t.r.service = s.r.service /\ t.r.encoding = e /\ t.r.break = s.r.break /\ t.r.watch = s.r.watch
    BY <2>1 DEF States, RunningStates
  <2>a. Held(t) BY <1>1, <1>2, <1>5, <2>2, <2>4, <2>5, <2>6, <2>7, RuntimeAssumption DEF Sound, Held
  <2>b. Owed(t) BY <1>1, <1>2, <1>5, <2>2, <2>4, <2>5, <2>6, <2>7, RuntimeAssumption DEF Sound, Owed, Serving, Active, Exclusive
  <2>c. Apart(t) BY <1>1, <1>2, <1>5, <2>2, <2>4, <2>5, <2>6, <2>7, RuntimeAssumption DEF Sound, Apart, Serving, Active, Exclusive, Carried, Left
  <2>d. Idle(t) BY <1>1, <1>2, <1>5, <2>2, <2>4, <2>5, <2>6, <2>7, RuntimeAssumption DEF Sound, Idle
  <2>e. Counted(t) BY <1>1, <1>2, <1>5, <2>2, <2>4, <2>5, <2>6, <2>7, RuntimeAssumption DEF Sound, Counted
  <2>f. Carried(t) BY <1>1, <1>2, <1>5, <2>2, <2>4, <2>5, <2>6, <2>7, RuntimeAssumption DEF Sound, Carried
  <2>g. Left(t, w) BY <1>1, <1>2, <1>5, <2>2, <2>4, <2>5, <2>6, <2>7, RuntimeAssumption DEF Sound, Left
  <2> QED BY <2>a, <2>b, <2>c, <2>d, <2>e, <2>f, <2>g, <2>3 DEF Sound, t, e
<1> QED BY <1>3, <1>4, <1>5

\* A service that is taken from the pending ones.
LEMMA SameWithdrawn ==
  ASSUME NEW s \in States, ~s.p.auto
  PROVE  [s EXCEPT !.p.service = Unset] = [s EXCEPT !.r.stop = s.r.stop, !.p.auto = FALSE, !.p.service = Unset]
<1>1. [s.r EXCEPT !.stop = s.r.stop] = s.r
  BY DEF States, RunningStates
<1>2. [s.p EXCEPT !.auto = FALSE, !.service = Unset] = [s.p EXCEPT !.service = Unset]
  <2>1. s.p.auto = FALSE
    BY DEF States, PendingStates
  <2>2. [s.p EXCEPT !.auto = FALSE] = s.p
    BY <2>1 DEF States, PendingStates
  <2> QED BY <2>2
<1>3. [s EXCEPT !.r.stop = s.r.stop, !.p.auto = FALSE, !.p.service = Unset]
        = [s EXCEPT !.r = [s.r EXCEPT !.stop = s.r.stop], !.p = [s.p EXCEPT !.auto = FALSE, !.service = Unset]]
  BY DEF States
<1>4. [s EXCEPT !.r = s.r, !.p = [s.p EXCEPT !.service = Unset]] = [s EXCEPT !.p.service = Unset]
  BY DEF States
<1> QED BY <1>1, <1>2, <1>3, <1>4

\* A text is sent, or is finished when the line is not free.
LEMMA TextSound ==
  ASSUME NEW s \in States, NEW w, Sound(s, w), s.p.service = "text"
  PROVE  LET t == SendsText([s EXCEPT !.p.service = Unset]) IN t \in States /\ Sound(t, w)
<1> DEFINE u == [s EXCEPT !.p.service = Unset]
           t == SendsText(u)
<1>1. s.r.service = Unset /\ ~s.p.auto /\ Serving(s)
  BY RuntimeAssumption DEF Sound, Owed, Active, Serving
<1>2. CASE t = Finish(u)
  <2>1. u = [s EXCEPT !.r.stop = s.r.stop, !.p.auto = FALSE, !.p.service = Unset]
    BY <1>1, SameWithdrawn
  <2>2. s.r.stop \in BOOLEAN
    BY DEF States, RunningStates
  <2>3. LET x == Finish([s EXCEPT !.r.stop = s.r.stop, !.p.auto = FALSE, !.p.service = Unset])
        IN  x \in States /\ Sound(x, w)
    BY <2>2, FinishSound
  <2> HIDE DEF t, u
  <2> QED BY <1>2, <2>1, <2>3 DEF t, u
<1>3. CASE Ready(u.c) /\ ~u.c.changing /\ u.c.busy = Unset
  <2>1. t = [s EXCEPT !.p.service = Unset, !.r.service = "text", !.c.busy = "text"]
    BY <1>3 DEF SendsText
  <2>2. s.c.phase = "connected" /\ s.c.busy = Unset /\ ~s.c.changing
    BY <1>3 DEF Ready, States
  <2> HIDE DEF t, u
  <2>3. t \in States
    BY <2>1 DEF States, PendingStates, RunningStates, ConnectionStates
  <2>4. t.v = s.v /\ t.g = s.g
    BY <2>1 DEF States
  <2>5. /\ t.c.phase = s.c.phase /\ t.c.busy = "text"
        /\ t.c.changing = s.c.changing /\ t.c.encoding = s.c.encoding
    BY <2>1 DEF States, ConnectionStates
  <2>6. /\ t.p.connection = s.p.connection /\ t.p.encoding = s.p.encoding
        /\ t.p.service = Unset /\ t.p.auto = s.p.auto
    BY <2>1 DEF States, PendingStates
  <2>7. t.r.service = "text" /\ t.r.encoding = s.r.encoding /\ t.r.break = s.r.break /\ t.r.watch = s.r.watch
    BY <2>1 DEF States, RunningStates
  <2>a. Held(t) BY <1>1, <2>2, <2>4, <2>5, <2>6, <2>7, RuntimeAssumption DEF Sound, Held
  <2>b. Owed(t) BY <1>1, <2>2, <2>4, <2>5, <2>6, <2>7, RuntimeAssumption DEF Sound, Owed, Serving, Active
  <2>c. Apart(t) BY <1>1, <2>2, <2>4, <2>5, <2>6, <2>7, RuntimeAssumption DEF Sound, Apart, Serving, Active, Exclusive
  <2>d. Idle(t) BY <1>1, <2>2, <2>4, <2>5, <2>6, <2>7, RuntimeAssumption DEF Sound, Idle
  <2>e. Counted(t) BY <1>1, <2>2, <2>4, <2>5, <2>6, <2>7, RuntimeAssumption DEF Sound, Counted
  <2>f. Carried(t) BY <1>1, <2>2, <2>4, <2>5, <2>6, <2>7, RuntimeAssumption DEF Sound, Carried
  <2>g. Left(t, w) BY <1>1, <2>2, <2>4, <2>5, <2>6, <2>7, RuntimeAssumption DEF Sound, Left
  <2> QED BY <2>a, <2>b, <2>c, <2>d, <2>e, <2>f, <2>g, <2>3 DEF Sound, t, u
<1> QED BY <1>2, <1>3 DEF SendsText

\* What was accepted begins.
LEMMA BeginsSound ==
  ASSUME NEW s \in States, NEW w, Sound(s, w)
  PROVE  Begins(s) \in States /\ Sound(Begins(s), w)
<1> DEFINE a == IF s.p.auto /\ Drained(s)
                THEN [s EXCEPT !.p.auto = FALSE, !.r.service = "selecting"] ELSE s
           b == IF a.p.encoding # Unset /\ Drained(a) THEN ChangesEncoding(a, a.p.encoding) ELSE a
           t == Begins(s)
<1>1. a \in States /\ Sound(a, w)
  <2>1. CASE s.p.auto
    <3>1. s.p.service = Unset /\ s.r.stop \in BOOLEAN
      BY <2>1 DEF Sound, Owed, Active, States, RunningStates
    <3>2. [s EXCEPT !.p.auto = FALSE, !.r.service = "selecting"]
            = [s EXCEPT !.r.stop = s.r.stop, !.p.auto = FALSE, !.p.service = Unset, !.r.service = "selecting"]
      BY <3>1 DEF States, PendingStates, RunningStates
    <3> QED BY <2>1, <3>1, <3>2, SelectsSound
  <2>2. CASE ~s.p.auto
    BY <2>2
  <2> QED BY <2>1, <2>2
<1> HIDE DEF a
<1>2. b \in States /\ Sound(b, w)
  BY <1>1, ChangesSound
<1>3. t \in {b, SendsText([b EXCEPT !.p.service = Unset]), Joins([b EXCEPT !.p.service = Unset])}
  BY DEF Begins, a
<1>4. t # b => b.p.service # Unset /\ (t = SendsText([b EXCEPT !.p.service = Unset]) \/ b.p.service # "text")
  BY DEF Begins, a
<1> HIDE DEF b
<1>5. CASE t = b
  BY <1>2, <1>5
<1>6. CASE t # b /\ b.p.service = "text"
  BY <1>2, <1>4, <1>6, TextSound
<1>7. CASE t # b /\ b.p.service # "text"
  <2>1. b.p.service = "transfer" /\ t = Joins([b EXCEPT !.p.service = Unset])
    <3>1. b.p.service \in {Unset, "text", "transfer"}
      BY <1>2 DEF States, PendingStates
    <3>2. b.p.service = "transfer"
      BY <1>4, <1>7, <3>1
    <3>3. t = Joins([b EXCEPT !.p.service = Unset])
      BY <1>7, <3>2 DEF Begins, a, b
    <3> QED BY <3>2, <3>3
  <2>2. ~b.p.auto /\ b.r.stop \in BOOLEAN
    BY <1>2, <2>1, RuntimeAssumption DEF Sound, Owed, Active, States, RunningStates
  <2>3. [b EXCEPT !.p.service = Unset] = [b EXCEPT !.r.stop = b.r.stop, !.p.auto = FALSE, !.p.service = Unset]
    BY <1>2, <2>2, SameWithdrawn
  <2>4. LET x == Joins([b EXCEPT !.r.stop = b.r.stop, !.p.auto = FALSE, !.p.service = Unset])
        IN  x \in States /\ Sound(x, w)
    BY <1>2, <2>1, <2>2, JoinsSound
  <2> QED BY <2>1, <2>3, <2>4
<1> QED BY <1>5, <1>6, <1>7

\* A pass of the policy leaves the state sound.
LEMMA PolicySound ==
  ASSUME NEW s \in States, NEW w, Sound(s, w), NEW busy \in BOOLEAN, NEW t \in Policy(s, busy)
  PROVE  t \in States /\ Sound(t, w)
<1>1. PICK u \in Inhibits(Recovers(Withdraws(s)), busy) : t = Handles(Begins(Starts(u)), s)
  BY DEF Policy
<1>2. Recovers(Withdraws(s)) \in States /\ Sound(Recovers(Withdraws(s)), w)
  BY WithdrawsSound, RecoversSound
<1>3. u \in States /\ Sound(u, w)
  BY <1>1, <1>2, InhibitsSound
<1>4. Begins(Starts(u)) \in States /\ Sound(Begins(Starts(u)), w)
  BY <1>3, StartsSound, BeginsSound
<1> QED BY <1>1, <1>4, HandlesSound


\* What a cancellation leaves as it is.
LEMMA CancelEffects ==
  ASSUME NEW s \in States
  PROVE  LET t == CancelTransfer(s)
         IN  /\ NoneToCancel(t) /\ t.h = s.h /\ t.v = s.v /\ t.i = s.i
             /\ t.c.phase = s.c.phase /\ t.c.carrier = s.c.carrier /\ t.c.losses = s.c.losses
             /\ t.c.ended = s.c.ended /\ t.p.encoding = s.p.encoding /\ t.p.connection = s.p.connection
<1> DEFINE t == CancelTransfer(s)
           u == [s EXCEPT !.r.stop = TRUE, !.p.auto = FALSE, !.p.service = Unset]
<1>1. t \in {u, [u EXCEPT !.r.service = "selecting"], Joins(u), Finish(u)}
  BY DEF CancelTransfer
<1>2. u.h = s.h /\ u.v = s.v /\ u.i = s.i /\ u.c = s.c
  BY DEF States
<1>3. /\ u.r.stop /\ ~u.p.auto /\ u.p.service = Unset /\ u.p.encoding = s.p.encoding
      /\ u.p.connection = s.p.connection
  BY DEF States, RunningStates, PendingStates
<1>4. u \in States
  BY DEF States, RunningStates, PendingStates
<1> HIDE DEF u
<1>5. t.h = u.h /\ t.v = u.v /\ t.i = u.i /\ t.p = u.p
  BY <1>1, <1>4 DEF States, Joins, Finish
<1>6. t.r.stop
  <2>1. CASE t \in {u, [u EXCEPT !.r.service = "selecting"]}
    BY <1>3, <1>4, <2>1 DEF States, RunningStates
  <2>2. CASE t = Joins(u)
    BY <1>3, <1>4, <2>2 DEF States, RunningStates, Joins
  <2>3. CASE t = Finish(u)
    BY <1>3, <1>4, <2>3 DEF States, RunningStates, Finish
  <2> QED BY <1>1, <2>1, <2>2, <2>3
<1>7. t.c.phase = s.c.phase /\ t.c.carrier = s.c.carrier /\ t.c.losses = s.c.losses /\ t.c.ended = s.c.ended
  <2>1. CASE t \in {u, [u EXCEPT !.r.service = "selecting"], Finish(u)}
    <3>1. t.c = u.c
      BY <1>4, <2>1 DEF States, Finish
    <3> QED BY <1>2, <3>1
  <2>2. CASE t = Joins(u)
    BY <1>2, <1>4, <2>2 DEF States, ConnectionStates, Joins
  <2> QED BY <1>1, <2>1, <2>2
<1> HIDE DEF t
<1> QED BY <1>2, <1>3, <1>5, <1>6, <1>7 DEF NoneToCancel, t

\* What the withdrawals leave needs no withdrawal.
LEMMA WithdrawsCalms ==
  ASSUME NEW s \in States, NEW w, Sound(s, w)
  PROVE  LET t == Withdraws(s)
         IN  Forgotten(t) /\ Withdrawn(t) /\ t.h = s.h /\ t.c.losses = s.c.losses
<1> DEFINE t == Withdraws(s)
           a == IF s.c.phase # "starting" /\ (~Ready(s.c) \/ Interrupted(s))
                THEN [s EXCEPT !.p.encoding = Unset] ELSE s
           b == IF ~s.c.carrier \/ Interrupted(s) THEN CancelTransfer(a) ELSE a
<1>1. a \in States /\ a.c = s.c /\ a.h = s.h
  BY DEF States, PendingStates
<1>2. Forgotten(a)
  BY DEF Forgotten, Ready, Interrupted, States, PendingStates
<1>3. b \in States
  <2>1. CancelTransfer(a) \in States
    <3>1. [s EXCEPT !.p.encoding = Unset] = [s EXCEPT !.p.connection = s.p.connection, !.p.encoding = Unset]
      BY DEF States, PendingStates
    <3>2. Sound(a, w)
      BY <3>1, ForgetsSound
    <3> QED BY <1>1, <3>2, CancelSound
  <2> QED BY <1>1, <2>1
<1>4. t = IF (b.p.auto \/ b.r.service = "selecting") /\ s.c.ended THEN CancelTransfer(b) ELSE b
  BY DEF Withdraws
<1> HIDE DEF a, t
<1>5. /\ b.h = s.h /\ b.c.phase = s.c.phase /\ b.c.carrier = s.c.carrier /\ b.c.losses = s.c.losses
      /\ b.c.ended = s.c.ended /\ b.p.encoding = a.p.encoding
      /\ (~s.c.carrier \/ Interrupted(s) => NoneToCancel(b))
  BY <1>1, CancelEffects
<1> HIDE DEF b
<1>6. /\ t.h = s.h /\ t.c.phase = s.c.phase /\ t.c.carrier = s.c.carrier /\ t.c.losses = s.c.losses
      /\ t.c.ended = s.c.ended /\ t.p.encoding = a.p.encoding
      /\ (~s.c.carrier \/ Interrupted(s) => NoneToCancel(t))
      /\ ((t.p.auto \/ t.r.service = "selecting") /\ s.c.ended => NoneToCancel(t))
  BY <1>3, <1>4, <1>5, CancelEffects
<1>7. Forgotten(t)
  BY <1>1, <1>2, <1>6 DEF Forgotten, Ready, Interrupted
<1>8. Withdrawn(t)
  BY <1>6 DEF Withdrawn, Interrupted
<1> QED BY <1>6, <1>7, <1>8 DEF t

\* What the recovery leaves recovers no more.
LEMMA RecoversCalms ==
  ASSUME NEW s \in States, Forgotten(s), Withdrawn(s)
  PROVE  LET t == Recovers(s)
         IN  /\ Forgotten(t) /\ Withdrawn(t) /\ Recovered(t)
             /\ t.h = s.h /\ t.c.losses = s.c.losses
<1> DEFINE t == Recovers(s)
<1>1. CASE t = s
  BY <1>1, RuntimeAssumption DEF Recovers, Recovered, States, PendingStates
<1>2. CASE t # s
  <2>1. /\ t = [s EXCEPT !.p.connection = s.v.request, !.p.again = TRUE, !.i.allowed = TRUE]
        /\ s.v.request # Unset
    BY <1>2 DEF Recovers
  <2> HIDE DEF t
  <2>2. t.c = s.c /\ t.h = s.h /\ t.r = s.r
    BY <2>1 DEF States
  <2>3. /\ t.p.connection # Unset /\ t.p.encoding = s.p.encoding
        /\ t.p.service = s.p.service /\ t.p.auto = s.p.auto
    BY <2>1 DEF States, PendingStates
  <2> QED BY <2>2, <2>3 DEF Forgotten, Withdrawn, Recovered, NoneToCancel, Interrupted, t
<1> QED BY <1>1, <1>2

\* A widget that took its state, and asked for no frame, has the state it should have.
LEMMA InhibitsCalms ==
  ASSUME NEW s \in States, Forgotten(s), Withdrawn(s), Recovered(s), NEW busy \in BOOLEAN,
         NEW t \in Inhibits(s, busy), ~t.f
  PROVE  /\ Forgotten(t) /\ Withdrawn(t) /\ Recovered(t) /\ Allowed(t)
         /\ t.h = s.h /\ t.c.losses = s.c.losses
<1>1. CASE t = s /\ Allowed(s)
  BY <1>1
<1>2. CASE \E x \in IF Enabled(s) THEN {"enabled"} ELSE {"draining", "disabled"} : t = [s EXCEPT !.i.state = x]
  <2>1. PICK x \in IF Enabled(s) THEN {"enabled"} ELSE {"draining", "disabled"} : t = [s EXCEPT !.i.state = x]
    BY <1>2
  <2>2. t.c = s.c /\ t.p = s.p /\ t.r = s.r /\ t.v = s.v /\ t.h = s.h
    BY <2>1 DEF States
  <2>3. t.i.state = x /\ t.i.allowed = s.i.allowed
    BY <2>1 DEF States, InputStates
  <2>4. Enabled(t) = Enabled(s)
    BY <2>2, <2>3 DEF Enabled, Interrupted, Serving, Active
  <2>5. Allowed(t)
    <3>1. CASE Enabled(s)
      BY <2>1, <2>3, <2>4, <3>1 DEF Allowed
    <3>2. CASE ~Enabled(s)
      <4>1. ~Enabled(t)
        BY <2>4, <3>2
      <4>2. Enabled(t) = FALSE
        BY <4>1 DEF Enabled
      <4>3. t.i.state # "enabled"
        BY <2>1, <2>3, <3>2
      <4> QED BY <4>2, <4>3 DEF Allowed
    <3> QED BY <3>1, <3>2
  <2>6. Forgotten(t) /\ Withdrawn(t) /\ Recovered(t)
    BY <2>2 DEF Forgotten, Withdrawn, Recovered, NoneToCancel, Interrupted, Exclusive, Serving, Active
  <2> QED BY <2>2, <2>5, <2>6
<1>3. t # [s EXCEPT !.f = TRUE]
  BY DEF States
<1> QED BY <1>1, <1>2, <1>3 DEF Inhibits, Allowed

\* A start asks for a frame.
LEMMA StartsCalms ==
  ASSUME NEW s \in States, ~Starts(s).f
  PROVE  Starts(s) = s /\ Started(s)
<1>1. CASE Starts(s) = s /\ Started(s)
  BY <1>1
<1>2. CASE ~Started(s)
  BY <1>2 DEF Started, Starts, States
<1>3. Started(s) => Starts(s) = s
  BY DEF Started, Starts
<1> QED BY <1>1, <1>2, <1>3

\* So does the loss that was handled.
LEMMA HandlesCalms ==
  ASSUME NEW s \in States, NEW before \in States, ~Handles(s, before).f
  PROVE  Handles(s, before) = s /\ ~(Interrupted(before) /\ Drained(s))
<1>1. CASE Interrupted(before) /\ Drained(s)
  BY <1>1 DEF Handles, States
<1>2. CASE ~(Interrupted(before) /\ Drained(s))
  BY <1>2 DEF Handles
<1> QED BY <1>1, <1>2


\* What begins with the carrier there leaves everything else settled.
LEMMA BegunSettled ==
  ASSUME NEW s \in States, NEW t \in States, Settled(s),
         t.h = s.h, t.v = s.v, t.i = s.i,
         t.c.phase = s.c.phase, t.c.carrier = s.c.carrier, t.c.losses = s.c.losses,
         t.c.ended = s.c.ended, t.c.cancelled = s.c.cancelled,
         t.p.connection = s.p.connection, t.p.again = s.p.again, t.p.encoding \in {s.p.encoding, Unset},
         t.r.watch = s.r.watch, Serving(t) \/ t.r.encoding # Unset, s.c.carrier, ~Interrupted(s),
         s.p.auto \/ s.p.encoding # Unset \/ s.p.service # Unset,
         (t.p.auto \/ t.r.service = "selecting") => ~s.c.ended
  PROVE  Settled(t)
<1>1. Forgotten(t)
  BY DEF Settled, Forgotten, Ready, Interrupted
<1>2. Withdrawn(t)
  BY DEF Withdrawn, Interrupted
<1>3. Recovered(t)
  BY DEF Recovered, Exclusive
<1>4. Allowed(t)
  <2>1. Enabled(s) = FALSE
    BY RuntimeAssumption DEF Enabled, Serving, Active
  <2>2. Enabled(t) = FALSE
    BY DEF Enabled
  <2> QED BY <2>1, <2>2 DEF Settled, Allowed
<1>5. Started(t)
  BY DEF Settled, Started, Drained
<1> QED BY <1>1, <1>2, <1>3, <1>4, <1>5 DEF Settled

\* A service that begins leaves a frame that was asked for.
LEMMA ServiceAsks ==
  ASSUME NEW s \in States, s.f
  PROVE  SendsText([s EXCEPT !.p.service = Unset]).f /\ Joins([s EXCEPT !.p.service = Unset]).f
<1>1. SendsText([s EXCEPT !.p.service = Unset]).f
  BY DEF SendsText, Finish, States
<1>2. Joins([s EXCEPT !.p.service = Unset]).f
  BY DEF Joins, States
<1> QED BY <1>1, <1>2

\* A change of the encoding that asks for no frame is an exchange.
LEMMA ChangesAsks ==
  ASSUME NEW s \in States, s.p.encoding # Unset, ~ChangesEncoding(s, s.p.encoding).f
  PROVE  /\ ChangesEncoding(s, s.p.encoding)
              = [s EXCEPT !.p.encoding = Unset, !.c.changing = TRUE, !.r.encoding = s.p.encoding]
         /\ s.c.phase # "starting" /\ Ready(s.c) /\ ~s.f
<1> DEFINE e == s.p.encoding
<1>1. \A told \in BOOLEAN, u \in States : EncodingReturns(u, e, told).f
  BY DEF EncodingReturns, States
<1>2. e \in Encodings
  BY DEF States, PendingStates
<1>3. /\ [s EXCEPT !.p.encoding = Unset] \in States
      /\ [[s EXCEPT !.p.encoding = Unset] EXCEPT !.c.encoding = e] \in States
  BY <1>2 DEF States, PendingStates, ConnectionStates
<1>4. /\ ChangesEncoding(s, e) = [[s EXCEPT !.p.encoding = Unset] EXCEPT !.c.changing = TRUE, !.r.encoding = e]
      /\ s.c.phase # "starting" /\ Ready(s.c)
  BY <1>1, <1>3 DEF ChangesEncoding
<1>5. ~s.f
  BY <1>4 DEF States
<1> QED BY <1>4, <1>5

\* A transfer that was announced begins with the question.
LEMMA BeginsAuto ==
  ASSUME NEW s \in States, NEW w, Sound(s, w), s.p.auto
  PROVE  LET a == [s EXCEPT !.p.auto = FALSE, !.r.service = "selecting"] IN a \in States /\ Sound(a, w)
<1> DEFINE a == [s EXCEPT !.p.auto = FALSE, !.r.service = "selecting"]
<1>1. s.p.service = Unset /\ s.r.stop \in BOOLEAN
  BY DEF Sound, Owed, Active, States, RunningStates
<1>2. a = [s EXCEPT !.r.stop = s.r.stop, !.p.auto = FALSE, !.p.service = Unset, !.r.service = "selecting"]
  BY <1>1 DEF States, PendingStates, RunningStates
<1> QED BY <1>1, <1>2, SelectsSound

\* A frame that was asked for stays so.
LEMMA BeginsAsks ==
  ASSUME NEW s \in States, NEW w, Sound(s, w), ~Begins(s).f
  PROVE  ~s.f
<1> DEFINE a == IF s.p.auto /\ Drained(s)
                THEN [s EXCEPT !.p.auto = FALSE, !.r.service = "selecting"] ELSE s
           b == IF a.p.encoding # Unset /\ Drained(a) THEN ChangesEncoding(a, a.p.encoding) ELSE a
<1>1. Begins(s) \in {b, SendsText([b EXCEPT !.p.service = Unset]), Joins([b EXCEPT !.p.service = Unset])}
  BY DEF Begins
<1>2. a \in States /\ Sound(a, w) /\ a.f = s.f
  BY BeginsAuto DEF States
<1> HIDE DEF a
<1>3. b \in States
  BY <1>2, ChangesSound
<1>4. ~b.f
  <2> HIDE DEF b
  <2> QED BY <1>1, <1>3, ServiceAsks
<1>5. ~a.f
  BY <1>2, <1>4, ChangesAsks
<1> QED BY <1>2, <1>5

\* What begins and asks for no frame leaves nothing that could begin.
LEMMA BeginsCalms ==
  ASSUME NEW s \in States, NEW w, Sound(s, w), Settled(s), ~Begins(s).f
  PROVE  LET t == Begins(s)
         IN  Settled(t) /\ Begun(t) /\ t.h = s.h /\ t.c.losses = s.c.losses
<1> DEFINE a == IF s.p.auto /\ Drained(s)
                THEN [s EXCEPT !.p.auto = FALSE, !.r.service = "selecting"] ELSE s
           b == IF a.p.encoding # Unset /\ Drained(a) THEN ChangesEncoding(a, a.p.encoding) ELSE a
           t == Begins(s)
           Like(u) == Settled(u) /\ u.h = s.h /\ u.c.losses = s.c.losses /\ u.i = s.i
<1>1. a \in States /\ Sound(a, w) /\ Like(a) /\ (Drained(s) => ~a.p.auto)
  <2>1. CASE s.p.auto /\ Drained(s)
    <3>3. a \in States /\ Sound(a, w)
      BY <2>1, BeginsAuto
    <3>4. a.h = s.h /\ a.v = s.v /\ a.i = s.i /\ a.c = s.c
      BY <2>1 DEF States
    <3>5. a.p.connection = s.p.connection /\ a.p.again = s.p.again /\ a.p.encoding = s.p.encoding /\ ~a.p.auto
      BY <2>1 DEF States, PendingStates
    <3>6. a.r.watch = s.r.watch /\ a.r.service = "selecting"
      BY <2>1 DEF States, RunningStates
    <3>7. s.c.carrier /\ ~Interrupted(s) /\ ~s.c.ended
      BY <2>1 DEF Settled, Withdrawn, NoneToCancel
    <3>8. Serving(a)
      BY <3>6, RuntimeAssumption DEF Serving, Active
    <3> HIDE DEF a
    <3>9. Settled(a)
      BY <2>1, <3>3, <3>4, <3>5, <3>6, <3>7, <3>8, BegunSettled
    <3> QED BY <3>3, <3>4, <3>5, <3>9
  <2>2. CASE ~(s.p.auto /\ Drained(s))
    BY <2>2
  <2> QED BY <2>1, <2>2
<1>2. t = LET c == IF b.p.service = Unset \/ ~Drained(b) THEN b
                   ELSE IF b.p.service = "text" THEN SendsText([b EXCEPT !.p.service = Unset])
                   ELSE Joins([b EXCEPT !.p.service = Unset])
          IN  c
  BY DEF Begins
<1> HIDE DEF a
<1>3. b \in States /\ Sound(b, w)
  BY <1>1, ChangesSound
<1>4. ~b.f
  <2> HIDE DEF b
  <2>1. t \in {b, SendsText([b EXCEPT !.p.service = Unset]), Joins([b EXCEPT !.p.service = Unset])}
    BY <1>2
  <2> QED BY <1>3, <2>1, ServiceAsks
<1>5. Like(b) /\ (Drained(s) => ~b.p.auto /\ b.p.encoding = Unset)
  <2> DEFINE e == a.p.encoding
  <2>1. CASE e # Unset /\ Drained(a)
    <3>1. b = ChangesEncoding(a, e)
      BY <2>1
    <3>2. a.p.encoding = e
      OBVIOUS
    <3> HIDE DEF b, e
    <3>3. /\ b = [a EXCEPT !.p.encoding = Unset, !.c.changing = TRUE, !.r.encoding = e]
          /\ ~(a.c.phase = "starting") /\ Ready(a.c)
      BY <1>1, <1>4, <2>1, <3>1, <3>2, ChangesAsks
    <3>4. b.h = a.h /\ b.v = a.v /\ b.i = a.i
      BY <1>1, <3>3 DEF States
    <3>5. /\ b.c.phase = a.c.phase /\ b.c.carrier = a.c.carrier /\ b.c.losses = a.c.losses
          /\ b.c.ended = a.c.ended /\ b.c.cancelled = a.c.cancelled
      BY <1>1, <3>3 DEF States, ConnectionStates
    <3>6. /\ b.p.connection = a.p.connection /\ b.p.again = a.p.again /\ b.p.encoding = Unset
          /\ b.p.auto = a.p.auto
      BY <1>1, <3>3 DEF States, PendingStates
    <3>7. b.r.watch = a.r.watch /\ b.r.encoding = e /\ b.r.service = a.r.service
      BY <1>1, <3>3 DEF States, RunningStates
    <3>8. a.c.carrier /\ ~Interrupted(a)
      BY <1>1, <2>1, <3>2, <3>3 DEF Settled, Forgotten, Ready
    <3>9. b.r.encoding # Unset
      BY <2>1, <3>7
    <3>10. (b.p.auto \/ b.r.service = "selecting") => ~a.c.ended
      BY <1>1, <2>1, <3>2, <3>6, <3>7, RuntimeAssumption DEF Sound, Apart, Exclusive, Serving, Active
    <3>11. Settled(b)
      BY <1>1, <1>3, <2>1, <3>2, <3>4, <3>5, <3>6, <3>7, <3>8, <3>9, <3>10, BegunSettled
    <3> QED BY <1>1, <3>4, <3>5, <3>6, <3>11
  <2>2. CASE ~(e # Unset /\ Drained(a))
    BY <1>1, <2>2 DEF Drained
  <2> QED BY <2>1, <2>2
<1> HIDE DEF b
<1>6. CASE b.p.service = Unset \/ ~Drained(b)
  BY <1>2, <1>5, <1>6 DEF Begun, Drained
<1>7. CASE b.p.service # Unset /\ Drained(b)
  <2> DEFINE kind == IF b.p.service = "text" THEN "text" ELSE "transfer"
  <2>1. t = [b EXCEPT !.p.service = Unset, !.r.service = kind, !.c.busy = kind]
    <3>1. CASE b.p.service = "text"
      BY <1>2, <1>3, <1>7, <3>1 DEF SendsText, Finish, States
    <3>2. CASE b.p.service # "text"
      BY <1>2, <1>7, <3>2 DEF Joins
    <3> QED BY <3>1, <3>2
  <2>2. kind \in {"text", "transfer"}
    OBVIOUS
  <2>3. t \in States
    BY <1>3, BeginsSound
  <2> HIDE DEF t, kind
  <2>4. t.h = b.h /\ t.v = b.v /\ t.i = b.i
    BY <1>3, <2>1 DEF States
  <2>5. /\ t.c.phase = b.c.phase /\ t.c.carrier = b.c.carrier /\ t.c.losses = b.c.losses
        /\ t.c.ended = b.c.ended /\ t.c.cancelled = b.c.cancelled
    BY <1>3, <2>1 DEF States, ConnectionStates
  <2>6. /\ t.p.connection = b.p.connection /\ t.p.again = b.p.again /\ t.p.encoding = b.p.encoding
        /\ t.p.auto = b.p.auto /\ t.p.service = Unset
    BY <1>3, <2>1 DEF States, PendingStates
  <2>7. t.r.watch = b.r.watch /\ t.r.service = kind
    BY <1>3, <2>1 DEF States, RunningStates
  <2>8. b.c.carrier /\ ~Interrupted(b)
    BY <1>5, <1>7 DEF Settled, Withdrawn, NoneToCancel
  <2>9. Serving(t)
    BY <2>2, <2>7, RuntimeAssumption DEF Serving, Active
  <2>10. ~t.p.auto /\ t.r.service # "selecting"
    BY <1>3, <1>7, <2>2, <2>6, <2>7 DEF Sound, Owed, Active
  <2>11. Settled(t)
    BY <1>3, <1>5, <1>7, <2>3, <2>4, <2>5, <2>6, <2>7, <2>8, <2>9, <2>10, BegunSettled
  <2>12. Begun(t)
    BY <1>5, <1>7, <2>4, <2>6 DEF Begun, Drained
  <2> QED BY <1>5, <2>4, <2>5, <2>11, <2>12 DEF t
<1> QED BY <1>6, <1>7

\* A pass that asks for no frame leaves nothing for the next one.
LEMMA PolicyCalms ==
  ASSUME NEW s \in States, NEW w, Sound(s, w), NEW busy \in BOOLEAN, NEW t \in Policy(s, busy), ~t.f
  PROVE  Calm(t)
<1> DEFINE x == Withdraws(s)
           y == Recovers(x)
<1>1. PICK u \in Inhibits(y, busy) : t = Handles(Begins(Starts(u)), s)
  BY DEF Policy
<1>2. /\ x \in States /\ Sound(x, w) /\ y \in States /\ Sound(y, w)
      /\ u \in States /\ Sound(u, w) /\ Starts(u) \in States /\ Sound(Starts(u), w)
      /\ Begins(Starts(u)) \in States
  BY <1>1, WithdrawsSound, RecoversSound, InhibitsSound, StartsSound, BeginsSound
<1>3. /\ t = Begins(Starts(u)) /\ ~Begins(Starts(u)).f /\ ~(Interrupted(s) /\ Drained(t))
  BY <1>1, <1>2, HandlesCalms
<1>4. ~Starts(u).f
  BY <1>2, <1>3, BeginsAsks
<1>5. Starts(u) = u /\ Started(u) /\ ~u.f
  BY <1>2, <1>4, StartsCalms
<1>6. Forgotten(x) /\ Withdrawn(x) /\ x.h = s.h /\ x.c.losses = s.c.losses
  BY WithdrawsCalms
<1> HIDE DEF x
<1>7. Forgotten(y) /\ Withdrawn(y) /\ Recovered(y) /\ y.h = s.h /\ y.c.losses = s.c.losses
  BY <1>2, <1>6, RecoversCalms
<1> HIDE DEF y
<1>8. Forgotten(u) /\ Withdrawn(u) /\ Recovered(u) /\ Allowed(u) /\ u.h = s.h /\ u.c.losses = s.c.losses
  BY <1>1, <1>2, <1>5, <1>7, InhibitsCalms
<1>9. Settled(u)
  BY <1>5, <1>8 DEF Settled
<1>10. Settled(t) /\ Begun(t) /\ t.h = s.h /\ t.c.losses = s.c.losses
  BY <1>2, <1>3, <1>5, <1>8, <1>9, BeginsCalms
<1> QED BY <1>3, <1>10 DEF Calm, Interrupted


\* A frame over a state that is calm changes nothing.
LEMMA CalmRests ==
  ASSUME NEW s \in States, Calm(s)
  PROVE  Policy(s, FALSE) = {s}
<1>1. NoneToCancel(s) => CancelTransfer(s) = s
  <2>1. NoneToCancel(s) => CancelTransfer(s) = [s EXCEPT !.r.stop = TRUE, !.p.auto = FALSE, !.p.service = Unset]
    BY RuntimeAssumption DEF NoneToCancel, CancelTransfer
  <2>2. NoneToCancel(s) => [s EXCEPT !.r.stop = TRUE, !.p.auto = FALSE, !.p.service = Unset] = s
    <3> SUFFICES ASSUME NoneToCancel(s)
                 PROVE  [s EXCEPT !.r.stop = TRUE, !.p.auto = FALSE, !.p.service = Unset] = s
      OBVIOUS
    <3>1. s.r.stop = TRUE /\ s.p.auto = FALSE /\ s.p.service = Unset
      BY DEF NoneToCancel, States, RunningStates, PendingStates
    <3>2. [s.r EXCEPT !.stop = TRUE] = s.r
      BY <3>1 DEF States, RunningStates
    <3>3. [s.p EXCEPT !.auto = FALSE, !.service = Unset] = s.p
      BY <3>1 DEF States, PendingStates
    <3>4. [s EXCEPT !.r.stop = TRUE, !.p.auto = FALSE, !.p.service = Unset]
            = [s EXCEPT !.r = [s.r EXCEPT !.stop = TRUE], !.p = [s.p EXCEPT !.auto = FALSE, !.service = Unset]]
      BY DEF States, RunningStates, PendingStates
    <3> QED BY <3>2, <3>3, <3>4 DEF States
  <2> QED BY <2>1, <2>2
<1>2. Withdraws(s) = s
  <2>1. s.c.phase # "starting" /\ (~Ready(s.c) \/ Interrupted(s)) => [s EXCEPT !.p.encoding = Unset] = s
    BY DEF Calm, Settled, Forgotten, States, PendingStates
  <2>2. ~s.c.carrier \/ Interrupted(s) => CancelTransfer(s) = s
    BY <1>1 DEF Calm, Settled, Withdrawn
  <2>3. (s.p.auto \/ s.r.service = "selecting") /\ s.c.ended => CancelTransfer(s) = s
    BY <1>1 DEF Calm, Settled, Withdrawn
  <2> QED BY <2>1, <2>2, <2>3 DEF Withdraws
<1>3. Recovers(s) = s
  BY DEF Calm, Settled, Recovered, Recovers
<1>4. Inhibits(s, FALSE) = {s}
  BY DEF Calm, Settled, Allowed, Inhibits
<1>5. Starts(s) = s
  BY DEF Calm, Settled, Started, Starts
<1>6. Begins(s) = s
  BY DEF Calm, Begun, Begins
<1>7. Handles(s, s) = s
  BY DEF Calm, Handles
<1> QED BY <1>2, <1>3, <1>4, <1>5, <1>6, <1>7 DEF Policy

\* The invariant of the windows.
Windows == {"open", "stopping", "recovery", "encoding", "service", "break", "closed"}
RuntimeParts == Now \in States /\ window \in Windows /\ Sound(Now, window) /\ Framed(Now, window)

\* A step of the code takes the state to the next one.
LEMMA NowBecomes ==
  ASSUME NEW s, s \in States, Becomes(s)
  PROVE  Now' = s
BY DEF Becomes, Now, States

\* What the window is initially.
LEMMA InitialParts == RuntimeInit => RuntimeParts
<1> SUFFICES ASSUME RuntimeInit PROVE RuntimeParts
  OBVIOUS
<1>1. /\ connection = NoConnection /\ pending = NothingPending /\ running = NothingRuns
      /\ recovery = [request |-> Unset, returned |-> FALSE]
      /\ input = [state |-> "enabled", allowed |-> TRUE, failed |-> FALSE]
      /\ scheduled = TRUE /\ window = "open" /\ handled = 0
      /\ given = [encoding |-> Unset, owed |-> 0, starts |-> 0]
  BY DEF RuntimeInit, InitWith
<1>2. 0 \in 0..MaxLosses /\ 0 \in 0..MaxStarts
  BY RuntimeAssumption
<1>3. connection \in ConnectionStates
  BY <1>1, <1>2 DEF ConnectionStates, NoConnection, Phases
<1>4. pending \in PendingStates /\ running \in RunningStates /\ recovery \in RecoveryStates
  BY <1>1 DEF PendingStates, NothingPending, RunningStates, NothingRuns, RecoveryStates
<1>5. input \in InputStates /\ given \in GivenStates
  BY <1>1, <1>2 DEF InputStates, GivenStates
<1>6. Now \in States
  BY <1>1, <1>2, <1>3, <1>4, <1>5 DEF Now, States
<1>7. /\ Now.c = connection /\ Now.p = pending /\ Now.r = running /\ Now.v = recovery
      /\ Now.g = given /\ Now.f = scheduled
  BY DEF Now
<1>8. Sound(Now, window)
  BY <1>1, <1>7, RuntimeAssumption DEF Sound, Held, Owed, Apart, Idle, Counted, Carried, Left,
     Serving, Active, NoConnection, NothingPending, NothingRuns
<1>9. Framed(Now, window)
  BY <1>1, <1>7 DEF Framed
<1> QED BY <1>1, <1>6, <1>8, <1>9 DEF RuntimeParts, Windows

\* The connection opens.
LEMMA OpensSound ==
  ASSUME NEW s \in States, NEW w, Sound(s, w), s.c.phase = "starting"
  PROVE  LET t == [s EXCEPT !.c.phase = "connected", !.f = TRUE] IN t \in States /\ Sound(t, w)
<1> DEFINE t == [s EXCEPT !.c.phase = "connected", !.f = TRUE]
<1>1. t \in States
  BY DEF States, ConnectionStates, Phases
<1>2. t.p = s.p /\ t.v = s.v /\ t.r = s.r /\ t.g = s.g
  BY DEF States
<1>3. t.c.phase = "connected" /\ t.c.busy = s.c.busy /\ t.c.changing = s.c.changing /\ t.c.encoding = s.c.encoding
  BY DEF States, ConnectionStates
<1> HIDE DEF t
<1>a. Held(t) BY <1>2, <1>3, RuntimeAssumption DEF Sound, Held
<1>b. Owed(t) BY <1>2, <1>3, RuntimeAssumption DEF Sound, Owed, Serving, Active
<1>c. Apart(t) BY <1>2, <1>3, RuntimeAssumption DEF Sound, Apart, Serving, Active, Exclusive
<1>d. Idle(t) BY <1>2, <1>3, RuntimeAssumption DEF Sound, Idle
<1>e. Counted(t) BY <1>2, <1>3, RuntimeAssumption DEF Sound, Counted
<1>f. Carried(t) BY <1>2, <1>3, RuntimeAssumption DEF Sound, Carried
<1>g. Left(t, w) BY <1>2, <1>3, RuntimeAssumption DEF Sound, Left
<1> QED BY <1>a, <1>b, <1>c, <1>d, <1>e, <1>f, <1>g, <1>1 DEF Sound, t

\* What comes from the peer ends, or the carrier moves.
LEMMA LosesSound ==
  ASSUME NEW s \in States, NEW w, Sound(s, w), NEW e \in BOOLEAN, NEW k \in BOOLEAN, NEW l \in 0..MaxLosses
  PROVE  LET t == [s EXCEPT !.c.ended = e, !.c.carrier = k, !.c.losses = l, !.f = TRUE] IN t \in States /\ Sound(t, w)
<1> DEFINE t == [s EXCEPT !.c.ended = e, !.c.carrier = k, !.c.losses = l, !.f = TRUE]
<1>1. t \in States
  BY DEF States, ConnectionStates
<1>2. t.p = s.p /\ t.v = s.v /\ t.r = s.r /\ t.g = s.g
  BY DEF States
<1>3. t.c.phase = s.c.phase /\ t.c.busy = s.c.busy /\ t.c.changing = s.c.changing /\ t.c.encoding = s.c.encoding
  BY DEF States, ConnectionStates
<1> HIDE DEF t
<1>a. Held(t) BY <1>2, <1>3, RuntimeAssumption DEF Sound, Held
<1>b. Owed(t) BY <1>2, <1>3, RuntimeAssumption DEF Sound, Owed, Serving, Active
<1>c. Apart(t) BY <1>2, <1>3, RuntimeAssumption DEF Sound, Apart, Serving, Active, Exclusive
<1>d. Idle(t) BY <1>2, <1>3, RuntimeAssumption DEF Sound, Idle
<1>e. Counted(t) BY <1>2, <1>3, RuntimeAssumption DEF Sound, Counted
<1>f. Carried(t) BY <1>2, <1>3, RuntimeAssumption DEF Sound, Carried
<1>g. Left(t, w) BY <1>2, <1>3, RuntimeAssumption DEF Sound, Left
<1> QED BY <1>a, <1>b, <1>c, <1>d, <1>e, <1>f, <1>g, <1>1 DEF Sound, t

\* The input or the output of the connection ends.
LEMMA IoStopsSound ==
  ASSUME NEW s \in States, NEW w, Sound(s, w), NEW to \in {s.c.phase, "stopping"}, s.c.phase \notin {"idle", "closed"} \/ to = s.c.phase
  PROVE  LET t == [s EXCEPT !.c.live = FALSE, !.c.phase = to, !.f = TRUE] IN t \in States /\ Sound(t, w)
<1> DEFINE t == [s EXCEPT !.c.live = FALSE, !.c.phase = to, !.f = TRUE]
<1>1. t \in States
  BY DEF States, ConnectionStates, Phases
<1>2. t.p = s.p /\ t.v = s.v /\ t.r = s.r /\ t.g = s.g
  BY DEF States
<1>3. t.c.phase = to /\ t.c.busy = s.c.busy /\ t.c.changing = s.c.changing /\ t.c.encoding = s.c.encoding
  BY DEF States, ConnectionStates
<1> HIDE DEF t
<1>a. Held(t) BY <1>2, <1>3, RuntimeAssumption DEF Sound, Held
<1>b. Owed(t) BY <1>2, <1>3, RuntimeAssumption DEF Sound, Owed, Serving, Active
<1>c. Apart(t) BY <1>2, <1>3, RuntimeAssumption DEF Sound, Apart, Serving, Active, Exclusive
<1>d. Idle(t) BY <1>2, <1>3, RuntimeAssumption DEF Sound, Idle
<1>e. Counted(t) BY <1>2, <1>3, RuntimeAssumption DEF Sound, Counted
<1>f. Carried(t) BY <1>2, <1>3, RuntimeAssumption DEF Sound, Carried
<1>g. Left(t, w) BY <1>2, <1>3, RuntimeAssumption DEF Sound, Left
<1> QED BY <1>a, <1>b, <1>c, <1>d, <1>e, <1>f, <1>g, <1>1 DEF Sound, t

\* The connection closes when it serves nothing any more.
LEMMA ClosesSound ==
  ASSUME NEW s \in States, NEW w, Sound(s, w), s.c.busy = Unset, ~s.c.changing, s.c.phase \in {"starting", "connected", "stopping"}
  PROVE  LET t == [s EXCEPT !.c.phase = "closed", !.f = TRUE] IN t \in States /\ Sound(t, w)
<1> DEFINE t == [s EXCEPT !.c.phase = "closed", !.f = TRUE]
<1>1. t \in States
  BY DEF States, ConnectionStates, Phases
<1>2. t.p = s.p /\ t.v = s.v /\ t.r = s.r /\ t.g = s.g
  BY DEF States
<1>3. t.c.phase = "closed" /\ t.c.busy = s.c.busy /\ t.c.changing = s.c.changing /\ t.c.encoding = s.c.encoding
  BY DEF States, ConnectionStates
<1> HIDE DEF t
<1>a. Held(t) BY <1>2, <1>3, RuntimeAssumption DEF Sound, Held
<1>b. Owed(t) BY <1>2, <1>3, RuntimeAssumption DEF Sound, Owed, Serving, Active
<1>c. Apart(t) BY <1>2, <1>3, RuntimeAssumption DEF Sound, Apart, Serving, Active, Exclusive
<1>d. Idle(t) BY <1>2, <1>3, RuntimeAssumption DEF Sound, Idle
<1>e. Counted(t) BY <1>2, <1>3, RuntimeAssumption DEF Sound, Counted
<1>f. Carried(t) BY <1>2, <1>3, RuntimeAssumption DEF Sound, Carried
<1>g. Left(t, w) BY <1>2, <1>3, RuntimeAssumption DEF Sound, Left
<1> QED BY <1>a, <1>b, <1>c, <1>d, <1>e, <1>f, <1>g, <1>1 DEF Sound, t

\* The connection is done with what it served.
LEMMA ServedSound ==
  ASSUME NEW s \in States, NEW w, Sound(s, w), s.c.busy \in {"text", "transfer", "break"}
  PROVE  LET t == [s EXCEPT !.c.busy = Unset, !.f = TRUE] IN t \in States /\ Sound(t, w)
<1> DEFINE t == [s EXCEPT !.c.busy = Unset, !.f = TRUE]
<1>1. t \in States
  BY DEF States, ConnectionStates
<1>2. t.p = s.p /\ t.v = s.v /\ t.r = s.r /\ t.g = s.g
  BY DEF States
<1>3. t.c.phase = s.c.phase /\ t.c.busy = Unset /\ t.c.changing = s.c.changing /\ t.c.encoding = s.c.encoding
  BY DEF States, ConnectionStates
<1> HIDE DEF t
<1>a. Held(t) BY <1>2, <1>3, RuntimeAssumption DEF Sound, Held
<1>b. Owed(t) BY <1>2, <1>3, RuntimeAssumption DEF Sound, Owed, Serving, Active
<1>c. Apart(t) BY <1>2, <1>3, RuntimeAssumption DEF Sound, Apart, Serving, Active, Exclusive
<1>d. Idle(t) BY <1>2, <1>3, RuntimeAssumption DEF Sound, Idle
<1>e. Counted(t) BY <1>2, <1>3, RuntimeAssumption DEF Sound, Counted
<1>f. Carried(t) BY <1>2, <1>3, RuntimeAssumption DEF Sound, Carried
<1>g. Left(t, w) BY <1>2, <1>3, RuntimeAssumption DEF Sound, Left
<1> QED BY <1>a, <1>b, <1>c, <1>d, <1>e, <1>f, <1>g, <1>1 DEF Sound, t

\* The exchange of an encoding is over.
LEMMA ExchangedSound ==
  ASSUME NEW s \in States, NEW w, Sound(s, w), s.c.changing, NEW e \in {s.c.encoding, s.r.encoding}
  PROVE  LET t == [s EXCEPT !.c.changing = FALSE, !.c.encoding = e, !.f = TRUE] IN t \in States /\ Sound(t, w)
<1> DEFINE t == [s EXCEPT !.c.changing = FALSE, !.c.encoding = e, !.f = TRUE]
<1>0. e \in {Unset} \cup Encodings
  BY DEF States, ConnectionStates, RunningStates
<1>9. s.r.encoding # Unset
  BY DEF Sound, Apart
<1>1. t \in States
  BY <1>0 DEF States, ConnectionStates
<1>2. t.p = s.p /\ t.v = s.v /\ t.r = s.r /\ t.g = s.g
  BY DEF States
<1>3. t.c.phase = s.c.phase /\ t.c.busy = s.c.busy /\ ~t.c.changing /\ t.c.encoding = e
  BY DEF States, ConnectionStates
<1> HIDE DEF t
<1>a. Held(t) BY <1>2, <1>3, <1>9, RuntimeAssumption DEF Sound, Held
<1>b. Owed(t) BY <1>2, <1>3, <1>9, RuntimeAssumption DEF Sound, Owed, Serving, Active
<1>c. Apart(t) BY <1>2, <1>3, <1>9, RuntimeAssumption DEF Sound, Apart, Serving, Active, Exclusive
<1>d. Idle(t) BY <1>2, <1>3, <1>9, RuntimeAssumption DEF Sound, Idle
<1>e. Counted(t) BY <1>2, <1>3, <1>9, RuntimeAssumption DEF Sound, Counted
<1>f. Carried(t) BY <1>2, <1>3, <1>9, RuntimeAssumption DEF Sound, Carried
<1>g. Left(t, w) BY <1>2, <1>3, <1>9, RuntimeAssumption DEF Sound, Left
<1> QED BY <1>a, <1>b, <1>c, <1>d, <1>e, <1>f, <1>g, <1>1 DEF Sound, t

\* A BREAK is over.
LEMMA BreakReturnsSound ==
  ASSUME NEW s \in States, NEW w, Sound(s, w), s.c.busy # "break"
  PROVE  LET t == [s EXCEPT !.r.break = FALSE, !.f = TRUE] IN t \in States /\ Sound(t, w)
<1> DEFINE t == [s EXCEPT !.r.break = FALSE, !.f = TRUE]
<1>1. t \in States
  BY DEF States, RunningStates
<1>2. t.c = s.c /\ t.p = s.p /\ t.v = s.v /\ t.g = s.g
  BY DEF States
<1>3. t.r.service = s.r.service /\ t.r.encoding = s.r.encoding /\ ~t.r.break /\ t.r.watch = s.r.watch
  BY DEF States, RunningStates
<1> HIDE DEF t
<1>a. Held(t) BY <1>2, <1>3, RuntimeAssumption DEF Sound, Held
<1>b. Owed(t) BY <1>2, <1>3, RuntimeAssumption DEF Sound, Owed, Serving, Active
<1>c. Apart(t) BY <1>2, <1>3, RuntimeAssumption DEF Sound, Apart, Serving, Active, Exclusive
<1>d. Idle(t) BY <1>2, <1>3, RuntimeAssumption DEF Sound, Idle
<1>e. Counted(t) BY <1>2, <1>3, RuntimeAssumption DEF Sound, Counted
<1>f. Carried(t) BY <1>2, <1>3, RuntimeAssumption DEF Sound, Carried
<1>g. Left(t, w) BY <1>2, <1>3, RuntimeAssumption DEF Sound, Left
<1> QED BY <1>a, <1>b, <1>c, <1>d, <1>e, <1>f, <1>g, <1>1 DEF Sound, t

\* A device returned.
LEMMA DeviceReturnsSound ==
  ASSUME NEW s \in States, NEW w, Sound(s, w), s.g.starts < MaxStarts
  PROVE  LET t == [s EXCEPT !.v.returned = TRUE, !.f = TRUE] IN t \in States /\ Sound(t, w)
<1> DEFINE t == [s EXCEPT !.v.returned = TRUE, !.f = TRUE]
<1>1. t \in States
  BY DEF States, RecoveryStates
<1>2. t.c = s.c /\ t.p = s.p /\ t.r = s.r /\ t.g = s.g
  BY DEF States
<1>3. t.v.request = s.v.request /\ t.v.returned
  BY DEF States, RecoveryStates
<1> HIDE DEF t
<1>a. Held(t) BY <1>2, <1>3, RuntimeAssumption DEF Sound, Held
<1>b. Owed(t) BY <1>2, <1>3, RuntimeAssumption DEF Sound, Owed, Serving, Active
<1>c. Apart(t) BY <1>2, <1>3, RuntimeAssumption DEF Sound, Apart, Serving, Active, Exclusive
<1>d. Idle(t) BY <1>2, <1>3, RuntimeAssumption DEF Sound, Idle
<1>e. Counted(t) BY <1>2, <1>3, RuntimeAssumption DEF Sound, Counted
<1>f. Carried(t) BY <1>2, <1>3, RuntimeAssumption DEF Sound, Carried
<1>g. Left(t, w) BY <1>2, <1>3, RuntimeAssumption DEF Sound, Left
<1> QED BY <1>a, <1>b, <1>c, <1>d, <1>e, <1>f, <1>g, <1>1 DEF Sound, t

\* A device is watched no longer.
LEMMA WatchEndsSound ==
  ASSUME NEW s \in States, NEW w, Sound(s, w), NEW q \in {Unset, s.v.request}
  PROVE  LET t == [s EXCEPT !.r.watch = Unset, !.v.request = q, !.f = TRUE] IN t \in States /\ Sound(t, w)
<1> DEFINE t == [s EXCEPT !.r.watch = Unset, !.v.request = q, !.f = TRUE]
<1>1. t \in States
  BY DEF States, RunningStates, RecoveryStates
<1>2. t.c = s.c /\ t.p = s.p /\ t.g = s.g
  BY DEF States
<1>3. t.r.service = s.r.service /\ t.r.encoding = s.r.encoding /\ t.r.break = s.r.break /\ t.r.watch = Unset
  BY DEF States, RunningStates
<1>4. t.v.request = q /\ t.v.returned = s.v.returned
  BY DEF States, RecoveryStates
<1> HIDE DEF t
<1>a. Held(t) BY <1>2, <1>3, <1>4, RuntimeAssumption DEF Sound, Held
<1>b. Owed(t) BY <1>2, <1>3, <1>4, RuntimeAssumption DEF Sound, Owed, Serving, Active
<1>c. Apart(t) BY <1>2, <1>3, <1>4, RuntimeAssumption DEF Sound, Apart, Serving, Active, Exclusive
<1>d. Idle(t) BY <1>2, <1>3, <1>4, RuntimeAssumption DEF Sound, Idle
<1>e. Counted(t) BY <1>2, <1>3, <1>4, RuntimeAssumption DEF Sound, Counted
<1>f. Carried(t) BY <1>2, <1>3, <1>4, RuntimeAssumption DEF Sound, Carried
<1>g. Left(t, w) BY <1>2, <1>3, <1>4, RuntimeAssumption DEF Sound, Left
<1> QED BY <1>a, <1>b, <1>c, <1>d, <1>e, <1>f, <1>g, <1>1 DEF Sound, t

\* A text is accepted.
LEMMA StartTextSound ==
  ASSUME NEW s \in States, NEW w, Sound(s, w), ~Exclusive(s), s.p.encoding = Unset, s.c.phase = "connected"
  PROVE  LET t == [s EXCEPT !.r.stop = FALSE, !.g.owed = @ + 1, !.p.service = "text", !.f = TRUE] IN t \in States /\ Sound(t, w)
<1> DEFINE t == [s EXCEPT !.r.stop = FALSE, !.g.owed = @ + 1, !.p.service = "text", !.f = TRUE]
<1>0. s.g.owed = 0 /\ s.g.owed + 1 \in Nat /\ s.r.service = Unset /\ ~s.r.break /\ s.r.encoding = Unset
      /\ s.p.service = Unset /\ ~s.p.auto /\ s.p.encoding = Unset /\ s.p.connection = Unset
  BY DEF Sound, Owed, Carried, Exclusive, Serving, Active
<1>1. t \in States
  <2>1. [s.r EXCEPT !.stop = FALSE] \in RunningStates
    BY <1>0 DEF States, RunningStates
  <2>2. [s.g EXCEPT !.owed = @ + 1] \in GivenStates
    BY <1>0 DEF States, GivenStates
  <2>3. [s.p EXCEPT !.service = "text"] \in PendingStates
    BY <1>0 DEF States, PendingStates
  <2>4. t = [s EXCEPT !.r = [s.r EXCEPT !.stop = FALSE], !.g = [s.g EXCEPT !.owed = @ + 1], !.p = [s.p EXCEPT !.service = "text"], !.f = TRUE]
    BY DEF States
  <2> HIDE DEF t
  <2> QED BY <2>1, <2>2, <2>3, <2>4 DEF States
<1>2. t.c = s.c /\ t.v = s.v
  BY DEF States
<1>3. t.r.service = s.r.service /\ t.r.encoding = s.r.encoding /\ t.r.break = s.r.break /\ t.r.watch = s.r.watch
  BY DEF States, RunningStates
<1>4. t.g.encoding = s.g.encoding /\ t.g.owed = s.g.owed + 1 /\ t.g.starts = s.g.starts
  BY DEF States, GivenStates
<1>5. t.p.connection = s.p.connection /\ t.p.encoding = s.p.encoding /\ t.p.service = "text" /\ t.p.auto = s.p.auto
  BY DEF States, PendingStates
<1> HIDE DEF t
<1>a. Held(t) BY <1>2, <1>3, <1>4, <1>5, <1>0, RuntimeAssumption DEF Sound, Held
<1>b. Owed(t) BY <1>2, <1>3, <1>4, <1>5, <1>0, RuntimeAssumption DEF Sound, Owed, Serving, Active
<1>c. Apart(t) BY <1>2, <1>3, <1>4, <1>5, <1>0, RuntimeAssumption DEF Sound, Apart, Serving, Active, Exclusive
<1>d. Idle(t) BY <1>2, <1>3, <1>4, <1>5, <1>0, RuntimeAssumption DEF Sound, Idle
<1>e. Counted(t) BY <1>2, <1>3, <1>4, <1>5, <1>0, RuntimeAssumption DEF Sound, Counted
<1>f. Carried(t) BY <1>2, <1>3, <1>4, <1>5, <1>0, RuntimeAssumption DEF Sound, Carried
<1>g. Left(t, w) BY <1>2, <1>3, <1>4, <1>5, <1>0, RuntimeAssumption DEF Sound, Left
<1> QED BY <1>a, <1>b, <1>c, <1>d, <1>e, <1>f, <1>g, <1>1 DEF Sound, t

\* A transfer is accepted.
LEMMA StartTransferSound ==
  ASSUME NEW s \in States, NEW w, Sound(s, w), ~Exclusive(s), s.p.encoding = Unset, s.c.phase = "connected", s.c.busy = Unset
  PROVE  LET t == [s EXCEPT !.c.busy = "reserved", !.r.stop = FALSE, !.g.owed = @ + 1, !.p.service = "transfer", !.f = TRUE] IN t \in States /\ Sound(t, w)
<1> DEFINE t == [s EXCEPT !.c.busy = "reserved", !.r.stop = FALSE, !.g.owed = @ + 1, !.p.service = "transfer", !.f = TRUE]
<1>0. s.g.owed = 0 /\ s.g.owed + 1 \in Nat /\ s.r.service = Unset /\ ~s.r.break /\ s.r.encoding = Unset
      /\ s.p.service = Unset /\ ~s.p.auto /\ s.p.encoding = Unset /\ s.p.connection = Unset
  BY DEF Sound, Owed, Carried, Exclusive, Serving, Active
<1>1. t \in States
  <2>1. [s.c EXCEPT !.busy = "reserved"] \in ConnectionStates
    BY <1>0 DEF States, ConnectionStates
  <2>2. [s.r EXCEPT !.stop = FALSE] \in RunningStates
    BY <1>0 DEF States, RunningStates
  <2>3. [s.g EXCEPT !.owed = @ + 1] \in GivenStates
    BY <1>0 DEF States, GivenStates
  <2>4. [s.p EXCEPT !.service = "transfer"] \in PendingStates
    BY <1>0 DEF States, PendingStates
  <2>5. t = [s EXCEPT !.c = [s.c EXCEPT !.busy = "reserved"], !.r = [s.r EXCEPT !.stop = FALSE], !.g = [s.g EXCEPT !.owed = @ + 1], !.p = [s.p EXCEPT !.service = "transfer"], !.f = TRUE]
    BY DEF States
  <2> HIDE DEF t
  <2> QED BY <2>1, <2>2, <2>3, <2>4, <2>5 DEF States
<1>2. t.v = s.v
  BY DEF States
<1>3. t.c.phase = s.c.phase /\ t.c.busy = "reserved" /\ t.c.changing = s.c.changing /\ t.c.encoding = s.c.encoding
  BY DEF States, ConnectionStates
<1>4. t.r.service = s.r.service /\ t.r.encoding = s.r.encoding /\ t.r.break = s.r.break /\ t.r.watch = s.r.watch
  BY DEF States, RunningStates
<1>5. t.g.encoding = s.g.encoding /\ t.g.owed = s.g.owed + 1 /\ t.g.starts = s.g.starts
  BY DEF States, GivenStates
<1>6. t.p.connection = s.p.connection /\ t.p.encoding = s.p.encoding /\ t.p.service = "transfer" /\ t.p.auto = s.p.auto
  BY DEF States, PendingStates
<1> HIDE DEF t
<1>a. Held(t) BY <1>2, <1>3, <1>4, <1>5, <1>6, <1>0, RuntimeAssumption DEF Sound, Held
<1>b. Owed(t) BY <1>2, <1>3, <1>4, <1>5, <1>6, <1>0, RuntimeAssumption DEF Sound, Owed, Serving, Active
<1>c. Apart(t) BY <1>2, <1>3, <1>4, <1>5, <1>6, <1>0, RuntimeAssumption DEF Sound, Apart, Serving, Active, Exclusive
<1>d. Idle(t) BY <1>2, <1>3, <1>4, <1>5, <1>6, <1>0, RuntimeAssumption DEF Sound, Idle
<1>e. Counted(t) BY <1>2, <1>3, <1>4, <1>5, <1>6, <1>0, RuntimeAssumption DEF Sound, Counted
<1>f. Carried(t) BY <1>2, <1>3, <1>4, <1>5, <1>6, <1>0, RuntimeAssumption DEF Sound, Carried
<1>g. Left(t, w) BY <1>2, <1>3, <1>4, <1>5, <1>6, <1>0, RuntimeAssumption DEF Sound, Left
<1> QED BY <1>a, <1>b, <1>c, <1>d, <1>e, <1>f, <1>g, <1>1 DEF Sound, t

\* A transfer of the peer is accepted.
LEMMA AutoStartSound ==
  ASSUME NEW s \in States, NEW w, Sound(s, w), ~Exclusive(s), s.p.encoding = Unset, s.c.phase = "connected", s.c.busy = Unset
  PROVE  LET t == [s EXCEPT !.c.busy = "reserved", !.r.stop = FALSE, !.g.owed = @ + 1, !.p.auto = TRUE, !.f = TRUE] IN t \in States /\ Sound(t, w)
<1> DEFINE t == [s EXCEPT !.c.busy = "reserved", !.r.stop = FALSE, !.g.owed = @ + 1, !.p.auto = TRUE, !.f = TRUE]
<1>0. s.g.owed = 0 /\ s.g.owed + 1 \in Nat /\ s.r.service = Unset /\ ~s.r.break /\ s.r.encoding = Unset
      /\ s.p.service = Unset /\ ~s.p.auto /\ s.p.encoding = Unset /\ s.p.connection = Unset
  BY DEF Sound, Owed, Carried, Exclusive, Serving, Active
<1>1. t \in States
  <2>1. [s.c EXCEPT !.busy = "reserved"] \in ConnectionStates
    BY <1>0 DEF States, ConnectionStates
  <2>2. [s.r EXCEPT !.stop = FALSE] \in RunningStates
    BY <1>0 DEF States, RunningStates
  <2>3. [s.g EXCEPT !.owed = @ + 1] \in GivenStates
    BY <1>0 DEF States, GivenStates
  <2>4. [s.p EXCEPT !.auto = TRUE] \in PendingStates
    BY <1>0 DEF States, PendingStates
  <2>5. t = [s EXCEPT !.c = [s.c EXCEPT !.busy = "reserved"], !.r = [s.r EXCEPT !.stop = FALSE], !.g = [s.g EXCEPT !.owed = @ + 1], !.p = [s.p EXCEPT !.auto = TRUE], !.f = TRUE]
    BY DEF States
  <2> HIDE DEF t
  <2> QED BY <2>1, <2>2, <2>3, <2>4, <2>5 DEF States
<1>2. t.v = s.v
  BY DEF States
<1>3. t.c.phase = s.c.phase /\ t.c.busy = "reserved" /\ t.c.changing = s.c.changing /\ t.c.encoding = s.c.encoding
  BY DEF States, ConnectionStates
<1>4. t.r.service = s.r.service /\ t.r.encoding = s.r.encoding /\ t.r.break = s.r.break /\ t.r.watch = s.r.watch
  BY DEF States, RunningStates
<1>5. t.g.encoding = s.g.encoding /\ t.g.owed = s.g.owed + 1 /\ t.g.starts = s.g.starts
  BY DEF States, GivenStates
<1>6. t.p.connection = s.p.connection /\ t.p.encoding = s.p.encoding /\ t.p.service = s.p.service /\ t.p.auto
  BY DEF States, PendingStates
<1> HIDE DEF t
<1>a. Held(t) BY <1>2, <1>3, <1>4, <1>5, <1>6, <1>0, RuntimeAssumption DEF Sound, Held
<1>b. Owed(t) BY <1>2, <1>3, <1>4, <1>5, <1>6, <1>0, RuntimeAssumption DEF Sound, Owed, Serving, Active
<1>c. Apart(t) BY <1>2, <1>3, <1>4, <1>5, <1>6, <1>0, RuntimeAssumption DEF Sound, Apart, Serving, Active, Exclusive
<1>d. Idle(t) BY <1>2, <1>3, <1>4, <1>5, <1>6, <1>0, RuntimeAssumption DEF Sound, Idle
<1>e. Counted(t) BY <1>2, <1>3, <1>4, <1>5, <1>6, <1>0, RuntimeAssumption DEF Sound, Counted
<1>f. Carried(t) BY <1>2, <1>3, <1>4, <1>5, <1>6, <1>0, RuntimeAssumption DEF Sound, Carried
<1>g. Left(t, w) BY <1>2, <1>3, <1>4, <1>5, <1>6, <1>0, RuntimeAssumption DEF Sound, Left
<1> QED BY <1>a, <1>b, <1>c, <1>d, <1>e, <1>f, <1>g, <1>1 DEF Sound, t

\* A BREAK is accepted.
LEMMA SendBreakSound ==
  ASSUME NEW s \in States, NEW w, Sound(s, w), ~Exclusive(s), s.p.encoding = Unset, s.c.phase = "connected", s.c.busy = Unset
  PROVE  LET t == [s EXCEPT !.r.break = TRUE, !.c.busy = "break", !.f = TRUE] IN t \in States /\ Sound(t, w)
<1> DEFINE t == [s EXCEPT !.r.break = TRUE, !.c.busy = "break", !.f = TRUE]
<1>0. s.g.owed = 0 /\ s.g.owed + 1 \in Nat /\ s.r.service = Unset /\ ~s.r.break /\ s.r.encoding = Unset
      /\ s.p.service = Unset /\ ~s.p.auto /\ s.p.encoding = Unset /\ s.p.connection = Unset
  BY DEF Sound, Owed, Carried, Exclusive, Serving, Active
<1>1. t \in States
  BY DEF States, RunningStates, ConnectionStates
<1>2. t.p = s.p /\ t.v = s.v /\ t.g = s.g
  BY DEF States
<1>3. t.r.service = s.r.service /\ t.r.encoding = s.r.encoding /\ t.r.break /\ t.r.watch = s.r.watch
  BY DEF States, RunningStates
<1>4. t.c.phase = s.c.phase /\ t.c.busy = "break" /\ t.c.changing = s.c.changing /\ t.c.encoding = s.c.encoding
  BY DEF States, ConnectionStates
<1> HIDE DEF t
<1>a. Held(t) BY <1>2, <1>3, <1>4, <1>0, RuntimeAssumption DEF Sound, Held
<1>b. Owed(t) BY <1>2, <1>3, <1>4, <1>0, RuntimeAssumption DEF Sound, Owed, Serving, Active
<1>c. Apart(t) BY <1>2, <1>3, <1>4, <1>0, RuntimeAssumption DEF Sound, Apart, Serving, Active, Exclusive
<1>d. Idle(t) BY <1>2, <1>3, <1>4, <1>0, RuntimeAssumption DEF Sound, Idle
<1>e. Counted(t) BY <1>2, <1>3, <1>4, <1>0, RuntimeAssumption DEF Sound, Counted
<1>f. Carried(t) BY <1>2, <1>3, <1>4, <1>0, RuntimeAssumption DEF Sound, Carried
<1>g. Left(t, w) BY <1>2, <1>3, <1>4, <1>0, RuntimeAssumption DEF Sound, Left
<1> QED BY <1>a, <1>b, <1>c, <1>d, <1>e, <1>f, <1>g, <1>1 DEF Sound, t

\* A change of the encoding is accepted.
LEMMA AskEncodingSound ==
  ASSUME NEW s \in States, NEW w, Sound(s, w), ~Exclusive(s), s.c.phase \in {"starting", "connected"}, NEW e \in Encodings
  PROVE  LET t == [s EXCEPT !.p.encoding = e, !.f = TRUE] IN t \in States /\ Sound(t, w)
<1> DEFINE t == [s EXCEPT !.p.encoding = e, !.f = TRUE]
<1>1. t \in States
  BY DEF States, PendingStates
<1>2. t.c = s.c /\ t.v = s.v /\ t.r = s.r /\ t.g = s.g
  BY DEF States
<1>3. t.p.connection = s.p.connection /\ t.p.encoding = e /\ t.p.service = s.p.service /\ t.p.auto = s.p.auto
  BY DEF States, PendingStates
<1> HIDE DEF t
<1>a. Held(t) BY <1>2, <1>3, RuntimeAssumption DEF Sound, Held
<1>b. Owed(t) BY <1>2, <1>3, RuntimeAssumption DEF Sound, Owed, Serving, Active
<1>c. Apart(t) BY <1>2, <1>3, RuntimeAssumption DEF Sound, Apart, Serving, Active, Exclusive
<1>d. Idle(t) BY <1>2, <1>3, RuntimeAssumption DEF Sound, Idle
<1>e. Counted(t) BY <1>2, <1>3, RuntimeAssumption DEF Sound, Counted
<1>f. Carried(t) BY <1>2, <1>3, RuntimeAssumption DEF Sound, Carried
<1>g. Left(t, w) BY <1>2, <1>3, RuntimeAssumption DEF Sound, Left
<1> QED BY <1>a, <1>b, <1>c, <1>d, <1>e, <1>f, <1>g, <1>1 DEF Sound, t

\* A connection that is not there yet changes its encoding.
LEMMA StoreEncodingSound ==
  ASSUME NEW s \in States, NEW w, Sound(s, w), NEW e \in Encodings,
         NEW q \in {Unset} \cup Connections, NEW d \in {Unset} \cup Connections,
         ~Exclusive(s), s.c.phase \notin {"starting", "connected"}, (q = Unset) = (s.p.connection = Unset), q # Unset => q.encoding = e, (d = Unset) = (s.v.request = Unset), d # Unset => d.encoding = e
  PROVE  LET t == [s EXCEPT !.p.connection = q, !.v.request = d, !.g.encoding = e] IN t \in States /\ Sound(t, w)
<1> DEFINE t == [s EXCEPT !.p.connection = q, !.v.request = d, !.g.encoding = e]
<1>1. t \in States
  <2>1. [s.p EXCEPT !.connection = q] \in PendingStates
    BY DEF States, PendingStates
  <2>2. [s.v EXCEPT !.request = d] \in RecoveryStates
    BY DEF States, RecoveryStates
  <2>3. [s.g EXCEPT !.encoding = e] \in GivenStates
    BY DEF States, GivenStates
  <2>4. t = [s EXCEPT !.p = [s.p EXCEPT !.connection = q], !.v = [s.v EXCEPT !.request = d], !.g = [s.g EXCEPT !.encoding = e]]
    BY DEF States
  <2> HIDE DEF t
  <2> QED BY <2>1, <2>2, <2>3, <2>4 DEF States
<1>2. t.c = s.c /\ t.r = s.r
  BY DEF States
<1>3. t.p.connection = q /\ t.p.encoding = s.p.encoding /\ t.p.service = s.p.service /\ t.p.auto = s.p.auto
  BY DEF States, PendingStates
<1>4. t.v.request = d /\ t.v.returned = s.v.returned
  BY DEF States, RecoveryStates
<1>5. t.g.encoding = e /\ t.g.owed = s.g.owed /\ t.g.starts = s.g.starts
  BY DEF States, GivenStates
<1> HIDE DEF t
<1>a. Held(t) BY <1>2, <1>3, <1>4, <1>5, RuntimeAssumption DEF Sound, Held
<1>b. Owed(t) BY <1>2, <1>3, <1>4, <1>5, RuntimeAssumption DEF Sound, Owed, Serving, Active
<1>c. Apart(t) BY <1>2, <1>3, <1>4, <1>5, RuntimeAssumption DEF Sound, Apart, Serving, Active, Exclusive
<1>d. Idle(t) BY <1>2, <1>3, <1>4, <1>5, RuntimeAssumption DEF Sound, Idle
<1>e. Counted(t) BY <1>2, <1>3, <1>4, <1>5, RuntimeAssumption DEF Sound, Counted
<1>f. Carried(t) BY <1>2, <1>3, <1>4, <1>5, RuntimeAssumption DEF Sound, Carried
<1>g. Left(t, w) BY <1>2, <1>3, <1>4, <1>5, RuntimeAssumption DEF Sound, Left
<1> QED BY <1>a, <1>b, <1>c, <1>d, <1>e, <1>f, <1>g, <1>1 DEF Sound, t

\* A connection is asked for.
LEMMA WantsSound ==
  ASSUME NEW s \in States, NEW w, Sound(s, w), ~Exclusive(s), s.c.phase \notin {"starting", "connected"}, s.g.starts < MaxStarts, w = "open", s.v.request = Unset, NEW q \in Connections
  PROVE  LET t == [s EXCEPT !.p.connection = q, !.p.again = FALSE, !.g.encoding = q.encoding, !.f = TRUE] IN t \in States /\ Sound(t, w)
<1> DEFINE t == [s EXCEPT !.p.connection = q, !.p.again = FALSE, !.g.encoding = q.encoding, !.f = TRUE]
<1>0. q.encoding \in Encodings
  BY DEF Connections
<1>1. t \in States
  BY <1>0 DEF States, PendingStates, GivenStates
<1>2. t.c = s.c /\ t.v = s.v /\ t.r = s.r
  BY DEF States
<1>3. t.p.connection = q /\ t.p.encoding = s.p.encoding /\ t.p.service = s.p.service /\ t.p.auto = s.p.auto
  BY DEF States, PendingStates
<1>4. t.g.encoding = q.encoding /\ t.g.owed = s.g.owed /\ t.g.starts = s.g.starts
  BY DEF States, GivenStates
<1> HIDE DEF t
<1>a. Held(t) BY <1>2, <1>3, <1>4, <1>0, RuntimeAssumption DEF Sound, Held
<1>b. Owed(t) BY <1>2, <1>3, <1>4, <1>0, RuntimeAssumption DEF Sound, Owed, Serving, Active
<1>c. Apart(t) BY <1>2, <1>3, <1>4, <1>0, RuntimeAssumption DEF Sound, Apart, Serving, Active, Exclusive
<1>d. Idle(t) BY <1>2, <1>3, <1>4, <1>0, RuntimeAssumption DEF Sound, Idle
<1>e. Counted(t) BY <1>2, <1>3, <1>4, <1>0, RuntimeAssumption DEF Sound, Counted
<1>f. Carried(t) BY <1>2, <1>3, <1>4, <1>0, RuntimeAssumption DEF Sound, Carried
<1>g. Left(t, w) BY <1>2, <1>3, <1>4, <1>0, RuntimeAssumption DEF Sound, Left
<1> QED BY <1>a, <1>b, <1>c, <1>d, <1>e, <1>f, <1>g, <1>1 DEF Sound, t

\* A service that ran is finished.
LEMMA ReturnedSound ==
  ASSUME NEW s \in States, NEW w, Sound(s, w), s.r.service \in {"text", "transfer"}, s.c.busy # s.r.service
  PROVE  LET t == Finish(s) IN t \in States /\ Sound(t, w) /\ t.f
<1> DEFINE t == Finish(s)
<1>1. s.g.owed = 1 /\ s.p.service = Unset /\ ~s.p.auto /\ ~s.r.break /\ s.r.encoding = Unset
  BY RuntimeAssumption DEF Sound, Owed, Apart, Serving, Active
<1>2. t = [s EXCEPT !.r.service = Unset, !.g.owed = 0, !.f = TRUE]
  BY <1>1, 1 - 1 = 0 DEF Finish, States, RunningStates, GivenStates
<1> HIDE DEF t
<1>3. t \in States
  BY <1>2 DEF States, RunningStates, GivenStates
<1>4. t.c = s.c /\ t.p = s.p /\ t.v = s.v /\ t.f
  BY <1>2 DEF States
<1>5. t.r.service = Unset /\ t.r.encoding = s.r.encoding /\ t.r.break = s.r.break /\ t.r.watch = s.r.watch
  BY <1>2 DEF States, RunningStates
<1>6. t.g.owed = 0 /\ t.g.encoding = s.g.encoding /\ t.g.starts = s.g.starts
  BY <1>2 DEF States, GivenStates
<1>a. Held(t) BY <1>1, <1>4, <1>5, <1>6, RuntimeAssumption DEF Sound, Held
<1>b. Owed(t) BY <1>1, <1>4, <1>5, <1>6, RuntimeAssumption DEF Sound, Owed, Serving, Active
<1>c. Apart(t) BY <1>1, <1>4, <1>5, <1>6, RuntimeAssumption DEF Sound, Apart, Serving, Active, Exclusive
<1>d. Idle(t) BY <1>1, <1>4, <1>5, <1>6, RuntimeAssumption DEF Sound, Idle
<1>e. Counted(t) BY <1>1, <1>4, <1>5, <1>6, RuntimeAssumption DEF Sound, Counted
<1>f. Carried(t) BY <1>1, <1>4, <1>5, <1>6, RuntimeAssumption DEF Sound, Carried
<1>g. Left(t, w) BY <1>1, <1>4, <1>5, <1>6, RuntimeAssumption DEF Sound, Left
<1> QED BY <1>a, <1>b, <1>c, <1>d, <1>e, <1>f, <1>g, <1>3, <1>4 DEF Sound, t


\* A step of the code that asks for a frame keeps the invariant when its state is sound.
LEMMA KeepsAsked ==
  ASSUME RuntimeParts, NEW t, t \in States, Becomes(t), window' = window, Sound(t, window), t.f
  PROVE  RuntimeParts'
<1>1. Now' = t
  BY NowBecomes
<1>2. Framed(t, window)
  BY DEF Framed
<1> QED BY <1>1, <1>2 DEF RuntimeParts

\* So does one that leaves the frame as it is and what is calm calm.
LEMMA KeepsUnasked ==
  ASSUME RuntimeParts, NEW t, t \in States, Becomes(t), window' = window, Sound(t, window),
         t.f = Now.f, t.i = Now.i, Calm(Now) => Calm(t)
  PROVE  RuntimeParts'
<1>1. Now' = t
  BY NowBecomes
<1>2. Framed(t, window)
  BY DEF RuntimeParts, Framed
<1> QED BY <1>1, <1>2 DEF RuntimeParts

\* What differs only in what the policy does not ask stays calm.
LEMMA CalmStays ==
  ASSUME NEW s \in States, NEW t \in States, Calm(s), t.h = s.h, t.i = s.i,
         t.c.phase = s.c.phase, t.c.carrier = s.c.carrier, t.c.losses = s.c.losses,
         t.c.ended = s.c.ended, t.c.cancelled = s.c.cancelled,
         (t.p.connection = Unset) = (s.p.connection = Unset), t.p.again = s.p.again,
         t.p.encoding = s.p.encoding, t.p.auto => s.p.auto, t.p.service \in {s.p.service, Unset},
         (t.v.request = Unset) = (s.v.request = Unset), t.v.returned = s.v.returned,
         t.r.watch = s.r.watch, t.r.encoding = s.r.encoding, t.r.break = s.r.break,
         Serving(t) <=> Serving(s), NoneToCancel(s) => NoneToCancel(t),
         t.r.service = "selecting" => NoneToCancel(t) \/ s.r.service = "selecting" \/ s.p.auto
  PROVE  Calm(t)
<1>1. Interrupted(t) = Interrupted(s) /\ Ready(t.c) = Ready(s.c) /\ Drained(t) = Drained(s)
  BY DEF Interrupted, Ready, Drained
<1>2. Exclusive(t) <=> Exclusive(s)
  BY DEF Exclusive
<1>3. Enabled(t) = Enabled(s)
  BY <1>1 DEF Enabled
<1>4. Forgotten(t) /\ Withdrawn(t)
  BY <1>1 DEF Calm, Settled, Forgotten, Withdrawn
<1>5. Recovered(t)
  BY <1>2 DEF Calm, Settled, Recovered
<1>6. Allowed(t) /\ Started(t)
  BY <1>1, <1>3 DEF Calm, Settled, Allowed, Started
<1>7. Begun(t)
  BY <1>1 DEF Calm, Begun
<1> QED BY <1>1, <1>4, <1>5, <1>6, <1>7 DEF Calm, Settled

\* The variables are the fields of Now.
LEMMA NowFields ==
  /\ Now.c = connection /\ Now.p = pending /\ Now.r = running /\ Now.v = recovery
  /\ Now.i = input /\ Now.h = handled /\ Now.g = given /\ Now.f = scheduled
BY DEF Now

\* The connection opens.
LEMMA OpensKeeps ==
  ASSUME RuntimeParts, Opens
  PROVE  RuntimeParts'
<1>1. Now \in States /\ Sound(Now, window)
  BY DEF RuntimeParts
<1> DEFINE t == [Now EXCEPT !.c.phase = "connected", !.f = TRUE]
<1>2. Becomes(t) /\ window' = window /\ Now.c.phase = "starting"
  BY NowFields DEF Opens
<1>3. t \in States /\ Sound(t, window)
  BY <1>1, <1>2, OpensSound
<1>4. t.f
  BY <1>1 DEF States
<1> HIDE DEF t
<1> QED BY <1>2, <1>3, <1>4, KeepsAsked

\* The peer ends what it sends.
LEMMA ReceiveEndsKeeps ==
  ASSUME RuntimeParts, ReceiveEnds
  PROVE  RuntimeParts'
<1>1. Now \in States /\ Sound(Now, window)
  BY DEF RuntimeParts
<1> DEFINE t == [Now EXCEPT !.c.ended = TRUE, !.f = TRUE]
           u == [Now EXCEPT !.c.ended = TRUE, !.c.carrier = Now.c.carrier, !.c.losses = Now.c.losses, !.f = TRUE]
<1>2. Becomes(t) /\ window' = window
  BY DEF ReceiveEnds
<1>3. Now.c.carrier \in BOOLEAN /\ Now.c.losses \in 0..MaxLosses
  BY <1>1 DEF States, ConnectionStates
<1>4. u = t
  BY <1>1 DEF States, ConnectionStates
<1>5. u \in States /\ Sound(u, window)
  BY <1>1, <1>3, LosesSound
<1>6. t.f
  BY <1>1 DEF States
<1> HIDE DEF t, u
<1> QED BY <1>2, <1>4, <1>5, <1>6, KeepsAsked

\* The carrier drops or returns.
LEMMA CarrierKeeps ==
  ASSUME RuntimeParts, Carrier
  PROVE  RuntimeParts'
<1>1. Now \in States /\ Sound(Now, window)
  BY DEF RuntimeParts
<1> DEFINE l == IF connection.carrier THEN connection.losses + 1 ELSE connection.losses
           t == [Now EXCEPT !.c.carrier = ~@, !.c.losses = IF connection.carrier THEN @ + 1 ELSE @, !.f = TRUE]
           u == [Now EXCEPT !.c.ended = Now.c.ended, !.c.carrier = ~Now.c.carrier, !.c.losses = l, !.f = TRUE]
<1>2. Becomes(t) /\ window' = window
  BY DEF Carrier
<1>3. (~Now.c.carrier) \in BOOLEAN /\ Now.c.ended \in BOOLEAN /\ l \in 0..MaxLosses
  <2>1. Now.c.carrier \in BOOLEAN /\ Now.c.ended \in BOOLEAN /\ Now.c.losses \in 0..MaxLosses
    BY <1>1 DEF States, ConnectionStates
  <2>2. Now.c.carrier => Now.c.losses < MaxLosses
    BY NowFields DEF Carrier
  <2> QED BY <2>1, <2>2, NowFields, RuntimeAssumption
<1>4. u = t
  <2>1. /\ t = [Now EXCEPT !.c = [Now.c EXCEPT !.carrier = ~Now.c.carrier, !.losses = l], !.f = TRUE]
        /\ u = [Now EXCEPT !.c = [Now.c EXCEPT !.ended = Now.c.ended, !.carrier = ~Now.c.carrier, !.losses = l], !.f = TRUE]
    BY <1>1, NowFields DEF States, ConnectionStates
  <2>2. [Now.c EXCEPT !.ended = Now.c.ended] = Now.c
    BY <1>1 DEF States, ConnectionStates
  <2>3. [Now.c EXCEPT !.ended = Now.c.ended, !.carrier = ~Now.c.carrier, !.losses = l]
          = [Now.c EXCEPT !.carrier = ~Now.c.carrier, !.losses = l]
    <3> HIDE DEF l
    <3> QED BY <2>2
  <2> QED BY <2>1, <2>3
<1>5. u \in States /\ Sound(u, window)
  BY <1>1, <1>3, LosesSound
<1>6. t.f
  BY <1>1 DEF States
<1> HIDE DEF t, u
<1> QED BY <1>2, <1>4, <1>5, <1>6, KeepsAsked

\* The input or the output of the connection ends.
LEMMA IoStopsKeeps ==
  ASSUME RuntimeParts, IoStops
  PROVE  RuntimeParts'
<1>1. Now \in States /\ Sound(Now, window)
  BY DEF RuntimeParts
<1>2. CASE Becomes([Now EXCEPT !.c.live = FALSE])
  <2> DEFINE t == [Now EXCEPT !.c.live = FALSE]
  <2>1. t \in States
    BY <1>1 DEF States, ConnectionStates
  <2>2. t.p = Now.p /\ t.r = Now.r /\ t.v = Now.v /\ t.g = Now.g /\ t.i = Now.i /\ t.h = Now.h /\ t.f = Now.f
    BY <1>1 DEF States
  <2>3. /\ t.c.phase = Now.c.phase /\ t.c.busy = Now.c.busy /\ t.c.changing = Now.c.changing
        /\ t.c.encoding = Now.c.encoding /\ t.c.carrier = Now.c.carrier /\ t.c.losses = Now.c.losses
        /\ t.c.ended = Now.c.ended /\ t.c.cancelled = Now.c.cancelled
    BY <1>1 DEF States, ConnectionStates
  <2> HIDE DEF t
  <2>4. Sound(t, window)
    BY <1>1, <2>2, <2>3 DEF Sound, Held, Owed, Apart, Idle, Counted, Carried, Left, Serving, Active, Exclusive
  <2>5. Calm(Now) => Calm(t)
    BY <1>1, <2>1, <2>2, <2>3, CalmStays DEF Serving, Active, NoneToCancel
  <2>6. Becomes(t) /\ window' = window
    BY <1>2 DEF IoStops, t
  <2> QED BY <2>1, <2>2, <2>4, <2>5, <2>6, KeepsUnasked
<1>3. CASE /\ connection.phase = "connected"
           /\ Becomes([Now EXCEPT !.c.live = FALSE, !.c.phase = "stopping", !.f = TRUE])
  <2> DEFINE t == [Now EXCEPT !.c.live = FALSE, !.c.phase = "stopping", !.f = TRUE]
  <2>1. t \in States /\ Sound(t, window)
    BY <1>1, <1>3, NowFields, IoStopsSound
  <2>2. t.f
    BY <1>1 DEF States
  <2>3. Becomes(t) /\ window' = window
    BY <1>3 DEF IoStops
  <2> HIDE DEF t
  <2> QED BY <2>1, <2>2, <2>3, KeepsAsked
<1> QED BY <1>2, <1>3 DEF IoStops

\* The connection closes.
LEMMA ConnectionClosesKeeps ==
  ASSUME RuntimeParts, ConnectionCloses
  PROVE  RuntimeParts'
<1>1. Now \in States /\ Sound(Now, window)
  BY DEF RuntimeParts
<1> DEFINE t == [Now EXCEPT !.c.phase = "closed", !.f = TRUE]
<1>2. Becomes(t) /\ window' = window /\ Now.c.busy = Unset /\ ~Now.c.changing
      /\ Now.c.phase \in {"starting", "connected", "stopping"}
  BY NowFields DEF ConnectionCloses
<1>3. t \in States /\ Sound(t, window)
  BY <1>1, <1>2, ClosesSound
<1>4. t.f
  BY <1>1 DEF States
<1> HIDE DEF t
<1> QED BY <1>2, <1>3, <1>4, KeepsAsked

\* The connection is done with what it served.
LEMMA ServedKeeps ==
  ASSUME RuntimeParts, Served
  PROVE  RuntimeParts'
<1>1. Now \in States /\ Sound(Now, window)
  BY DEF RuntimeParts
<1> DEFINE t == [Now EXCEPT !.c.busy = Unset, !.f = TRUE]
<1>2. Becomes(t) /\ window' = window /\ Now.c.busy \in {"text", "transfer", "break"}
  BY NowFields DEF Served
<1>3. t \in States /\ Sound(t, window)
  BY <1>1, <1>2, ServedSound
<1>4. t.f
  BY <1>1 DEF States
<1> HIDE DEF t
<1> QED BY <1>2, <1>3, <1>4, KeepsAsked

\* The exchange of an encoding is over.
LEMMA ExchangedKeeps ==
  ASSUME RuntimeParts, Exchanged
  PROVE  RuntimeParts'
<1>1. Now \in States /\ Sound(Now, window)
  BY DEF RuntimeParts
<1>2. PICK changed \in {FALSE} \cup {connection.live /\ connection.carrier} :
        Becomes([Now EXCEPT !.c.changing = FALSE, !.f = TRUE,
                            !.c.encoding = IF changed THEN running.encoding ELSE @])
  BY DEF Exchanged
<1> DEFINE e == IF changed THEN running.encoding ELSE Now.c.encoding
           t == [Now EXCEPT !.c.changing = FALSE, !.c.encoding = e, !.f = TRUE]
<1>3. e \in {Now.c.encoding, Now.r.encoding} /\ Now.c.changing /\ window' = window
  BY NowFields DEF Exchanged
<1>4. t \in States /\ Sound(t, window)
  BY <1>1, <1>3, ExchangedSound
<1>5. t = [Now EXCEPT !.c.changing = FALSE, !.f = TRUE, !.c.encoding = IF changed THEN running.encoding ELSE @]
  BY <1>1 DEF States, ConnectionStates
<1>6. t.f
  BY <1>1 DEF States
<1> HIDE DEF t
<1> QED BY <1>2, <1>3, <1>4, <1>5, <1>6, KeepsAsked

\* A coroutine returns.
LEMMA ReturnsKeeps ==
  ASSUME RuntimeParts, Returns
  PROVE  RuntimeParts'
<1>1. Now \in States /\ Sound(Now, window)
  BY DEF RuntimeParts
<1>2. CASE running.service \in {"text", "transfer"} /\ connection.busy # running.service /\ Becomes(Finish(Now))
  <2> DEFINE t == Finish(Now)
  <2>1. Now.r.service \in {"text", "transfer"} /\ Now.c.busy # Now.r.service
    BY <1>2, NowFields
  <2>2. t \in States /\ Sound(t, window) /\ t.f
    BY <1>1, <2>1, ReturnedSound
  <2> HIDE DEF t
  <2> QED BY <1>2, <2>2, KeepsAsked DEF t, Returns
<1>3. CASE /\ running.encoding # Unset /\ ~connection.changing
           /\ Becomes(EncodingReturns(Now, running.encoding, connection.encoding = running.encoding))
  <2> DEFINE e == running.encoding
             t == EncodingReturns(Now, e, connection.encoding = e)
  <2>1. /\ e = Now.r.encoding /\ e # Unset /\ ~Now.c.changing /\ e \in Encodings
        /\ Now.p.encoding = Unset /\ Now.p.connection = Unset
    BY <1>1, <1>3, NowFields DEF Sound, Apart, Exclusive, States, RunningStates
  <2>2. t.f
    BY <1>1 DEF EncodingReturns, States
  <2>3. [Now EXCEPT !.p.encoding = Unset] = Now
    BY <1>1, <2>1 DEF States, PendingStates
  <2>4. CASE connection.encoding = e
    <3>1. [Now EXCEPT !.p.encoding = Unset, !.c.encoding = e] = Now
      <4>1. [Now.p EXCEPT !.encoding = Unset] = Now.p
        BY <1>1, <2>1 DEF States, PendingStates
      <4>2. [Now.c EXCEPT !.encoding = e] = Now.c
        BY <1>1, <2>4, NowFields DEF States, ConnectionStates
      <4>3. [Now EXCEPT !.p.encoding = Unset, !.c.encoding = e]
              = [Now EXCEPT !.p = [Now.p EXCEPT !.encoding = Unset], !.c = [Now.c EXCEPT !.encoding = e]]
        BY <1>1 DEF States
      <4>4. [Now EXCEPT !.p = Now.p, !.c = Now.c] = Now
        BY <1>1 DEF States
      <4> HIDE DEF e
      <4> QED BY <4>1, <4>2, <4>3, <4>4
    <3>2. LET x == EncodingReturns([Now EXCEPT !.p.encoding = Unset, !.c.encoding = e], e, TRUE)
          IN  x \in States /\ Sound(x, window)
      BY <1>1, <2>1, ToldSound
    <3>3. t = EncodingReturns(Now, e, TRUE)
      BY <2>4 DEF EncodingReturns
    <3> HIDE DEF t, e
    <3> QED BY <1>3, <2>2, <3>1, <3>2, <3>3, KeepsAsked DEF t, e, Returns
  <2>5. CASE connection.encoding # e
    <3>1. LET x == EncodingReturns([Now EXCEPT !.p.encoding = Unset], e, FALSE)
          IN  x \in States /\ Sound(x, window)
      BY <1>1, <2>1, <2>5, NowFields, RefusedSound
    <3>2. t = EncodingReturns(Now, e, FALSE)
      BY <2>5 DEF EncodingReturns
    <3> HIDE DEF t, e
    <3> QED BY <1>3, <2>2, <2>3, <3>1, <3>2, KeepsAsked DEF t, e, Returns
  <2> QED BY <2>4, <2>5
<1>4. CASE /\ running.break /\ connection.busy # "break"
           /\ Becomes([Now EXCEPT !.r.break = FALSE, !.f = TRUE])
  <2> DEFINE t == [Now EXCEPT !.r.break = FALSE, !.f = TRUE]
  <2>1. t \in States /\ Sound(t, window)
    BY <1>1, <1>4, NowFields, BreakReturnsSound
  <2>2. t.f
    BY <1>1 DEF States
  <2>3. Becomes(t) /\ window' = window
    BY <1>4 DEF Returns
  <2> HIDE DEF t
  <2> QED BY <2>1, <2>2, <2>3, KeepsAsked
<1> QED BY <1>2, <1>3, <1>4 DEF Returns

\* The user chose the files, or none.
LEMMA SelectedKeeps ==
  ASSUME RuntimeParts, Selected
  PROVE  RuntimeParts'
<1>1. Now \in States /\ Sound(Now, window)
  BY DEF RuntimeParts
<1>2. PICK files \in BOOLEAN : Becomes(Joins([Now EXCEPT !.r.stop = @ \/ ~files]))
  BY DEF Selected
<1> DEFINE stop == Now.r.stop \/ ~files
           t == Joins([Now EXCEPT !.r.stop = stop, !.p.auto = FALSE, !.p.service = Unset])
<1>3. /\ Now.r.service = "selecting" /\ window' = window /\ stop \in BOOLEAN
      /\ Now.p.auto = FALSE /\ Now.p.service = Unset
  BY <1>1, NowFields, RuntimeAssumption DEF Selected, Sound, Owed, Active, States, RunningStates, PendingStates
<1>4. t \in States /\ Sound(t, window)
  BY <1>1, <1>3, JoinsSound
<1>5. [Now EXCEPT !.r.stop = @ \/ ~files] = [Now EXCEPT !.r.stop = stop, !.p.auto = FALSE, !.p.service = Unset]
  <2>1. [Now EXCEPT !.r.stop = @ \/ ~files] = [Now EXCEPT !.r = [Now.r EXCEPT !.stop = stop]]
    BY <1>1 DEF States, RunningStates
  <2>2. [Now.p EXCEPT !.auto = FALSE, !.service = Unset] = Now.p
    BY <1>1, <1>3 DEF States, PendingStates
  <2> HIDE DEF stop
  <2>3. [Now EXCEPT !.r.stop = stop, !.p.auto = FALSE, !.p.service = Unset]
          = [Now EXCEPT !.r = [Now.r EXCEPT !.stop = stop], !.p = [Now.p EXCEPT !.auto = FALSE, !.service = Unset]]
    BY <1>1 DEF States, RunningStates, PendingStates
  <2>4. [Now EXCEPT !.r = [Now.r EXCEPT !.stop = stop], !.p = Now.p] = [Now EXCEPT !.r = [Now.r EXCEPT !.stop = stop]]
    BY <1>1 DEF States
  <2> QED BY <2>1, <2>2, <2>3, <2>4
<1> HIDE DEF stop
<1>6. t.p = Now.p
  <2>1. [Now.p EXCEPT !.auto = FALSE, !.service = Unset] = Now.p
    BY <1>1, <1>3 DEF States, PendingStates
  <2>2. t.p = [Now.p EXCEPT !.auto = FALSE, !.service = Unset]
    BY <1>1 DEF Joins, States, PendingStates
  <2> QED BY <2>1, <2>2
<1>7. t.v = Now.v /\ t.g = Now.g /\ t.i = Now.i /\ t.h = Now.h /\ t.f = Now.f
  BY <1>1 DEF Joins, States
<1>8. /\ t.r.service = "transfer" /\ t.r.encoding = Now.r.encoding /\ t.r.break = Now.r.break
      /\ t.r.watch = Now.r.watch /\ t.r.stop = stop
  BY <1>1 DEF Joins, States, RunningStates
<1>9. /\ t.c.phase = Now.c.phase /\ t.c.carrier = Now.c.carrier /\ t.c.losses = Now.c.losses
      /\ t.c.ended = Now.c.ended /\ t.c.cancelled = Now.c.cancelled
  BY <1>1 DEF Joins, States, ConnectionStates
<1>10. Becomes(t)
  BY <1>2, <1>5
<1> HIDE DEF t
<1>11. Calm(Now) => Calm(t)
  BY <1>1, <1>3, <1>4, <1>6, <1>7, <1>8, <1>9, RuntimeAssumption, CalmStays DEF Serving, Active, NoneToCancel, stop
<1> QED BY <1>3, <1>4, <1>7, <1>10, <1>11, KeepsUnasked

\* A device returns.
LEMMA DeviceReturnsKeeps ==
  ASSUME RuntimeParts, DeviceReturns
  PROVE  RuntimeParts'
<1>1. Now \in States /\ Sound(Now, window)
  BY DEF RuntimeParts
<1> DEFINE t == [Now EXCEPT !.v.returned = TRUE, !.f = TRUE]
<1>2. Becomes(t) /\ window' = window /\ Now.g.starts < MaxStarts
  BY NowFields DEF DeviceReturns
<1>3. t \in States /\ Sound(t, window)
  BY <1>1, <1>2, DeviceReturnsSound
<1>4. t.f
  BY <1>1 DEF States
<1> HIDE DEF t
<1> QED BY <1>2, <1>3, <1>4, KeepsAsked

\* A device is watched no longer.
LEMMA WatchEndsKeeps ==
  ASSUME RuntimeParts, WatchEnds
  PROVE  RuntimeParts'
<1>1. Now \in States /\ Sound(Now, window)
  BY DEF RuntimeParts
<1> DEFINE q == IF running.watch = "on" THEN Unset ELSE Now.v.request
           t == [Now EXCEPT !.r.watch = Unset, !.v.request = q, !.f = TRUE]
<1>2. /\ Becomes([Now EXCEPT !.r.watch = Unset, !.f = TRUE,
                             !.v.request = IF running.watch = "on" THEN Unset ELSE @])
      /\ window' = window /\ q \in {Unset, Now.v.request}
  BY DEF WatchEnds
<1>3. t \in States /\ Sound(t, window)
  BY <1>1, <1>2, WatchEndsSound
<1>4. t = [Now EXCEPT !.r.watch = Unset, !.f = TRUE, !.v.request = IF running.watch = "on" THEN Unset ELSE @]
  BY <1>1 DEF States, RecoveryStates
<1>5. t.f
  BY <1>1 DEF States
<1> HIDE DEF t
<1> QED BY <1>2, <1>3, <1>4, <1>5, KeepsAsked

\* The input is drained.
LEMMA DrainsKeeps ==
  ASSUME RuntimeParts, Drains
  PROVE  RuntimeParts'
<1>1. Now \in States /\ Sound(Now, window)
  BY DEF RuntimeParts
<1> DEFINE t == [Now EXCEPT !.i.state = "disabled", !.f = TRUE]
<1>2. t \in States /\ t.c = Now.c /\ t.p = Now.p /\ t.r = Now.r /\ t.v = Now.v /\ t.g = Now.g /\ t.f
  BY <1>1 DEF States, InputStates
<1>3. Becomes(t) /\ window' = window
  BY DEF Drains
<1> HIDE DEF t
<1>4. Sound(t, window)
  BY <1>1, <1>2, SameSound
<1> QED BY <1>2, <1>3, <1>4, KeepsAsked


\* Cancelling leaves a reservation to its transfer.
LEMMA CancelServes ==
  ASSUME NEW s \in States, Serving(s), ~CancelTransfer(s).f
  PROVE  LET t == CancelTransfer(s)
         IN  /\ Serving(t) /\ t.f = s.f /\ t.c.cancelled = s.c.cancelled /\ t.p.again = s.p.again
             /\ t.r.watch = s.r.watch /\ t.r.encoding = s.r.encoding /\ t.r.break = s.r.break
<1> DEFINE t == CancelTransfer(s)
           u == [s EXCEPT !.r.stop = TRUE, !.p.auto = FALSE, !.p.service = Unset]
<1>1. u \in States /\ u.c = s.c /\ u.f = s.f
  BY DEF States, RunningStates, PendingStates
<1>2. u.p.again = s.p.again /\ ~u.p.auto /\ u.p.service = Unset
  BY DEF States, PendingStates
<1>3. /\ u.r.service = s.r.service /\ u.r.watch = s.r.watch /\ u.r.encoding = s.r.encoding
      /\ u.r.break = s.r.break
  BY DEF States, RunningStates
<1>4. CASE s.p.auto
  <2>1. t = [u EXCEPT !.r.service = "selecting"]
    BY <1>4 DEF CancelTransfer
  <2> HIDE DEF t, u
  <2>2. t.c = u.c /\ t.p = u.p /\ t.f = u.f
    BY <1>1, <2>1 DEF States
  <2>3. t.r.service = "selecting" /\ t.r.watch = u.r.watch /\ t.r.encoding = u.r.encoding /\ t.r.break = u.r.break
    BY <1>1, <2>1 DEF States, RunningStates
  <2> QED BY <1>1, <1>2, <1>3, <2>2, <2>3, RuntimeAssumption DEF Serving, Active, t
<1>5. CASE ~s.p.auto /\ s.p.service = "transfer"
  <2>1. t = Joins(u)
    BY <1>5 DEF CancelTransfer
  <2> HIDE DEF t, u
  <2>2. t.p = u.p /\ t.f = u.f /\ t.c.cancelled = u.c.cancelled
    BY <1>1, <2>1 DEF States, ConnectionStates, Joins
  <2>3. t.r.service = "transfer" /\ t.r.watch = u.r.watch /\ t.r.encoding = u.r.encoding /\ t.r.break = u.r.break
    BY <1>1, <2>1 DEF States, RunningStates, Joins
  <2> QED BY <1>1, <1>2, <1>3, <2>2, <2>3, RuntimeAssumption DEF Serving, Active, t
<1>6. CASE ~s.p.auto /\ s.p.service = "text"
  <2>1. t = Finish(u)
    BY <1>6 DEF CancelTransfer
  <2> HIDE DEF u
  <2>2. Finish(u).f
    BY <1>1 DEF States, Finish
  <2> QED BY <2>1, <2>2
<1>7. CASE ~s.p.auto /\ s.p.service = Unset
  <2>1. t = u
    BY <1>7, RuntimeAssumption DEF CancelTransfer
  <2> HIDE DEF t, u
  <2> QED BY <1>1, <1>2, <1>3, <1>7, <2>1 DEF Serving, Active, t
<1>8. s.p.auto \in BOOLEAN /\ s.p.service \in {Unset, "text", "transfer"}
  BY DEF States, PendingStates
<1> QED BY <1>4, <1>5, <1>6, <1>7, <1>8


\* What stopping leaves as it is.
LEMMA StopEffects ==
  ASSUME NEW s \in States
  PROVE  LET t == Stop(s)
         IN  /\ t.c.phase \notin {"starting", "connected"}
             /\ t.p = s.p /\ t.r = s.r /\ t.v = s.v /\ t.i = s.i /\ t.g = s.g /\ t.h = s.h
<1>1. CASE s.c.phase \in {"idle", "closed"}
  BY <1>1 DEF Stop
<1>2. CASE s.c.phase \notin {"idle", "closed"}
  BY <1>2 DEF Stop, States, ConnectionStates
<1> QED BY <1>1, <1>2

\* What the end of a watch leaves as it is.
LEMMA UnwatchedEffects ==
  ASSUME NEW s \in States
  PROVE  LET t == Unwatched(s)
         IN  /\ t.v.request = Unset /\ t.c = s.c /\ t.p = s.p /\ t.i = s.i /\ t.g = s.g
             /\ t.r.service = s.r.service /\ t.r.encoding = s.r.encoding /\ t.r.break = s.r.break
<1>1. LET t == Unwatched(s) IN t.v.request = Unset /\ t.c = s.c /\ t.p = s.p /\ t.i = s.i /\ t.g = s.g
  BY DEF Unwatched, States, RecoveryStates
<1>2. LET t == Unwatched(s)
      IN  t.r.service = s.r.service /\ t.r.encoding = s.r.encoding /\ t.r.break = s.r.break
  BY DEF Unwatched, States, RunningStates
<1> QED BY <1>1, <1>2

\* The input may change.
LEMMA InputSound ==
  ASSUME NEW s \in States, NEW w, Sound(s, w), NEW i \in InputStates
  PROVE  LET t == [s EXCEPT !.i = i]
         IN  /\ t \in States /\ Sound(t, w)
             /\ t.c = s.c /\ t.p = s.p /\ t.r = s.r /\ t.v = s.v /\ t.g = s.g
<1> DEFINE t == [s EXCEPT !.i = i]
<1>1. t \in States /\ t.c = s.c /\ t.p = s.p /\ t.r = s.r /\ t.v = s.v /\ t.g = s.g
  BY DEF States
<1> HIDE DEF t
<1> QED BY <1>1, SameSound DEF t

\* A text is accepted.
LEMMA StartTextKeeps ==
  ASSUME RuntimeParts, StartText
  PROVE  RuntimeParts'
<1>1. Now \in States /\ Sound(Now, window)
  BY DEF RuntimeParts
<1> DEFINE t == [Now EXCEPT !.r.stop = FALSE, !.g.owed = @ + 1, !.p.service = "text", !.f = TRUE]
<1>2. Becomes([Now EXCEPT !.r.stop = FALSE, !.p.service = "text", !.g.owed = @ + 1, !.f = TRUE]) /\ window' = window /\ ~Exclusive(Now) /\ Now.p.encoding = Unset
      /\ Now.c.phase = "connected"
  BY NowFields DEF StartText, Accepts, Ready, Prepares
<1>3. t \in States /\ Sound(t, window)
  BY <1>1, <1>2, StartTextSound
<1>4. t = [Now EXCEPT !.r.stop = FALSE, !.p.service = "text", !.g.owed = @ + 1, !.f = TRUE]
  BY <1>1 DEF States
<1>5. t.f
  BY <1>1 DEF States
<1> HIDE DEF t
<1> QED BY <1>2, <1>3, <1>4, <1>5, KeepsAsked

\* A transfer is accepted.
LEMMA StartTransferKeeps ==
  ASSUME RuntimeParts, StartTransfer
  PROVE  RuntimeParts'
<1>1. Now \in States /\ Sound(Now, window)
  BY DEF RuntimeParts
<1> DEFINE t == [Now EXCEPT !.c.busy = "reserved", !.r.stop = FALSE, !.g.owed = @ + 1, !.p.service = "transfer", !.f = TRUE]
<1>2. Becomes([Reserved EXCEPT !.p.service = "transfer"]) /\ window' = window /\ ~Exclusive(Now) /\ Now.p.encoding = Unset
      /\ Now.c.phase = "connected" /\ Now.c.busy = Unset
  BY NowFields DEF StartTransfer, Accepts, Ready, Prepares
<1>3. t \in States /\ Sound(t, window)
  BY <1>1, <1>2, StartTransferSound
<1>4. t = [Reserved EXCEPT !.p.service = "transfer"]
  BY <1>1 DEF States, Reserved
<1>5. t.f
  BY <1>1 DEF States
<1> HIDE DEF t
<1> QED BY <1>2, <1>3, <1>4, <1>5, KeepsAsked

\* A transfer of the peer is accepted.
LEMMA AutoStartKeeps ==
  ASSUME RuntimeParts, AutoStart
  PROVE  RuntimeParts'
<1>1. Now \in States /\ Sound(Now, window)
  BY DEF RuntimeParts
<1> DEFINE t == [Now EXCEPT !.c.busy = "reserved", !.r.stop = FALSE, !.g.owed = @ + 1, !.p.auto = TRUE, !.f = TRUE]
<1>2. Becomes([Reserved EXCEPT !.p.auto = TRUE]) /\ window' = window /\ ~Exclusive(Now) /\ Now.p.encoding = Unset
      /\ Now.c.phase = "connected" /\ Now.c.busy = Unset
  BY NowFields DEF AutoStart, Accepts, Ready, Prepares
<1>3. t \in States /\ Sound(t, window)
  BY <1>1, <1>2, AutoStartSound
<1>4. t = [Reserved EXCEPT !.p.auto = TRUE]
  BY <1>1 DEF States, Reserved
<1>5. t.f
  BY <1>1 DEF States
<1> HIDE DEF t
<1> QED BY <1>2, <1>3, <1>4, <1>5, KeepsAsked

\* A BREAK is accepted.
LEMMA SendBreakKeeps ==
  ASSUME RuntimeParts, SendBreak
  PROVE  RuntimeParts'
<1>1. Now \in States /\ Sound(Now, window)
  BY DEF RuntimeParts
<1> DEFINE t == [Now EXCEPT !.r.break = TRUE, !.c.busy = "break", !.f = TRUE]
<1>2. Becomes([Now EXCEPT !.r.break = TRUE, !.c.busy = "break", !.f = TRUE]) /\ window' = window /\ ~Exclusive(Now) /\ Now.p.encoding = Unset
      /\ Now.c.phase = "connected" /\ Now.c.busy = Unset
  BY NowFields DEF SendBreak, Accepts, Ready, Prepares
<1>3. t \in States /\ Sound(t, window)
  BY <1>1, <1>2, SendBreakSound
<1>4. t = [Now EXCEPT !.r.break = TRUE, !.c.busy = "break", !.f = TRUE]
  OBVIOUS
<1>5. t.f
  BY <1>1 DEF States
<1> HIDE DEF t
<1> QED BY <1>2, <1>3, <1>4, <1>5, KeepsAsked

\* A change of the encoding is stored, or accepted.
LEMMA RequestEncodingKeeps ==
  ASSUME RuntimeParts, RequestEncoding
  PROVE  RuntimeParts'
<1>1. Now \in States /\ Sound(Now, window)
  BY DEF RuntimeParts
<1> DEFINE stored == pending.connection # Unset \/ (connection.phase = "closed" /\ recovery.request # Unset)
           With(request, e) == IF request = Unset THEN Unset ELSE [request EXCEPT !.encoding = e]
<1>2. PICK e \in Encodings :
        \/ stored /\ Becomes([Now EXCEPT !.p.connection = With(@, e), !.v.request = With(@, e), !.g.encoding = e])
        \/ /\ ~stored /\ (connection.phase = "starting" \/ Ready(connection))
           /\ Becomes([Now EXCEPT !.p.encoding = e, !.f = TRUE])
  BY DEF RequestEncoding
<1>3. ~Exclusive(Now) /\ window' = window
  BY DEF RequestEncoding
<1>4. CASE stored /\ Becomes([Now EXCEPT !.p.connection = With(@, e), !.v.request = With(@, e), !.g.encoding = e])
  <2> DEFINE q == With(Now.p.connection, e)
             d == With(Now.v.request, e)
             t == [Now EXCEPT !.p.connection = q, !.v.request = d, !.g.encoding = e]
  <2>1. /\ Now.p.connection \in {Unset} \cup Connections /\ Now.v.request \in {Unset} \cup Connections
    BY <1>1 DEF States, PendingStates, RecoveryStates
  <2>2. /\ q \in {Unset} \cup Connections /\ (q # Unset => q.encoding = e) /\ (q = Unset) = (Now.p.connection = Unset)
    BY <2>1, EncodedConnection
  <2>3. /\ d \in {Unset} \cup Connections /\ (d # Unset => d.encoding = e) /\ (d = Unset) = (Now.v.request = Unset)
    BY <2>1, EncodedConnection
  <2>4. Now.c.phase \notin {"starting", "connected"}
    BY <1>1, <1>4, NowFields DEF Sound, Carried
  <2>5. t = [Now EXCEPT !.p.connection = With(@, e), !.v.request = With(@, e), !.g.encoding = e]
    BY <1>1 DEF States, PendingStates, RecoveryStates
  <2>6. Becomes(t)
    BY <1>4, <2>5
  <2> HIDE DEF q, d
  <2>7. t \in States /\ Sound(t, window)
    BY <1>1, <1>3, <2>2, <2>3, <2>4, StoreEncodingSound
  <2>8. t.c = Now.c /\ t.r = Now.r /\ t.h = Now.h /\ t.i = Now.i /\ t.f = Now.f
    BY <1>1 DEF States
  <2>9. /\ t.p.connection = q /\ t.p.again = Now.p.again /\ t.p.encoding = Now.p.encoding
        /\ t.p.service = Now.p.service /\ t.p.auto = Now.p.auto
    BY <1>1 DEF States, PendingStates
  <2>10. t.v.request = d /\ t.v.returned = Now.v.returned
    BY <1>1 DEF States, RecoveryStates
  <2> HIDE DEF t
  <2>11. Calm(Now) => Calm(t)
    <3>1. Serving(t) <=> Serving(Now)
      BY <2>8, <2>9 DEF Serving, Active
    <3>2. NoneToCancel(Now) => NoneToCancel(t)
      BY <2>8, <2>9 DEF NoneToCancel
    <3> QED BY <1>1, <2>2, <2>3, <2>7, <2>8, <2>9, <2>10, <3>1, <3>2, CalmStays
  <2> QED BY <1>3, <2>6, <2>7, <2>8, <2>11, KeepsUnasked
<1>5. CASE /\ connection.phase = "starting" \/ Ready(connection)
           /\ Becomes([Now EXCEPT !.p.encoding = e, !.f = TRUE])
  <2> DEFINE t == [Now EXCEPT !.p.encoding = e, !.f = TRUE]
  <2>1. t \in States /\ Sound(t, window)
    BY <1>1, <1>3, <1>5, NowFields, AskEncodingSound DEF Ready
  <2>2. t.f
    BY <1>1 DEF States
  <2> HIDE DEF t
  <2> QED BY <1>3, <1>5, <2>1, <2>2, KeepsAsked DEF t
<1> QED BY <1>2, <1>4, <1>5

\* The user cancels what is served.
LEMMA UserCancelsKeeps ==
  ASSUME RuntimeParts, UserCancels
  PROVE  RuntimeParts'
<1>1. Now \in States /\ Sound(Now, window)
  BY DEF RuntimeParts
<1> DEFINE t == CancelTransfer(Now)
<1>2. Becomes(t) /\ window' = window
  BY DEF UserCancels
<1>3. t \in States /\ Sound(t, window)
  BY <1>1, CancelSound
<1>4. CASE t.f
  <2> HIDE DEF t
  <2> QED BY <1>2, <1>3, <1>4, KeepsAsked
<1>5. CASE ~t.f
  <2>1. /\ NoneToCancel(t) /\ t.h = Now.h /\ t.v = Now.v /\ t.i = Now.i
        /\ t.c.phase = Now.c.phase /\ t.c.carrier = Now.c.carrier /\ t.c.losses = Now.c.losses
        /\ t.c.ended = Now.c.ended /\ t.p.encoding = Now.p.encoding /\ t.p.connection = Now.p.connection
    BY <1>1, CancelEffects
  <2>2. Serving(t) /\ t.f = Now.f /\ t.c.cancelled = Now.c.cancelled /\ t.p.again = Now.p.again
        /\ t.r.watch = Now.r.watch /\ t.r.encoding = Now.r.encoding /\ t.r.break = Now.r.break
    BY <1>1, <1>5, CancelServes DEF UserCancels
  <2> HIDE DEF t
  <2>3. Calm(Now) => Calm(t)
    <3>1. Serving(t) <=> Serving(Now)
      BY <2>2 DEF UserCancels
    <3>2. ~t.p.auto /\ t.p.service = Unset
      BY <2>1 DEF NoneToCancel
    <3> QED BY <1>1, <1>3, <2>1, <2>2, <3>1, <3>2, CalmStays
  <2> QED BY <1>2, <1>3, <2>1, <2>2, <2>3, KeepsUnasked
<1> QED BY <1>4, <1>5

\* A connection is asked for.
LEMMA ConnectKeeps ==
  ASSUME RuntimeParts, Connect
  PROVE  RuntimeParts'
<1>1. Now \in States /\ Sound(Now, window)
  BY DEF RuntimeParts
<1> DEFINE i == [state |-> IF Now.i.failed THEN "enabled" ELSE Now.i.state, allowed |-> TRUE, failed |-> FALSE]
           a == [Now EXCEPT !.i = i]
           b == Stop(a)
           c == Unwatched(b)
<1>2. PICK watched \in Devices, e \in Encodings :
        Becomes(Asks(Unwatched(Stop([Now EXCEPT !.i = [state |-> IF @.failed THEN "enabled" ELSE @.state,
                                                       allowed |-> TRUE, failed |-> FALSE]])),
                     [watched |-> watched, encoding |-> e]))
  BY DEF Connect
<1>3. /\ window = "open" /\ window' = window /\ ~Exclusive(Now) /\ Now.p.connection = Unset
      /\ Now.g.starts < MaxStarts
  BY NowFields DEF Connect, CanConnect
<1> DEFINE q == [watched |-> watched, encoding |-> e]
<1>4. q \in Connections
  BY RuntimeAssumption DEF Connections
<1>5. i \in InputStates
  BY <1>1 DEF States, InputStates
<1>6. a = [Now EXCEPT !.i = [state |-> IF @.failed THEN "enabled" ELSE @.state, allowed |-> TRUE, failed |-> FALSE]]
  BY <1>1 DEF States
<1> HIDE DEF i
<1>7. a \in States /\ Sound(a, window) /\ a.c = Now.c /\ a.p = Now.p /\ a.r = Now.r /\ a.g = Now.g
  <2> HIDE DEF a
  <2> QED BY <1>1, <1>5, InputSound DEF a
<1>8. Becomes(Asks(c, q))
  BY <1>2, <1>6
<1> HIDE DEF a
<1>9. b \in States /\ Sound(b, window) /\ b.c.phase \notin {"starting", "connected"} /\ b.p = Now.p /\ b.r = Now.r /\ b.g = Now.g
  BY <1>7, StopSound, StopEffects
<1> HIDE DEF b
<1>10. /\ c \in States /\ Sound(c, window) /\ c.c = b.c /\ c.p = Now.p /\ c.g = Now.g /\ c.v.request = Unset
       /\ c.r.service = Now.r.service /\ c.r.encoding = Now.r.encoding /\ c.r.break = Now.r.break
  BY <1>9, UnwatchedSound, UnwatchedEffects
<1> HIDE DEF c
<1>11. ~Exclusive(c)
  BY <1>3, <1>10 DEF Exclusive, Serving, Active
<1> DEFINE t == [c EXCEPT !.p.connection = q, !.p.again = FALSE, !.g.encoding = q.encoding, !.f = TRUE]
<1> HIDE DEF q
<1>12. t \in States /\ Sound(t, window)
  BY <1>3, <1>4, <1>9, <1>10, <1>11, WantsSound
<1>13. t = Asks(c, q) /\ t.f
  BY <1>10 DEF Asks, Wants, States
<1> HIDE DEF t
<1> QED BY <1>3, <1>8, <1>12, <1>13, KeepsAsked

\* The window closes.
LEMMA DisconnectKeeps ==
  ASSUME RuntimeParts, Disconnect
  PROVE  RuntimeParts'
<1>1. Now \in States /\ Sound(Now, window)
  BY DEF RuntimeParts
<1> DEFINE a == [Now EXCEPT !.p.connection = Unset, !.p.encoding = Unset]
           b == Unwatched(a)
           c == CancelTransfer(b)
           d == [c EXCEPT !.i.allowed = FALSE]
           x == Stop(d)
<1>2. PICK state \in {"enabled", "draining", "disabled"} : Becomes([x EXCEPT !.i.state = state, !.f = TRUE])
  BY <1>1, NowFields DEF Disconnect, States, InputStates
<1>3. window = "open" /\ window' = "stopping"
  BY DEF Disconnect
<1>4. a \in States /\ Sound(a, window) /\ a.p.connection = Unset /\ a.p.encoding = Unset
  <2>1. a \in States /\ Sound(a, window)
    BY <1>1, ForgetsSound
  <2>2. a.p.connection = Unset /\ a.p.encoding = Unset
    BY <1>1 DEF States, PendingStates
  <2> QED BY <2>1, <2>2
<1> HIDE DEF a
<1>5. b \in States /\ Sound(b, window) /\ b.p = a.p /\ b.v.request = Unset
  BY <1>4, UnwatchedSound, UnwatchedEffects
<1> HIDE DEF b
<1>6. /\ c \in States /\ Sound(c, window) /\ c.p.connection = Unset /\ c.p.encoding = Unset
      /\ ~c.p.auto /\ c.p.service = Unset /\ c.v.request = Unset
  BY <1>4, <1>5, CancelSound, CancelEffects DEF NoneToCancel
<1> HIDE DEF c
<1>7. d \in States /\ Sound(d, window) /\ d.p = c.p /\ d.v = c.v
  <2>1. d \in States /\ d.c = c.c /\ d.p = c.p /\ d.r = c.r /\ d.v = c.v /\ d.g = c.g
    BY <1>6 DEF States, InputStates
  <2> HIDE DEF d
  <2> QED BY <1>6, <2>1, SameSound
<1> HIDE DEF d
<1>8. x \in States /\ Sound(x, window) /\ x.p = c.p /\ x.v = c.v /\ x.c.phase \notin {"starting", "connected"}
  BY <1>7, StopSound, StopEffects
<1> HIDE DEF x
<1> DEFINE t == [x EXCEPT !.i.state = state, !.f = TRUE]
<1>9. t \in States /\ t.c = x.c /\ t.p = x.p /\ t.r = x.r /\ t.v = x.v /\ t.g = x.g /\ t.f
  BY <1>8 DEF States, InputStates
<1>10. Becomes(t)
  BY <1>2
<1> HIDE DEF t
<1>11. Sound(t, window)
  BY <1>8, <1>9, SameSound
<1>12. Left(t, "stopping")
  BY <1>6, <1>8, <1>9 DEF Left
<1>13. Now' = t
  BY <1>9, <1>10, NowBecomes
<1>14. Framed(t, "stopping") /\ Sound(t, "stopping")
  BY <1>9, <1>11, <1>12 DEF Framed, Sound
<1> QED BY <1>3, <1>9, <1>13, <1>14 DEF RuntimeParts, Windows

\* The window waits for one thing after another.
LEMMA ClosingKeeps ==
  ASSUME RuntimeParts, Closing
  PROVE  RuntimeParts'
<1>1. Now \in States /\ Sound(Now, window)
  BY DEF RuntimeParts
<1>2. Now' = Now
  BY DEF Closing, Now
<1>3. window # "closed" /\ window' \in Windows
  BY DEF Closing, Await, Windows
<1>4. Left(Now, window')
  <2>1. Left(Now, window)
    BY <1>1 DEF Sound
  <2>2. CASE Await("stopping", Gone(connection), "recovery")
    BY <2>1, <2>2, NowFields DEF Await, Gone, Left
  <2>3. CASE Await("recovery", running.watch = Unset, "encoding")
    BY <2>1, <2>3, NowFields DEF Await, Left
  <2>4. CASE Await("encoding", running.encoding = Unset, "service")
    BY <2>1, <2>4, NowFields DEF Await, Left
  <2>5. CASE Await("service", running.service = Unset, "break")
    BY <2>1, <2>5, NowFields DEF Await, Left
  <2>6. CASE Await("break", ~running.break, "closed")
    BY <2>1, <2>6, NowFields DEF Await, Left
  <2> QED BY <2>2, <2>3, <2>4, <2>5, <2>6 DEF Closing
<1>5. Sound(Now, window')
  BY <1>1, <1>4 DEF Sound
<1>6. Framed(Now, window')
  BY <1>3 DEF RuntimeParts, Framed
<1> QED BY <1>1, <1>2, <1>3, <1>5, <1>6 DEF RuntimeParts

\* The state a frame starts from is sound.
LEMMA UnframedSound ==
  ASSUME RuntimeParts
  PROVE  Unframed \in States /\ Sound(Unframed, window) /\ Unframed.i = Now.i
<1>1. Now \in States /\ Sound(Now, window)
  BY DEF RuntimeParts
<1>2. /\ Unframed \in States /\ Unframed.c = Now.c /\ Unframed.p = Now.p /\ Unframed.r = Now.r
      /\ Unframed.v = Now.v /\ Unframed.g = Now.g /\ Unframed.i = Now.i
  BY <1>1 DEF Unframed, States
<1> QED BY <1>1, <1>2, SameSound

\* A frame runs.
LEMMA FrameKeeps ==
  ASSUME RuntimeParts, Frame
  PROVE  RuntimeParts'
<1>1. Now \in States /\ Sound(Now, window)
  BY DEF RuntimeParts
<1>2. PICK busy \in BOOLEAN : FrameWith(busy)
  BY DEF Frame
<1>3. window' = window /\ window \in Windows
  BY <1>2 DEF FrameWith, RuntimeParts
<1>4. Unframed \in States /\ Sound(Unframed, window) /\ Unframed.i = Now.i
  BY UnframedSound
<1>5. CASE input.failed
  <2>1. Becomes(Unframed)
    BY <1>2, <1>5 DEF FrameWith
  <2>2. Now' = Unframed
    BY <1>4, <2>1, NowBecomes
  <2>3. Framed(Unframed, window)
    BY <1>4, <1>5, NowFields DEF Framed
  <2> QED BY <1>3, <1>4, <2>2, <2>3 DEF RuntimeParts
<1>6. CASE ~input.failed
  <2>1. PICK t \in Passes(busy) : Becomes(t)
    BY <1>2, <1>6 DEF FrameWith
  <2>2. t \in States /\ Sound(t, window) /\ (~t.f => Calm(t))
    <3>1. CASE t \in Policy(Unframed, busy)
      BY <1>4, <3>1, PolicySound, PolicyCalms
    <3>2. ASSUME NEW u \in Policy(Unframed, busy), t \in Policy(u, busy)
          PROVE  t \in States /\ Sound(t, window) /\ (~t.f => Calm(t))
      <4>1. u \in States /\ Sound(u, window)
        BY <1>4, PolicySound
      <4> QED BY <3>2, <4>1, PolicySound, PolicyCalms
    <3> QED BY <2>1, <3>1, <3>2 DEF Passes
  <2>3. Now' = t
    BY <2>1, <2>2, NowBecomes
  <2>4. Framed(t, window)
    BY <2>2 DEF Framed
  <2> QED BY <1>3, <2>2, <2>3, <2>4 DEF RuntimeParts
<1> QED BY <1>5, <1>6

\* A frame fails in the user interface.
LEMMA FrameFailsKeeps ==
  ASSUME RuntimeParts, FrameFails
  PROVE  RuntimeParts'
<1>1. Now \in States /\ Sound(Now, window)
  BY DEF RuntimeParts
<1>2. PICK s \in {Unframed} \cup Policy(Unframed, FALSE) : Becomes(FailsUi(s))
  BY DEF FrameFails
<1>3. window' = window
  BY DEF FrameFails
<1>4. s \in States /\ Sound(s, window)
  BY <1>2, UnframedSound, PolicySound
<1> DEFINE a == [s EXCEPT !.p.connection = Unset, !.p.encoding = Unset]
           b == Stop(CancelTransfer(Unwatched(a)))
<1>5. a \in States /\ Sound(a, window)
  BY <1>4, ForgetsSound
<1> HIDE DEF a
<1>6. b \in States /\ Sound(b, window)
  BY <1>5, UnwatchedSound, CancelSound, StopSound
<1> HIDE DEF b
<1> DEFINE t == [b EXCEPT !.i.failed = TRUE, !.f = TRUE]
<1>7. Becomes(t)
  BY <1>2 DEF FailsUi, a, b
<1>8. t \in States /\ t.c = b.c /\ t.p = b.p /\ t.r = b.r /\ t.v = b.v /\ t.g = b.g /\ t.f
  BY <1>6 DEF States, InputStates
<1> HIDE DEF t
<1>9. Sound(t, window)
  BY <1>6, <1>8, SameSound
<1> QED BY <1>3, <1>7, <1>8, <1>9, KeepsAsked

\* What the invariant says of the properties.
LEMMA PartsAreSound == RuntimeParts => RuntimeSound
<1> SUFFICES ASSUME RuntimeParts PROVE RuntimeSound
  OBVIOUS
<1>1. Now \in States /\ window \in Windows /\ Sound(Now, window) /\ Framed(Now, window)
  BY DEF RuntimeParts
<1>2. RuntimeTypeOK
  <2>1. /\ connection \in ConnectionStates /\ pending \in PendingStates /\ running \in RunningStates
        /\ recovery \in RecoveryStates /\ input \in InputStates /\ handled \in 0..MaxLosses
        /\ given \in GivenStates /\ scheduled \in BOOLEAN
    BY <1>1, NowFields DEF States
  <2> QED BY <1>1, <2>1 DEF RuntimeTypeOK, ConnectionStates, PendingStates, RunningStates, RecoveryStates,
        InputStates, GivenStates, Windows
<1>3. ReservationHeld
  BY <1>1, NowFields DEF ReservationHeld, Sound, Held
<1>4. FinishedOnce
  <2>1. given.owed = (IF Serving(Now) THEN 1 ELSE 0) /\ (pending.service # Unset => ~Active(Now))
    BY <1>1, NowFields DEF Sound, Owed
  <2>2. Serving(Now) \in BOOLEAN
    BY DEF Serving
  <2> QED BY <2>1, <2>2 DEF FinishedOnce
<1>5. OneAtATime
  BY <1>1, NowFields DEF OneAtATime, Sound, Apart
<1>6. EncodingKept
  BY <1>1, NowFields DEF EncodingKept, Sound, Carried
<1>7. NothingOutlives
  <2>1. window # "open" => connection.phase \notin {"starting", "connected"}
    BY <1>1, NowFields DEF Sound, Left
  <2> SUFFICES ASSUME window = "closed"
               PROVE  /\ connection.phase \in {"idle", "closed"} /\ given.owed = 0
                      /\ running = [NothingRuns EXCEPT !.stop = running.stop]
                      /\ pending = [NothingPending EXCEPT !.again = pending.again]
    BY <2>1 DEF NothingOutlives
  <2>2. /\ connection.phase \in {"idle", "closed"} /\ pending.connection = Unset /\ pending.encoding = Unset
        /\ pending.service = Unset /\ ~pending.auto /\ running.watch = Unset /\ running.encoding = Unset
        /\ running.service = Unset /\ ~running.break
    BY <1>1, NowFields DEF Sound, Left
  <2>3. given.owed = 0
    BY <1>1, <2>2, NowFields DEF Sound, Owed, Serving, Active
  <2>4. running = [NothingRuns EXCEPT !.stop = running.stop]
    <3> DEFINE z == [NothingRuns EXCEPT !.stop = running.stop]
    <3>1. running \in RunningStates /\ running.break = FALSE
      BY <1>1, <2>2, NowFields DEF States, RunningStates
    <3>2. z \in RunningStates /\ z.stop = running.stop
      BY <3>1 DEF NothingRuns, RunningStates
    <3>3. z.service = running.service /\ z.encoding = running.encoding /\ z.break = running.break /\ z.watch = running.watch
      BY <2>2, <3>1 DEF NothingRuns, RunningStates
    <3> HIDE DEF z
    <3>4. running = z
      BY <3>1, <3>2, <3>3 DEF RunningStates
    <3> QED BY <3>4 DEF z
  <2>5. pending = [NothingPending EXCEPT !.again = pending.again]
    <3> DEFINE z == [NothingPending EXCEPT !.again = pending.again]
    <3>1. pending \in PendingStates /\ pending.auto = FALSE
      BY <1>1, <2>2, NowFields DEF States, PendingStates
    <3>2. z \in PendingStates /\ z.again = pending.again
      BY <3>1 DEF NothingPending, PendingStates
    <3>3. z.connection = pending.connection /\ z.encoding = pending.encoding /\ z.service = pending.service /\ z.auto = pending.auto
      BY <2>2, <3>1 DEF NothingPending, PendingStates
    <3> HIDE DEF z
    <3>4. pending = z
      BY <3>1, <3>2, <3>3 DEF PendingStates
    <3> QED BY <3>4 DEF z
  <2> QED BY <2>2, <2>3, <2>4, <2>5
<1>8. NoFrameLost
  <2> SUFFICES ASSUME ~scheduled, window # "closed", ~input.failed
               PROVE  Policy(Unframed, FALSE) = {Unframed}
    BY DEF NoFrameLost
  <2>1. Calm(Now)
    BY <1>1, NowFields DEF Framed
  <2>2. Unframed = Now
    BY <1>1, NowFields DEF Unframed, States
  <2> QED BY <1>1, <2>1, <2>2, CalmRests
<1> QED BY <1>2, <1>3, <1>4, <1>5, <1>6, <1>7, <1>8 DEF RuntimeSound

\* The invariant of a window holds in every state (terminal-runtime.cpp).
THEOREM RuntimeInvariant == RuntimeSpec => []RuntimeParts
<1>1. RuntimeInit => RuntimeParts
  BY InitialParts
<1>2. RuntimeParts /\ [RuntimeNext]_runtime => RuntimeParts'
  <2> SUFFICES ASSUME RuntimeParts, [RuntimeNext]_runtime PROVE RuntimeParts'
    OBVIOUS
  <2>1. CASE UNCHANGED runtime
    BY <2>1 DEF runtime, RuntimeParts, Now
  <2>2. CASE Frame \/ FrameFails
    BY <2>2, FrameKeeps, FrameFailsKeeps
  <2>3. CASE Connect \/ StartText \/ StartTransfer \/ AutoStart \/ RequestEncoding \/ SendBreak \/ UserCancels
    BY <2>3, ConnectKeeps, StartTextKeeps, StartTransferKeeps, AutoStartKeeps, RequestEncodingKeeps,
       SendBreakKeeps, UserCancelsKeeps
  <2>4. CASE Disconnect \/ Closing
    BY <2>4, DisconnectKeeps, ClosingKeeps
  <2>5. CASE Opens \/ ReceiveEnds \/ IoStops \/ ConnectionCloses \/ Carrier \/ Served \/ Exchanged \/ Returns
    BY <2>5, OpensKeeps, ReceiveEndsKeeps, IoStopsKeeps, ConnectionClosesKeeps, CarrierKeeps, ServedKeeps,
       ExchangedKeeps, ReturnsKeeps
  <2>6. CASE Selected \/ DeviceReturns \/ WatchEnds \/ Drains
    BY <2>6, SelectedKeeps, DeviceReturnsKeeps, WatchEndsKeeps, DrainsKeeps
  <2>7. CASE Ended
    BY <2>1, <2>7 DEF Ended
  <2> QED BY <2>1, <2>2, <2>3, <2>4, <2>5, <2>6, <2>7 DEF RuntimeNext
<1> QED BY <1>1, <1>2, PTL DEF RuntimeSpec

\* A window loses no reservation, no service, no encoding and no frame, and outlives nothing
\* (terminal-runtime.cpp), for every set of encodings, devices and requests.
THEOREM RuntimeIsSound == RuntimeSpec => []RuntimeSound
BY RuntimeInvariant, PartsAreSound, PTL
=============================================================================
