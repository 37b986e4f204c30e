------------------------- MODULE WebdavStreamProofs -------------------------
(***************************************************************************)
(* Proofs about WebdavStream, for every capacity, length and size of a chunk: *)
(* the types, that what the user is told is true, that nobody sleeps on what   *)
(* has happened, and that the transfer implements ByteChannel.               *)
(***************************************************************************)
EXTENDS WebdavStream, SequenceTheorems, TLAPS

-----------------------------------------------------------------------------
(* The bytes.                                                              *)

\* The ring is a queue: it holds the bytes of the file that follow those taken out.
Queue ==
  /\ Len(consumed) + Len(bytes) = produced
  /\ \A i \in 1..Len(consumed) : consumed[i] = i
  /\ \A i \in 1..Len(bytes) : bytes[i] = Len(consumed) + i

\* What is put into the ring, and what is taken out of it.
Added(n) == /\ bytes' = bytes \o [i \in 1..n |-> produced + i]
            /\ produced' = produced + n /\ consumed' = consumed

Taken(n) == /\ consumed' = consumed \o SubSeq(bytes, 1, n)
            /\ bytes' = SubSeq(bytes, n + 1, Len(bytes))
            /\ produced' = produced

BytesTyped == /\ bytes \in Seq(1..Length) /\ Len(bytes) <= Capacity
              /\ produced \in 0..Length /\ consumed \in Seq(1..Length)

\* The lengths are numbers, and what the ring may still take is one.
LEMMA Numbers ==
  ASSUME BytesTyped
  PROVE  /\ Len(bytes) \in Nat /\ Len(consumed) \in Nat /\ produced \in Nat
         /\ Length \in Nat /\ produced <= Length /\ Capacity \in Nat /\ Capacity > 0
         /\ Room \in Nat
BY WebdavAssumption DEF BytesTyped, Room

\* Bytes added follow those of the ring.
LEMMA AddKeeps ==
  ASSUME BytesTyped, Queue, NEW n \in Nat, n <= Room, n <= Length - produced, Added(n)
  PROVE  BytesTyped' /\ Queue' /\ Len(bytes') = Len(bytes) + n
<1> DEFINE more == [i \in 1..n |-> produced + i]
<1>1. /\ Len(bytes) \in Nat /\ Len(consumed) \in Nat /\ produced \in Nat
      /\ Length \in Nat /\ Capacity \in Nat
  BY Numbers
<1>2. more \in Seq(1..Length) /\ Len(more) = n /\ \A i \in 1..n : more[i] = produced + i
  <2>1. \A i \in 1..n : produced + i \in 1..Length
    BY <1>1
  <2> QED BY <2>1
<1> DEFINE all == bytes \o more
<1>3. bytes' = all /\ produced' = produced + n /\ consumed' = consumed
  BY DEF Added
<1> HIDE DEF more
<1>4. /\ all \in Seq(1..Length) /\ Len(all) = Len(bytes) + n
      /\ \A i \in 1..(Len(bytes) + n) :
           all[i] = IF i <= Len(bytes) THEN bytes[i] ELSE more[i - Len(bytes)]
  BY <1>2, ConcatProperties DEF BytesTyped
<1> HIDE DEF all
<1>5. BytesTyped'
  BY <1>1, <1>3, <1>4 DEF BytesTyped, Room
<1>6. \A i \in 1..Len(bytes') : bytes'[i] = Len(consumed') + i
  <2> SUFFICES ASSUME NEW i \in 1..(Len(bytes) + n)
               PROVE  all[i] = Len(consumed) + i
    BY <1>3, <1>4
  <2>1. CASE i <= Len(bytes)
    BY <1>1, <1>4, <2>1 DEF Queue
  <2>2. CASE i > Len(bytes)
    <3>1. i - Len(bytes) \in 1..n
      BY <1>1, <2>2
    <3>2. more[i - Len(bytes)] = produced + (i - Len(bytes))
      BY <1>2, <3>1
    <3>3. Len(consumed) + Len(bytes) = produced /\ all[i] = more[i - Len(bytes)]
      BY <1>1, <1>4, <2>2 DEF Queue
    <3> QED BY <1>1, <3>2, <3>3
  <2> QED BY <1>1, <2>1, <2>2
<1>7. Len(consumed') + Len(bytes') = produced'
  <2>1. Len(consumed) + Len(bytes) = produced
    BY DEF Queue
  <2> QED BY <1>1, <1>3, <1>4, <2>1
<1>8. \A i \in 1..Len(consumed') : consumed'[i] = i
  BY <1>3 DEF Queue
<1> QED BY <1>3, <1>4, <1>5, <1>6, <1>7, <1>8 DEF Queue

\* Bytes are taken out in order.
LEMMA TakeKeeps ==
  ASSUME BytesTyped, Queue, NEW n \in Nat, n <= Len(bytes), Taken(n)
  PROVE  /\ BytesTyped' /\ Queue' /\ Len(bytes') = Len(bytes) - n
         /\ Len(consumed') = Len(consumed) + n
<1> DEFINE head == SubSeq(bytes, 1, n)
           tail == SubSeq(bytes, n + 1, Len(bytes))
           out == consumed \o head
<1>1. /\ Len(bytes) \in Nat /\ Len(consumed) \in Nat /\ produced \in Nat
      /\ Length \in Nat /\ Capacity \in Nat
  BY Numbers
<1>2. head \in Seq(1..Length) /\ Len(head) = n /\ \A i \in 1..n : head[i] = bytes[i]
  BY <1>1 DEF BytesTyped
<1>3. /\ tail \in Seq(1..Length) /\ Len(tail) = Len(bytes) - n
      /\ \A i \in 1..(Len(bytes) - n) : tail[i] = bytes[n + i]
  BY <1>1 DEF BytesTyped
<1>4. consumed' = out /\ bytes' = tail /\ produced' = produced
  BY DEF Taken
<1> HIDE DEF head, tail
<1>5. /\ out \in Seq(1..Length) /\ Len(out) = Len(consumed) + n
      /\ \A i \in 1..(Len(consumed) + n) :
           out[i] = IF i <= Len(consumed) THEN consumed[i]
                                   ELSE head[i - Len(consumed)]
  BY <1>2, ConcatProperties DEF BytesTyped
<1> HIDE DEF out
<1>6. BytesTyped'
  BY <1>1, <1>3, <1>4, <1>5 DEF BytesTyped
<1>7. \A i \in 1..Len(consumed') : consumed'[i] = i
  <2> SUFFICES ASSUME NEW i \in 1..(Len(consumed) + n) PROVE out[i] = i
    BY <1>4, <1>5
  <2>1. CASE i <= Len(consumed)
    <3>1. i \in 1..Len(consumed) /\ out[i] = consumed[i]
      BY <1>1, <1>5, <2>1
    <3> QED BY <3>1 DEF Queue
  <2>2. CASE i > Len(consumed)
    <3>1. i - Len(consumed) \in 1..n /\ i - Len(consumed) \in 1..Len(bytes)
      BY <1>1, <2>2
    <3>2. head[i - Len(consumed)] = Len(consumed) + (i - Len(consumed))
      BY <1>2, <3>1 DEF Queue
    <3> QED BY <1>1, <1>5, <2>2, <3>2
  <2> QED BY <1>1, <2>1, <2>2
<1>8. \A i \in 1..Len(bytes') : bytes'[i] = Len(consumed') + i
  <2> SUFFICES ASSUME NEW i \in 1..(Len(bytes) - n) PROVE tail[i] = Len(consumed) + n + i
    BY <1>3, <1>4, <1>5
  <2>1. n + i \in 1..Len(bytes)
    BY <1>1
  <2> QED BY <1>1, <1>3, <2>1 DEF Queue
<1>9. Len(consumed') + Len(bytes') = produced'
  <2>1. Len(consumed) + Len(bytes) = produced
    BY DEF Queue
  <2> QED BY <1>1, <1>3, <1>4, <1>5, <2>1
<1> QED BY <1>3, <1>4, <1>5, <1>6, <1>7, <1>8, <1>9 DEF Queue

\* What a step does to the ring.
Moves == \/ UNCHANGED ring
         \/ \E n \in Nat : n <= Room /\ n <= Length - produced /\ Added(n)
         \/ \E n \in Nat : n <= Len(bytes) /\ Taken(n)

\* A move keeps the queue.
LEMMA MovesKeep ==
  ASSUME BytesTyped, Queue, Moves PROVE BytesTyped' /\ Queue'
<1>1. CASE UNCHANGED ring
  BY <1>1 DEF ring, BytesTyped, Queue
<1> QED BY <1>1, AddKeeps, TakeKeeps DEF Moves

\* Nobody asks for a byte the file does not have: what a write has left, and the
\* chunk curl holds back.
Asked ==
  /\ upc \in {"write", "close"} => upload
  /\ upc \in {"read", "open"} => ~upload
  /\ upc = "write" => rest <= Length - produced
  /\ upc = "read" => rest > 0
  /\ ~upload => held <= Length - produced

\* The sizes are numbers.
LEMMA Sizes ==
  /\ \A n \in CallSizes \cup CurlSizes : n \in Nat /\ n > 0
  /\ TypeOK => BytesTyped /\ rest \in Nat /\ held \in Nat /\ chunk \in Nat
<1>1. \A n \in CallSizes \cup CurlSizes : n \in Nat /\ n > 0
  BY WebdavAssumption
<1>2. ASSUME TypeOK PROVE BytesTyped /\ held \in Nat /\ chunk \in Nat
  BY <1>1, <1>2 DEF TypeOK, BytesTyped
<1>3. ASSUME TypeOK PROVE rest \in Nat
  <2>1. rest = 0 \/ \E n \in CallSizes : rest \in 1..n
    BY <1>3 DEF TypeOK
  <2> QED BY <1>1, <2>1
<1> QED BY <1>1, <1>2, <1>3

\* The lesser of two numbers.
LEMMA LeastIs ==
  ASSUME NEW a \in Nat, NEW b \in Nat
  PROVE  /\ Least(a, b) \in Nat /\ Least(a, b) <= a /\ Least(a, b) <= b
         /\ Least(a, b) = a \/ Least(a, b) = b
BY DEF Least

\* The user's write adds what there is room for.
LEMMA WriteMoves ==
  ASSUME TypeOK, NEW left \in Nat, left <= Length - produced, WriteLoop(left)
  PROVE  Moves
<1>1. Room \in Nat
  BY Sizes, Numbers
<1>2. Least(left, Room) \in Nat /\ Least(left, Room) <= left /\ Least(left, Room) <= Room
  BY <1>1, LeastIs
<1>3. produced \in Nat /\ Length \in Nat
  BY Sizes, Numbers
<1>4. UNCHANGED ring \/ Added(Least(left, Room))
  BY DEF WriteLoop, Added, ring
<1> QED BY <1>1, <1>2, <1>3, <1>4 DEF Moves

\* The user's read takes what there is.
LEMMA ReadMoves ==
  ASSUME TypeOK, NEW n \in Nat, ReadLoop(n) PROVE Moves
<1>1. Len(bytes) \in Nat
  BY Sizes, Numbers
<1>2. Least(n, Len(bytes)) \in Nat /\ Least(n, Len(bytes)) <= Len(bytes)
  BY <1>1, LeastIs
<1> QED BY <1>2 DEF ReadLoop, Moves, Taken

\* So do the callbacks of curl.
LEMMA CallbackMoves ==
  ASSUME TypeOK, Asked, NEW n \in CurlSizes, ReadCallback(n) \/ WriteCallback(n)
  PROVE  Moves
<1>1. n \in Nat /\ Len(bytes) \in Nat /\ Room \in Nat
  BY Sizes, Numbers
<1>2. CASE ReadCallback(n)
  <2>1. Least(n, Len(bytes)) \in Nat /\ Least(n, Len(bytes)) <= Len(bytes)
    BY <1>1, LeastIs
  <2> QED BY <1>2, <2>1 DEF ReadCallback, SendChunk, Moves, Taken
<1>3. CASE WriteCallback(n)
  <2>1. n <= Length - produced
    BY <1>3 DEF WriteCallback, Asked
  <2>2. UNCHANGED ring \/ (Added(n) /\ ~(n > Room))
    BY <1>3 DEF WriteCallback, ReceiveChunk, Added
  <2> QED BY <1>1, <2>1, <2>2 DEF Moves
<1> QED BY <1>2, <1>3

\* The steps that exchange bytes.
Exchange ==
  \/ \E n \in CurlSizes : ReadCallback(n) \/ WriteCallback(n)
  \/ \E n \in CallSizes : WriteBegins(n) \/ ReadBegins(n)
  \/ WriteContinues \/ ReadContinues

\* They add or take, or leave the ring alone.
LEMMA ExchangeMoves ==
  ASSUME TypeOK, Asked, Exchange PROVE Moves
<1>1. rest \in Nat /\ \A n \in CallSizes : n \in Nat
  BY Sizes
<1>2. ASSUME NEW n \in CallSizes, WriteBegins(n) PROVE Moves
  <2>1. produced \in Nat /\ Length \in Nat
    BY Sizes, Numbers
  <2> QED BY <1>1, <1>2, <2>1, WriteMoves DEF WriteBegins, Moves
<1>3. ASSUME NEW n \in CallSizes, ReadBegins(n) PROVE Moves
  BY <1>1, <1>3, ReadMoves DEF ReadBegins
<1>4. CASE WriteContinues
  BY <1>1, <1>4, WriteMoves DEF WriteContinues, Asked, Moves
<1>5. CASE ReadContinues
  BY <1>1, <1>5, ReadMoves DEF ReadContinues, Moves
<1> QED BY <1>2, <1>3, <1>4, <1>5, CallbackMoves DEF Exchange

\* Nothing else touches the ring.
LEMMA OthersStand ==
  ASSUME [Next]_vars, ~Exchange PROVE UNCHANGED ring
<1>1. CASE RequestRuns
  BY <1>1 DEF RequestRuns, HttpLocks, HttpBegins, HttpSuspends
<1>2. CASE Curl
  BY <1>2 DEF Curl, HttpConnects, HttpAnswers, HttpReplays, HttpCompletes, HttpBreaks,
     HttpDistrusts, Exchange
<1>3. CASE HttpEvent \/ IdleTimer \/ CertificateAnswered
  BY <1>3 DEF HttpEvent, IdleTimer, CertificateAnswered
<1>4. CASE UserChoice
  BY <1>4 DEF UserChoice, Open, CloseBegins, Destroy, RequestCancel, Exchange
<1>5. CASE UserContinues
  BY <1>5 DEF UserContinues, OpenContinues, CloseContinues, DrainContinues, Exchange
<1>6. CASE OtherBegins \/ OtherEnds \/ StopBegins \/ StopLocks \/ ServerStores
           \/ ForeignStores \/ Finished \/ UNCHANGED vars
  BY <1>6 DEF OtherBegins, OtherEnds, StopBegins, StopLocks, ServerStores, ForeignStores,
     Finished, vars
<1> QED BY <1>1, <1>2, <1>3, <1>4, <1>5, <1>6 DEF Next

\* Every step keeps the queue.
LEMMA QueueStep ==
  ASSUME TypeOK, Asked, Queue, [Next]_vars PROVE BytesTyped' /\ Queue'
<1>1. Moves
  BY ExchangeMoves, OthersStand DEF Moves
<1> QED BY <1>1, Sizes, MovesKeep

-----------------------------------------------------------------------------
(* The types of everything else.                                            *)

Rests == {0} \cup UNION {1..n : n \in CallSizes}

\* TypeOK without the bytes.
Types ==
  /\ upload \in BOOLEAN /\ paused \in BOOLEAN /\ chunk \in {0} \cup CurlSizes
  /\ finished \in BOOLEAN /\ closed \in BOOLEAN /\ failure \in BOOLEAN
  /\ creation \in {"unknown", "created", "not_created"}
  /\ stopping \in BOOLEAN /\ parent \in BOOLEAN
  /\ waiting \in {"none", "waiting", "fired", "canceled"}
  /\ upc \in {"new", "open", "idle", "read", "write", "close", "drain", "leave", "gone"}
  /\ rest \in Rests /\ told \in BOOLEAN
  /\ lock \in {"free", "request", "other", "stop"} /\ stopped \in BOOLEAN
  /\ spc \in {"none", "lock", "done"}
  /\ resume_pending \in BOOLEAN /\ winner \in {"none", "armed", "fired"}
  /\ hpc \in {"none", "lock", "begin", "act", "wait", "certify", "done"}
  /\ mask \subseteq Directions /\ status \in Statuses
  /\ redirects \in 0..MaxRedirects /\ confirmations \in 0..MaxConfirmations
  /\ curl \subseteq Directions /\ link \in {"none", "up", "set"}
  /\ held \in {0} \cup CurlSizes /\ sockets \in BOOLEAN /\ expired \in BOOLEAN
  /\ file \in {"absent", "foreign", "ours"} /\ stored \in BOOLEAN

\* The two parts make up TypeOK.
LEMMA TypeParts == TypeOK <=> BytesTyped /\ Types
BY DEF TypeOK, BytesTyped, Types, Rests

\* What is left of a call is never more than the call asked for.
LEMMA LessRests ==
  ASSUME NEW left \in Rests \cup CallSizes, NEW m \in Nat, m <= left
  PROVE  left - m \in Rests
<1>1. \A n \in CallSizes : n \in Nat /\ n > 0
  BY Sizes
<1>2. left = 0 \/ \E n \in CallSizes : left \in 1..n
  BY <1>1 DEF Rests
<1>3. CASE left = 0
  BY <1>3 DEF Rests
<1>4. ASSUME NEW n \in CallSizes, left \in 1..n PROVE left - m \in Rests
  <2>1. left - m = 0 \/ left - m \in 1..n
    BY <1>1, <1>4
  <2> QED BY <2>1 DEF Rests
<1> QED BY <1>2, <1>3, <1>4

\* A call may begin with all it asks for, and end with nothing left.
LEMMA CallRests == CallSizes \subseteq Rests /\ 0 \in Rests
<1>1. \A n \in CallSizes : n \in Nat /\ n > 0 /\ n \in 1..n
  BY Sizes
<1> QED BY <1>1 DEF Rests

\* What the end of a request changes.
Ended == /\ finished' \in BOOLEAN /\ failure' \in BOOLEAN /\ hpc' = "done"
         /\ lock' \in {"free", "request", "other", "stop"} /\ winner' = "none"
         /\ waiting' \in {"none", "waiting", "fired", "canceled"}

\* The end of a request, whether it failed or not.
LEMMA FinishTypes ==
  ASSUME Types PROVE \A failed \in BOOLEAN : Finish(failed) => Ended
BY DEF Finish, WakeUser, Types, Ended

\* A request that ends in failure, and what it leaves alone.
LEMMA FailureTypes ==
  ASSUME Types, RequestFails,
         UNCHANGED <<upload, pauses, signals, calling, mask, status, counters, libcurl, server>>
  PROVE  Types'
<1>1. Ended /\ UNCHANGED <<creation, closed, stopped, spc, resume_pending>>
  BY FinishTypes DEF RequestFails
<1> QED BY <1>1 DEF Types, Ended, pauses, signals, calling, counters, libcurl, server

\* An attempt that begins.
LEMMA AttemptTypes ==
  ASSUME AttemptBegins, curl \subseteq Directions
  PROVE  /\ hpc' = "begin" /\ mask' \subseteq Directions /\ status' \in Statuses
         /\ resume_pending' \in BOOLEAN /\ winner' = "none" /\ link' = "none" /\ held' = 0
         /\ sockets' \in BOOLEAN /\ expired' \in BOOLEAN /\ curl' \subseteq Directions
BY DEF AttemptBegins, Statuses

\* The request's own steps.
LEMMA RequestTypes ==
  ASSUME Types, hpc = "certify" => confirmations < MaxConfirmations,
         RequestRuns \/ HttpEvent \/ IdleTimer \/ CertificateAnswered
  PROVE  Types'
<1> USE DEF Types, ring, pauses, flags, signals, calling, session, wake, request, counters,
            libcurl, server
<1>1. CASE HttpLocks
  <2>1. CASE RequestFails /\ UNCHANGED <<mask, status, libcurl>>
    BY <1>1, <2>1, FailureTypes DEF HttpLocks
  <2>2. CASE ~(RequestFails /\ UNCHANGED <<mask, status, libcurl>>)
    <3>1. AttemptBegins /\ lock' = "request" /\ UNCHANGED <<flags, waiting, stopped, spc>>
      BY <1>1, <2>2 DEF HttpLocks
    <3> QED BY <1>1, <3>1, AttemptTypes DEF HttpLocks
  <2> QED BY <2>1, <2>2
<1>2. CASE HttpBegins
  <2>1. CASE Canceled
    BY <1>2, <2>1, FailureTypes DEF HttpBegins
  <2>2. CASE ~Canceled
    <3>1. /\ mask' \subseteq Directions /\ curl' \subseteq Directions /\ sockets' \in BOOLEAN
          /\ expired' \in BOOLEAN /\ hpc' = "act" /\ winner' = "none"
          /\ resume_pending' \in BOOLEAN
      BY <1>2, <2>2 DEF HttpBegins
    <3>2. UNCHANGED <<upload, ring, pauses, flags, signals, waiting, calling, session, status,
                      counters, link, held, server>>
      BY <1>2, <2>2 DEF HttpBegins
    <3> QED BY <3>1, <3>2
  <2> QED BY <2>1, <2>2
<1>3. CASE HttpSuspends
  <2>1. /\ mask' \subseteq Directions /\ curl' \subseteq Directions
        /\ sockets' \in BOOLEAN /\ link' \in {"none", "up", "set"}
    BY <1>3 DEF HttpSuspends
  <2> QED BY <1>3, <2>1 DEF HttpSuspends
<1>4. CASE HttpEvent \/ IdleTimer
  <2>1. expired' \in BOOLEAN
    BY <1>4 DEF HttpEvent, IdleTimer
  <2> QED BY <1>4, <2>1 DEF HttpEvent, IdleTimer
<1>5. CASE CertificateAnswered
  <2>1. \/ /\ AttemptBegins /\ confirmations' = confirmations + 1
           /\ UNCHANGED <<flags, waiting, session>>
        \/ /\ Finish(TRUE) /\ stopped' \in BOOLEAN
           /\ UNCHANGED <<creation, closed, spc, resume_pending, confirmations,
                          mask, status, libcurl>>
    BY <1>5 DEF CertificateAnswered
  <2>2. UNCHANGED <<upload, ring, pauses, signals, calling, redirects, server>>
    BY <1>5 DEF CertificateAnswered
  <2>3. CASE AttemptBegins /\ confirmations' = confirmations + 1
             /\ UNCHANGED <<flags, waiting, session>>
    <3>1. confirmations + 1 \in 0..MaxConfirmations
      BY <1>5, WebdavAssumption DEF CertificateAnswered
    <3> QED BY <2>2, <2>3, <3>1, AttemptTypes
  <2>4. CASE /\ Finish(TRUE) /\ stopped' \in BOOLEAN
             /\ UNCHANGED <<creation, closed, spc, resume_pending, confirmations,
                            mask, status, libcurl>>
    <3>1. Ended
      BY <2>4, FinishTypes
    <3> QED BY <2>2, <2>4, <3>1 DEF Ended
  <2> QED BY <2>1, <2>3, <2>4
<1> QED BY <1>1, <1>2, <1>3, <1>4, <1>5 DEF RequestRuns

\* The turns of libcurl.
LEMMA CurlTypes ==
  ASSUME Types, BytesTyped, Curl PROVE Types'
<1> USE DEF Types, ring, pauses, flags, signals, calling, session, wake, request, counters,
            libcurl, server
<1>1. CASE HttpConnects \/ HttpReplays \/ HttpDistrusts
  <2>1. stored' \in BOOLEAN
    BY <1>1 DEF HttpConnects, HttpReplays, HttpDistrusts
  <2> QED BY <1>1, <2>1 DEF HttpConnects, HttpReplays, HttpDistrusts
<1>2. CASE HttpAnswers
  <2>1. /\ status' \in Statuses /\ file' \in {"absent", "foreign", "ours"}
        /\ stored' \in BOOLEAN /\ expired' \in BOOLEAN
    BY <1>2 DEF HttpAnswers, Statuses
  <2> QED BY <1>2, <2>1 DEF HttpAnswers
<1>3. CASE HttpCompletes
  <2> USE DEF HttpCompletes
  <2>1. CASE PutEnds
    <3>1. CreationOf \in {"unknown", "created", "not_created"}
      BY DEF CreationOf
    <3>2. Ended
      BY <2>1, FinishTypes DEF PutEnds
    <3> QED BY <1>3, <2>1, <3>1, <3>2 DEF PutEnds, Ended
  <2>2. CASE GetEnds
    <3>1. Ended
      BY <2>2, FinishTypes DEF GetEnds
    <3> QED BY <1>3, <2>2, <3>1 DEF GetEnds, Ended
  <2>3. CASE redirects < MaxRedirects /\ GetFollows
    <3>1. redirects + 1 \in 0..MaxRedirects
      BY <2>3, WebdavAssumption
    <3> QED BY <1>3, <2>3, <3>1 DEF GetFollows
  <2> QED BY <1>3, <2>1, <2>2, <2>3
<1>4. CASE HttpBreaks
  BY <1>4, FailureTypes DEF HttpBreaks
<1>5. ASSUME NEW n \in CurlSizes, ReadCallback(n) PROVE Types'
  <2>1. /\ mask' \subseteq Directions /\ curl' \subseteq Directions /\ expired' \in BOOLEAN
        /\ paused' \in BOOLEAN /\ waiting' \in {"none", "waiting", "fired", "canceled"}
    BY <1>5 DEF ReadCallback, SendChunk, WakeUser, Directions
  <2> QED BY <1>5, <2>1 DEF ReadCallback
<1>6. ASSUME NEW n \in CurlSizes, WriteCallback(n) PROVE Types'
  <2>1. CASE n > Capacity
    BY <1>6, <2>1, FailureTypes DEF WriteCallback
  <2>2. CASE ~(n > Capacity)
    <3>1. /\ mask' \subseteq Directions /\ curl' \subseteq Directions /\ expired' \in BOOLEAN
          /\ held' \in {0} \cup CurlSizes /\ chunk' \in {0} \cup CurlSizes
          /\ waiting' \in {"none", "waiting", "fired", "canceled"}
      BY <1>6, <2>2 DEF WriteCallback, ReceiveChunk, WakeUser, Directions
    <3> QED BY <1>6, <2>2, <3>1 DEF WriteCallback
  <2> QED BY <2>1, <2>2
<1> QED BY <1>1, <1>2, <1>3, <1>4, <1>5, <1>6 DEF Curl

\* What a call of the user changes.
Called == /\ upc' \in {"new", "open", "idle", "read", "write", "close", "drain", "leave", "gone"}
          /\ rest' \in Rests /\ told' \in BOOLEAN
          /\ waiting' \in {"none", "waiting", "fired", "canceled"}
          /\ stopping' \in BOOLEAN /\ winner' \in {"none", "armed", "fired"}
          /\ paused' \in BOOLEAN /\ chunk' \in {0} \cup CurlSizes
          /\ resume_pending' \in BOOLEAN

\* A step of the user that changes no more than that.
LEMMA CallTypes ==
  ASSUME Types, Called, UNCHANGED <<upload, flags, parent, session, request, counters,
                                    libcurl, server>>
  PROVE  Types'
BY DEF Types, Called, flags, session, request, counters, libcurl, server

\* Giving up.
LEMMA GivesUpTypes ==
  ASSUME Types PROVE \A next \in {"idle", "gone"} : GivesUp(next) =>
    /\ upc' \in {"idle", "gone", "leave", "drain"} /\ rest' \in Rests
    /\ waiting' \in {"none", "waiting"} /\ stopping' \in BOOLEAN
    /\ winner' \in {"none", "armed", "fired"}
BY CallRests DEF GivesUp, CancelsRequest, FireWinner, Waits, Types

\* The writer's loop.
LEMMA WriteLoopTypes ==
  ASSUME Types, BytesTyped, NEW left \in Rests \cup CallSizes, WriteLoop(left),
         UNCHANGED chunk
  PROVE  Called
<1>1. CASE GivesUp("idle") /\ UNCHANGED <<ring, paused, resume_pending>>
  BY <1>1, GivesUpTypes DEF WriteLoop, Called, Types
<1>2. CASE ~(GivesUp("idle") /\ UNCHANGED <<ring, paused, resume_pending>>)
  <2> DEFINE size == Least(left, Room)
  <2>1. left \in Nat /\ Room \in Nat
    <3>1. \A n \in CallSizes : n \in Nat
      BY Sizes
    <3> QED BY <3>1, Numbers DEF Rests
  <2>2. size \in Nat /\ size <= left
    BY <2>1, LeastIs
  <2>3. left - size \in Rests
    BY <2>2, LessRests
  <2>4. /\ rest' = left - size /\ UNCHANGED told
        /\ \/ paused' = FALSE /\ Resume
           \/ UNCHANGED <<paused, wake>>
        /\ Waits("write") \/ (upc' = "idle" /\ waiting' = "none")
        /\ UNCHANGED stopping
    BY <1>2 DEF WriteLoop
  <2> HIDE DEF size
  <2>5. /\ paused' \in BOOLEAN /\ resume_pending' \in BOOLEAN
        /\ winner' \in {"none", "armed", "fired"}
    BY <2>4 DEF Resume, FireWinner, Types, wake
  <2> QED BY <2>3, <2>4, <2>5 DEF Called, Types, Waits
<1> QED BY <1>1, <1>2

\* The reader's loop.
LEMMA ReadLoopTypes ==
  ASSUME Types, BytesTyped, NEW n \in Rests \cup CallSizes, ReadLoop(n)
  PROVE  Called
<1>1. /\ upc' \in {"read", "idle"} /\ waiting' \in {"none", "waiting"}
      /\ rest' \in {n, 0} /\ UNCHANGED <<paused, stopping>>
  BY DEF ReadLoop, Waits, signals
<1>2. rest' \in Rests
  BY <1>1, CallRests
<1>3. /\ told' \in BOOLEAN /\ resume_pending' \in BOOLEAN
      /\ winner' \in {"none", "armed", "fired"} /\ chunk' \in {0} \cup CurlSizes
  BY DEF ReadLoop, Resume, FireWinner, Types, wake
<1> QED BY <1>1, <1>2, <1>3 DEF Called, Types

\* The user's calls.
LEMMA UserTypes ==
  ASSUME Types, BytesTyped, UserChoice \/ UserContinues PROVE Types'
<1> USE DEF ring, pauses, signals, calling, wake
<1>1. CASE Open
  <2>1. /\ finished' \in BOOLEAN /\ failure' \in BOOLEAN
        /\ upc' \in {"gone", "idle", "open"} /\ hpc' \in {"done", "lock"}
        /\ waiting' \in {"none", "waiting", "fired", "canceled"}
    BY <1>1 DEF Open, Waits, Types
  <2> QED BY <1>1, <2>1 DEF Open, Types, flags, session, request, counters, libcurl, server
<1>2. ASSUME NEW n \in CallSizes, WriteBegins(n) PROVE Types'
  <2>1. Called
    BY <1>2, WriteLoopTypes, GivesUpTypes DEF WriteBegins, Called, Types
  <2> QED BY <1>2, <2>1, CallTypes DEF WriteBegins
<1>3. ASSUME NEW n \in CallSizes, ReadBegins(n) PROVE Types'
  <2>1. ReadLoop(n)
    BY <1>3 DEF ReadBegins
  <2> QED BY <2>1, ReadLoopTypes, CallTypes DEF ReadLoop
<1>4. CASE WriteContinues
  <2>1. Called
    BY <1>4, WriteLoopTypes, GivesUpTypes DEF WriteContinues, Called, Types
  <2> QED BY <1>4, <2>1, CallTypes DEF WriteContinues
<1>5. CASE ReadContinues
  <2>1. CASE ReadLoop(rest)
    <3>1. rest \in Rests
      BY DEF Types
    <3> QED BY <2>1, <3>1, ReadLoopTypes, CallTypes DEF ReadLoop
  <2>2. CASE ~ReadLoop(rest)
    <3>1. Called
      BY <1>5, <2>2, CallRests DEF ReadContinues, Called, Types
    <3> QED BY <1>5, <2>2, <3>1, CallTypes DEF ReadContinues
  <2> QED BY <2>1, <2>2
<1>6. CASE OpenContinues
  <2>1. Called /\ closed' \in BOOLEAN
    BY <1>6, GivesUpTypes DEF OpenContinues, Called, Types, Waits
  <2> QED BY <1>6, <2>1 DEF OpenContinues, Called, Types, session, request, counters,
          libcurl, server
<1>7. CASE CloseBegins
  <2>1. Called /\ closed' \in BOOLEAN
    BY <1>7, GivesUpTypes DEF CloseBegins, Called, Types, Waits
  <2> QED BY <1>7, <2>1 DEF CloseBegins, Called, Types, session, request, counters,
          libcurl, server
<1>8. CASE CloseContinues
  <2>1. Called
    BY <1>8, GivesUpTypes DEF CloseContinues, Called, Types, Waits
  <2> QED BY <1>8, <2>1, CallTypes DEF CloseContinues
<1>9. CASE DrainContinues
  <2>1. Called
    BY <1>9 DEF DrainContinues, Called, Types, Waits
  <2> QED BY <1>9, <2>1, CallTypes DEF DrainContinues
<1>10. CASE Destroy
  <2>1. Called
    BY <1>10 DEF Destroy, CancelsRequest, FireWinner, Called, Types
  <2> QED BY <1>10, <2>1, CallTypes DEF Destroy
<1>11. CASE RequestCancel
  <2>1. /\ parent' \in BOOLEAN /\ winner' \in {"none", "armed", "fired"}
        /\ waiting' \in {"none", "waiting", "fired", "canceled"}
    BY <1>11 DEF RequestCancel, FireWinner, Types
  <2> QED BY <1>11, <2>1 DEF RequestCancel, Types, flags, session, request, counters,
          libcurl, server
<1> QED BY <1>1, <1>2, <1>3, <1>4, <1>5, <1>6, <1>7, <1>8, <1>9, <1>10, <1>11
        DEF UserChoice, UserContinues

\* The session and the server.
LEMMA OtherTypes ==
  ASSUME Types, OtherBegins \/ OtherEnds \/ StopBegins \/ StopLocks \/ ServerStores
                \/ ForeignStores
  PROVE  Types'
<1> USE DEF Types, pauses, flags, signals, calling, session, wake, request, counters,
            libcurl, server
<1>1. CASE OtherBegins \/ OtherEnds \/ StopLocks
  BY <1>1 DEF OtherBegins, OtherEnds, StopLocks
<1>2. CASE StopBegins
  <2>1. stopped' \in BOOLEAN /\ winner' \in {"none", "armed", "fired"}
    BY <1>2 DEF StopBegins, FireWinner
  <2> QED BY <1>2, <2>1 DEF StopBegins
<1>3. CASE ServerStores \/ ForeignStores
  <2>1. stored' \in BOOLEAN
    BY <1>3 DEF ServerStores, ForeignStores
  <2> QED BY <1>3, <2>1 DEF ServerStores, ForeignStores
<1> QED BY <1>1, <1>2, <1>3

\* Every step keeps the types.
LEMMA TypesStep ==
  ASSUME TypeOK, hpc = "certify" => confirmations < MaxConfirmations, [Next]_vars
  PROVE  Types'
<1>1. Types /\ BytesTyped
  BY TypeParts
<1>2. CASE UNCHANGED vars
  BY <1>1, <1>2 DEF Types, vars, ring, pauses, flags, signals, calling, session, wake,
     request, counters, libcurl, server
<1>3. CASE Next /\ ~Finished
  BY <1>1, <1>3, RequestTypes, CurlTypes, UserTypes, OtherTypes DEF Next
<1> QED BY <1>2, <1>3 DEF Finished

-----------------------------------------------------------------------------
(* Nobody asks for what is not there.                                        *)

\* What Asked is about.
LEMMA AskedStand ==
  ASSUME Asked, UNCHANGED <<upload, produced>>, upc' \in {upc, "idle", "drain", "leave", "gone"},
         UNCHANGED rest \/ upc' # upc, UNCHANGED held
  PROVE  Asked'
BY DEF Asked

\* The request and libcurl.
LEMMA RequestAsked ==
  ASSUME TypeOK, Asked, RequestRuns \/ Curl \/ HttpEvent \/ IdleTimer \/ CertificateAnswered
  PROVE  Asked'
<1> USE DEF ring, calling, libcurl
<1>1. CASE HttpLocks \/ CertificateAnswered
  <2>1. UNCHANGED <<upload, produced, upc, rest>> /\ held' \in {held, 0}
    BY <1>1 DEF HttpLocks, CertificateAnswered, AttemptBegins
  <2>2. Length - produced \in Nat
    BY Sizes, Numbers
  <2> QED BY <2>1, <2>2 DEF Asked
<1>2. CASE HttpBegins \/ HttpSuspends \/ HttpEvent \/ IdleTimer
  BY <1>2, AskedStand DEF HttpBegins, HttpSuspends, HttpEvent, IdleTimer
<1>3. CASE HttpConnects \/ HttpAnswers \/ HttpReplays \/ HttpCompletes \/ HttpBreaks
           \/ HttpDistrusts
  BY <1>3, AskedStand DEF HttpConnects, HttpAnswers, HttpReplays, HttpCompletes, HttpBreaks,
     HttpDistrusts
<1>4. ASSUME NEW n \in CurlSizes, ReadCallback(n) PROVE Asked'
  BY <1>4, AskedStand DEF ReadCallback, SendChunk
<1>5. ASSUME NEW n \in CurlSizes, WriteCallback(n) PROVE Asked'
  <2>1. UNCHANGED <<upload, upc, rest>> /\ ~upload
    BY <1>5 DEF WriteCallback
  <2>2. n <= Length - produced /\ n \in Nat
    BY <1>5, Sizes DEF WriteCallback, Asked
  <2>3. \/ produced' = produced /\ held' \in {n, held}
        \/ produced' = produced + n /\ held' = 0
    BY <1>5 DEF WriteCallback, ReceiveChunk
  <2>4. produced \in Nat /\ Length \in Nat
    BY Sizes, Numbers
  <2> QED BY <2>1, <2>2, <2>3, <2>4 DEF Asked
<1> QED BY <1>1, <1>2, <1>3, <1>4, <1>5 DEF RequestRuns, Curl

\* A write goes on with what it has left.
LEMMA WriteLoopAsked ==
  ASSUME TypeOK, Asked, upload, NEW left \in Nat, left <= Length - produced, WriteLoop(left),
         UNCHANGED <<upload, held>>
  PROVE  Asked'
<1>1. CASE GivesUp("idle") /\ UNCHANGED ring
  BY <1>1 DEF GivesUp, Waits, Asked, ring
<1>2. CASE ~(GivesUp("idle") /\ UNCHANGED ring)
  <2> DEFINE size == Least(left, Room)
  <2>1. Room \in Nat /\ produced \in Nat /\ Length \in Nat
    BY Sizes, Numbers
  <2>2. size \in Nat /\ size <= left
    BY <2>1, LeastIs
  <2>3. rest' = left - size /\ produced' = produced + size /\ upc' \in {"write", "idle"}
    BY <1>2 DEF WriteLoop, ring, Waits
  <2> HIDE DEF size
  <2>4. rest' <= Length - produced'
    BY <2>1, <2>2, <2>3
  <2> QED BY <2>3, <2>4 DEF Asked
<1> QED BY <1>1, <1>2

\* A read goes on with what it asked for.
LEMMA ReadLoopAsked ==
  ASSUME TypeOK, Asked, ~upload, NEW n \in Nat, n > 0, ReadLoop(n) PROVE Asked'
<1>1. UNCHANGED <<upload, produced, held>>
  BY DEF ReadLoop, ring, libcurl
<1>2. upc' = "idle" \/ (upc' = "read" /\ rest' = n)
  BY DEF ReadLoop, Waits
<1> QED BY <1>1, <1>2 DEF Asked

\* The user's calls.
LEMMA UserAsked ==
  ASSUME TypeOK, Asked, UserChoice \/ UserContinues PROVE Asked'
<1> USE DEF ring, calling, libcurl
<1>1. CASE Open
  BY <1>1 DEF Open, Waits, Asked
<1>2. ASSUME NEW n \in CallSizes, WriteBegins(n) PROVE Asked'
  <2>1. n \in Nat /\ produced \in Nat /\ Length \in Nat /\ upload /\ UNCHANGED <<upload, held>>
    BY <1>2, Sizes, Numbers DEF WriteBegins
  <2>2. CASE n > Length - produced
    BY <1>2, <2>1, <2>2 DEF WriteBegins, GivesUp, Waits, Asked
  <2>3. CASE ~(n > Length - produced)
    BY <1>2, <2>1, <2>3, WriteLoopAsked DEF WriteBegins
  <2> QED BY <2>2, <2>3
<1>3. ASSUME NEW n \in CallSizes, ReadBegins(n) PROVE Asked'
  BY <1>3, Sizes, ReadLoopAsked DEF ReadBegins
<1>4. CASE WriteContinues
  <2>1. CASE waiting = "canceled"
    BY <1>4, <2>1 DEF WriteContinues, GivesUp, Waits, Asked
  <2>2. CASE waiting # "canceled"
    <3>1. rest \in Nat /\ upload /\ rest <= Length - produced
      BY <1>4, Sizes DEF WriteContinues, Asked
    <3> QED BY <1>4, <2>2, <3>1, WriteLoopAsked DEF WriteContinues
  <2> QED BY <2>1, <2>2
<1>5. CASE ReadContinues
  <2>1. CASE ReadLoop(rest)
    <3>1. rest \in Nat /\ ~upload /\ rest > 0
      BY <1>5, Sizes DEF ReadContinues, Asked
    <3> QED BY <2>1, <3>1, ReadLoopAsked
  <2>2. CASE ~ReadLoop(rest)
    BY <1>5, <2>2 DEF ReadContinues, Asked
  <2> QED BY <2>1, <2>2
<1>6. CASE OpenContinues
  BY <1>6 DEF OpenContinues, GivesUp, Waits, Asked
<1>7. CASE CloseBegins \/ CloseContinues
  BY <1>7 DEF CloseBegins, CloseContinues, GivesUp, Waits, Asked
<1>8. CASE DrainContinues \/ Destroy \/ RequestCancel
  BY <1>8 DEF DrainContinues, Destroy, RequestCancel, Waits, Asked
<1> QED BY <1>1, <1>2, <1>3, <1>4, <1>5, <1>6, <1>7, <1>8 DEF UserChoice, UserContinues

\* Every step keeps it.
LEMMA AskedStep ==
  ASSUME TypeOK, Asked, [Next]_vars PROVE Asked'
<1>1. CASE OtherBegins \/ OtherEnds \/ StopBegins \/ StopLocks \/ ServerStores
           \/ ForeignStores \/ UNCHANGED vars
  BY <1>1 DEF OtherBegins, OtherEnds, StopBegins, StopLocks, ServerStores, ForeignStores,
     vars, ring, calling, libcurl, Asked
<1>2. CASE RequestRuns \/ Curl \/ HttpEvent \/ IdleTimer \/ CertificateAnswered
           \/ UserChoice \/ UserContinues
  BY <1>2, RequestAsked, UserAsked
<1> QED BY <1>1, <1>2 DEF Next, Finished

-----------------------------------------------------------------------------
(* The request.                                                            *)

\* Where the request is, what it holds, and what its end means.
Requests ==
  /\ hpc = "none" <=> upc = "new"
  /\ finished <=> hpc = "done"
  /\ failure => finished
  /\ hpc = "act" => ~Canceled
  /\ hpc = "certify" => confirmations < MaxConfirmations
  /\ OneRequest
  /\ stopping /\ finished => failure
  /\ stopping => finished \/ upc \in {"drain", "leave", "gone"}
  /\ upc = "gone" => finished \/ stopping

\* The request's own steps.
LEMMA RequestRequests ==
  ASSUME TypeOK, Requests,
         RequestRuns \/ Curl \/ HttpEvent \/ IdleTimer \/ CertificateAnswered
  PROVE  Requests'
<1> USE DEF signals, calling, flags, session, wake, request, counters, Canceled, OneRequest
<1>1. ASSUME NEW failed, Finish(failed), stopping => failed, hpc # "none",
             UNCHANGED <<upc, signals, spc>>
      PROVE  Requests'
  BY <1>1 DEF Finish, Requests, TypeOK
<1>2. CASE HttpLocks
  <2>1. CASE RequestFails
    BY <1>1, <1>2, <2>1 DEF HttpLocks, RequestFails
  <2>2. CASE ~RequestFails
    BY <1>2, <2>2 DEF HttpLocks, AttemptBegins, Requests
  <2> QED BY <2>1, <2>2
<1>3. CASE HttpBegins
  <2>1. CASE Canceled
    BY <1>1, <1>3, <2>1 DEF HttpBegins, RequestFails
  <2>2. CASE ~Canceled
    BY <1>3, <2>2 DEF HttpBegins, Requests
  <2> QED BY <2>1, <2>2
<1>4. CASE HttpSuspends \/ HttpEvent \/ IdleTimer
  BY <1>4 DEF HttpSuspends, HttpEvent, IdleTimer, Requests
<1>5. CASE CertificateAnswered
  <2>1. CASE Finish(TRUE)
    BY <1>1, <1>5, <2>1 DEF CertificateAnswered
  <2>2. CASE ~Finish(TRUE)
    BY <1>5, <2>2 DEF CertificateAnswered, AttemptBegins, Requests
  <2> QED BY <2>1, <2>2
<1>6. CASE HttpConnects \/ HttpAnswers \/ HttpReplays \/ HttpDistrusts
  BY <1>6 DEF HttpConnects, HttpAnswers, HttpReplays, HttpDistrusts, Requests
<1>7. CASE HttpCompletes
  <2>1. ~stopping /\ hpc = "act"
    BY <1>7 DEF HttpCompletes, Requests
  <2>2. CASE PutEnds \/ GetEnds
    BY <1>1, <1>7, <2>1, <2>2 DEF HttpCompletes, PutEnds, GetEnds
  <2>3. CASE GetFollows
    BY <1>7, <2>1, <2>3 DEF HttpCompletes, GetFollows, Requests
  <2> QED BY <1>7, <2>2, <2>3 DEF HttpCompletes
<1>8. CASE HttpBreaks
  BY <1>1, <1>8 DEF HttpBreaks, RequestFails
<1>9. ASSUME NEW n \in CurlSizes, ReadCallback(n) PROVE Requests'
  BY <1>9 DEF ReadCallback, Requests
<1>10. ASSUME NEW n \in CurlSizes, WriteCallback(n) PROVE Requests'
  <2>1. CASE RequestFails
    BY <1>1, <1>10, <2>1 DEF WriteCallback, RequestFails
  <2>2. CASE ~RequestFails
    BY <1>10, <2>2 DEF WriteCallback, Requests
  <2> QED BY <2>1, <2>2
<1> QED BY <1>2, <1>3, <1>4, <1>5, <1>6, <1>7, <1>8, <1>9, <1>10 DEF RequestRuns, Curl

\* Giving up: the request is told, unless it is over.
LEMMA GivesUpMeans ==
  ASSUME TypeOK
  PROVE  \A next \in {"idle", "gone"} : GivesUp(next) =>
           \/ finished /\ upc' = next /\ UNCHANGED stopping /\ waiting' = "none"
           \/ /\ ~finished /\ stopping' = TRUE /\ waiting' = "waiting"
              /\ upc' = IF next = "gone" THEN "leave" ELSE "drain"
BY DEF GivesUp, CancelsRequest, Waits

\* The user's calls.
LEMMA UserRequests ==
  ASSUME TypeOK, Requests, UserChoice \/ UserContinues PROVE Requests'
<1> USE DEF flags, session, request, counters, Canceled, OneRequest, Free
<1>1. ASSUME UNCHANGED <<hpc, finished, failure, stopped, lock, spc, confirmations>>, Free,
             upc \notin {"new", "gone"}, stopping => finished,
             \/ UNCHANGED <<stopping, parent>>
                /\ (upc' \in {"idle", "read", "write", "close", "open"} \/ (upc' = "gone" /\ finished))
             \/ ~finished /\ stopping' = TRUE /\ upc' \in {"leave", "drain", "gone"}
      PROVE  Requests'
  BY <1>1 DEF Requests
<1>2. stopping => finished \/ upc \in {"drain", "leave", "gone"}
  BY DEF Requests
<1>3. CASE Open
  BY <1>3 DEF Open, Requests, Waits, signals
<1>4. ASSUME NEW left, WriteLoop(left) PROVE GivesUp("idle") \/ (UNCHANGED stopping /\ upc' \in {"idle", "write"})
  BY <1>4 DEF WriteLoop, Waits
<1>5. ASSUME NEW n \in CallSizes, WriteBegins(n) PROVE Requests'
  <2>1. GivesUp("idle") \/ (UNCHANGED stopping /\ upc' \in {"idle", "write"})
    BY <1>4, <1>5 DEF WriteBegins
  <2> QED BY <1>1, <1>2, <1>5, <2>1, GivesUpMeans DEF WriteBegins
<1>6. CASE WriteContinues
  <2>1. GivesUp("idle") \/ (UNCHANGED stopping /\ upc' \in {"idle", "write"})
    BY <1>4, <1>6 DEF WriteContinues
  <2> QED BY <1>1, <1>2, <1>6, <2>1, GivesUpMeans DEF WriteContinues
<1>7. ASSUME NEW n, ReadLoop(n), Free, upc \in {"idle", "read"} PROVE Requests'
  <2>1. upc' \in {"idle", "read"}
    BY <1>7 DEF ReadLoop, Waits
  <2> QED BY <1>1, <1>2, <1>7, <2>1 DEF ReadLoop, signals
<1>8. ASSUME NEW n \in CallSizes, ReadBegins(n) PROVE Requests'
  BY <1>7, <1>8 DEF ReadBegins
<1>9. CASE ReadContinues
  <2>1. CASE ReadLoop(rest)
    BY <1>7, <1>9, <2>1 DEF ReadContinues
  <2>2. CASE ~ReadLoop(rest)
    BY <1>1, <1>2, <1>9, <2>2 DEF ReadContinues, signals
  <2> QED BY <2>1, <2>2
<1>10. CASE OpenContinues
  <2>1. GivesUp("gone") \/ (UNCHANGED stopping /\ upc' \in {"idle", "open"})
    BY <1>10 DEF OpenContinues, Waits
  <2> QED BY <1>1, <1>2, <1>10, <2>1, GivesUpMeans DEF OpenContinues
<1>11. CASE CloseBegins
  <2>1. GivesUp("idle") \/ (UNCHANGED stopping /\ upc' \in {"idle", "close"})
    BY <1>11 DEF CloseBegins, Waits
  <2> QED BY <1>1, <1>2, <1>11, <2>1, GivesUpMeans DEF CloseBegins
<1>12. CASE CloseContinues
  <2>1. GivesUp("idle") \/ (UNCHANGED stopping /\ upc' \in {"idle", "close"})
    BY <1>12 DEF CloseContinues, Waits
  <2> QED BY <1>1, <1>2, <1>12, <2>1, GivesUpMeans DEF CloseContinues
<1>13. CASE DrainContinues
  BY <1>13 DEF DrainContinues, Waits, Requests, signals
<1>14. CASE Destroy
  BY <1>14 DEF Destroy, CancelsRequest, Requests
<1>15. CASE RequestCancel
  BY <1>15 DEF RequestCancel, calling, Requests
<1> QED BY <1>3, <1>5, <1>6, <1>8, <1>9, <1>10, <1>11, <1>12, <1>13, <1>14, <1>15
        DEF UserChoice, UserContinues

\* Every step keeps the request in its place.
LEMMA RequestsStep ==
  ASSUME TypeOK, Requests, [Next]_vars PROVE Requests'
<1>1. CASE OtherBegins \/ OtherEnds \/ StopBegins \/ StopLocks \/ ServerStores
           \/ ForeignStores \/ UNCHANGED vars
  BY <1>1 DEF OtherBegins, OtherEnds, StopBegins, StopLocks, ServerStores, ForeignStores,
     Lockable, Free, vars, flags, signals, calling, session, request, counters, Requests, OneRequest, Canceled
<1>2. CASE RequestRuns \/ Curl \/ HttpEvent \/ IdleTimer \/ CertificateAnswered
           \/ UserChoice \/ UserContinues
  BY <1>2, RequestRequests, UserRequests
<1> QED BY <1>1, <1>2 DEF Next, Finished

\* What the server has answered, and what the writer concludes from it.
Answers ==
  /\ stored <=> file = "ours"
  /\ ~upload => file = "absent"
  /\ status \in {"created", "exists"} => upload
  /\ status = "ok" => ~upload
  /\ status = "created" \/ creation = "created" => file = "ours"
  /\ status = "exists" \/ creation = "not_created" => file = "foreign"
  /\ finished /\ ~failure => IF upload THEN file = "ours" /\ Len(consumed) = Length
                                       ELSE produced = Length
  /\ told => finished /\ ~failure /\ Len(consumed) = Length
  /\ told /\ upload => closed
  /\ upc = "close" => closed

\* What they are about; bytes may be consumed before the end of the request.
LEMMA AnswersStand ==
  ASSUME Answers, UNCHANGED <<stored, file, upload, status, creation, finished, failure, told>>,
         closed => closed', upc' = "close" => upc = "close", UNCHANGED ring \/ ~finished
  PROVE  Answers'
BY DEF Answers, ring

\* The request ends with what the server has answered.
LEMMA RequestAnswers ==
  ASSUME TypeOK, Requests, Answers,
         RequestRuns \/ Curl \/ HttpEvent \/ IdleTimer \/ CertificateAnswered
  PROVE  Answers'
<1> USE DEF calling, flags, session, wake, request, counters, libcurl, server, ring
<1>1. hpc # "done" => ~finished
  BY DEF Requests
<1>2. ASSUME Finish(TRUE), hpc # "done",
             UNCHANGED <<stored, file, upload, status, creation, told, closed, upc, consumed,
                         produced>>
      PROVE  Answers'
  BY <1>1, <1>2 DEF Finish, Answers
<1>3. CASE HttpLocks
  <2>1. CASE RequestFails
    BY <1>2, <1>3, <2>1 DEF HttpLocks, RequestFails, AttemptBegins, Finish
  <2>2. CASE ~RequestFails
    BY <1>3, <2>2 DEF HttpLocks, AttemptBegins, Answers
  <2> QED BY <2>1, <2>2
<1>4. CASE HttpBegins
  <2>1. CASE Canceled
    BY <1>2, <1>4, <2>1 DEF HttpBegins, RequestFails
  <2>2. CASE ~Canceled
    BY <1>4, <2>2, AnswersStand DEF HttpBegins
  <2> QED BY <2>1, <2>2
<1>5. CASE HttpSuspends \/ HttpEvent \/ IdleTimer \/ HttpConnects \/ HttpDistrusts
  BY <1>5, AnswersStand DEF HttpSuspends, HttpEvent, IdleTimer, HttpConnects, HttpDistrusts
<1>6. CASE CertificateAnswered
  <2>1. CASE Finish(TRUE)
    BY <1>2, <1>6, <2>1 DEF CertificateAnswered, AttemptBegins, Finish
  <2>2. CASE ~Finish(TRUE)
    BY <1>6, <2>2 DEF CertificateAnswered, AttemptBegins, Answers
  <2> QED BY <2>1, <2>2
<1>7. CASE HttpAnswers
  BY <1>1, <1>7 DEF HttpAnswers, Answers, TypeOK
<1>8. CASE HttpReplays
  BY <1>8 DEF HttpReplays, Replayable, Answers
<1>9. CASE HttpCompletes
  <2>1. CASE upload /\ PutEnds
    BY <1>1, <1>9, <2>1 DEF HttpCompletes, PutEnds, Finish, CreationOf, SentAll, Answers
  <2>2. CASE ~upload /\ GetEnds
    BY <1>1, <1>9, <2>2 DEF HttpCompletes, GetEnds, Finish, Answers
  <2>3. CASE GetFollows
    BY <1>9, <2>3, AnswersStand DEF HttpCompletes, GetFollows
  <2> QED BY <1>9, <2>1, <2>2, <2>3 DEF HttpCompletes
<1>10. CASE HttpBreaks
  BY <1>2, <1>10 DEF HttpBreaks, RequestFails
<1>11. ASSUME NEW n \in CurlSizes, ReadCallback(n) PROVE Answers'
  BY <1>1, <1>11, AnswersStand DEF ReadCallback
<1>12. ASSUME NEW n \in CurlSizes, WriteCallback(n) PROVE Answers'
  <2>1. CASE RequestFails
    BY <1>2, <1>12, <2>1 DEF WriteCallback, RequestFails, Finish
  <2>2. CASE ~RequestFails
    BY <1>1, <1>12, <2>2, AnswersStand DEF WriteCallback
  <2> QED BY <2>1, <2>2
<1> QED BY <1>3, <1>4, <1>5, <1>6, <1>7, <1>8, <1>9, <1>10, <1>11, <1>12 DEF RequestRuns, Curl

\* What is complete stays complete.
LEMMA FullStays ==
  ASSUME BytesTyped, Queue, Moves
  PROVE  /\ produced = Length => produced' = Length
         /\ Len(consumed) = Length => Len(consumed') = Length
<1>1. BytesTyped' /\ Queue'
  BY MovesKeep
<1>2. /\ Len(bytes) \in Nat /\ Len(consumed) \in Nat /\ produced \in Nat /\ Length \in Nat
      /\ produced <= Length /\ Len(bytes') \in Nat /\ Len(consumed') \in Nat
      /\ produced' \in Nat /\ produced' <= Length
  BY <1>1, Numbers DEF BytesTyped
<1>3. Len(consumed) + Len(bytes) = produced /\ Len(consumed') + Len(bytes') = produced'
  BY <1>1 DEF Queue
<1>4. CASE UNCHANGED ring
  BY <1>4 DEF ring
<1>5. ASSUME NEW n \in Nat, n <= Length - produced, Added(n)
      PROVE  produced' = produced + n /\ consumed' = consumed
  BY <1>5 DEF Added
<1>6. ASSUME NEW n \in Nat, n <= Len(bytes), Taken(n)
      PROVE  produced' = produced /\ Len(consumed') = Len(consumed) + n
  BY <1>6, TakeKeeps DEF Taken
<1>7. CASE \E n \in Nat : n <= Room /\ n <= Length - produced /\ Added(n)
  BY <1>2, <1>5, <1>7
<1>8. CASE \E n \in Nat : n <= Len(bytes) /\ Taken(n)
  BY <1>2, <1>3, <1>6, <1>8
<1> QED BY <1>4, <1>7, <1>8 DEF Moves

\* A reader is told the end of the file when it has had all of it.
LEMMA ReadLoopAnswers ==
  ASSUME TypeOK, Queue, Answers, Requests, ~upload, NEW n \in Nat, n > 0, ReadLoop(n)
  PROVE  Answers'
<1>1. BytesTyped /\ Moves
  BY Sizes, ReadMoves
<1>2. UNCHANGED <<stored, file, upload, status, creation, finished, failure, closed>>
      /\ upc' # "close"
  BY DEF ReadLoop, server, request, flags, Waits
<1>3. told' => told \/ (~failure /\ finished /\ bytes = << >>)
  <2>1. Len(bytes) \in Nat /\ (Len(bytes) = 0 => bytes = << >>)
    BY <1>1 DEF BytesTyped
  <2>2. Least(n, Len(bytes)) = 0 => bytes = << >>
    BY <2>1 DEF Least
  <2> QED BY <2>2 DEF ReadLoop, Unreadable
<1>4. finished /\ ~failure /\ bytes = << >> => Len(consumed) = Length
  <2>1. bytes = << >> => Len(consumed) = produced
    BY <1>1, Numbers DEF Queue
  <2> QED BY <2>1 DEF Answers
<1> QED BY <1>1, <1>2, <1>3, <1>4, FullStays DEF Answers

\* The user's calls.
LEMMA UserAnswers ==
  ASSUME TypeOK, Queue, Asked, Requests, Answers, UserChoice \/ UserContinues PROVE Answers'
<1> USE DEF calling, flags, session, wake, request, counters, libcurl, server, ring
<1>1. CASE Open
  BY <1>1 DEF Open, Answers, Requests, Waits
<1>2. ASSUME NEW left, WriteLoop(left) 
      PROVE  (UNCHANGED ring \/ ~finished) /\ UNCHANGED told /\ upc' # "close"
  BY <1>2 DEF WriteLoop, GivesUp, Waits
<1>3. ASSUME NEW n \in CallSizes, WriteBegins(n) PROVE Answers'
  <2>1. (UNCHANGED ring \/ ~finished) /\ UNCHANGED told /\ upc' # "close"
    BY <1>2, <1>3 DEF WriteBegins, GivesUp, Waits
  <2> QED BY <1>3, <2>1, AnswersStand DEF WriteBegins
<1>4. CASE WriteContinues
  <2>1. (UNCHANGED ring \/ ~finished) /\ UNCHANGED told /\ upc' # "close"
    BY <1>2, <1>4 DEF WriteContinues, GivesUp, Waits
  <2> QED BY <1>4, <2>1, AnswersStand DEF WriteContinues
<1>5. ASSUME NEW n \in CallSizes, ReadBegins(n) PROVE Answers'
  BY <1>5, Sizes, ReadLoopAnswers DEF ReadBegins
<1>6. CASE ReadContinues
  <2>1. CASE ReadLoop(rest)
    BY <1>6, <2>1, Sizes, ReadLoopAnswers DEF ReadContinues, Asked
  <2>2. CASE ~ReadLoop(rest)
    BY <1>6, <2>2, AnswersStand DEF ReadContinues
  <2> QED BY <2>1, <2>2
<1>7. CASE OpenContinues
  <2>1. (closed => closed') /\ upc' # "close"
    BY <1>7 DEF OpenContinues, GivesUp, Waits
  <2> QED BY <1>7, <2>1, AnswersStand DEF OpenContinues
<1>8. CASE CloseBegins
  <2>1. closed' /\ (told' => told \/ (finished /\ ~failure /\ upload)) /\ told' \in BOOLEAN
    BY <1>8 DEF CloseBegins, TypeOK
  <2> QED BY <1>8, <2>1 DEF CloseBegins, Answers
<1>9. CASE CloseContinues
  <2>1. told' => told \/ (finished /\ ~failure /\ upload /\ closed)
    <3>1. upload /\ closed
      BY <1>9 DEF CloseContinues, Asked, Answers
    <3> QED BY <1>9, <3>1 DEF CloseContinues
  <2> QED BY <1>9, <2>1 DEF CloseContinues, Answers
<1>10. CASE DrainContinues \/ Destroy \/ RequestCancel
  BY <1>10, AnswersStand DEF DrainContinues, Destroy, RequestCancel, Waits
<1> QED BY <1>1, <1>3, <1>4, <1>5, <1>6, <1>7, <1>8, <1>9, <1>10
        DEF UserChoice, UserContinues

\* Every step keeps the answers true.
LEMMA AnswersStep ==
  ASSUME TypeOK, Queue, Asked, Requests, Answers, [Next]_vars PROVE Answers'
<1>1. CASE OtherBegins \/ OtherEnds \/ StopBegins \/ StopLocks \/ UNCHANGED vars
  BY <1>1, AnswersStand DEF OtherBegins, OtherEnds, StopBegins, StopLocks, vars, flags,
     calling, request, server
<1>2. CASE ServerStores \/ ForeignStores
  BY <1>2 DEF ServerStores, ForeignStores, Answers, TypeOK, flags, calling, request, ring
<1>3. CASE RequestRuns \/ Curl \/ HttpEvent \/ IdleTimer \/ CertificateAnswered
           \/ UserChoice \/ UserContinues
  BY <1>3, RequestAnswers, UserAnswers
<1> QED BY <1>1, <1>2, <1>3 DEF Next, Finished

-----------------------------------------------------------------------------
(* The pauses.                                                             *)

\* What libcurl has paused, and why: the stream knows of every pause of this
\* request that nobody is about to undo.
Pauses ==
  hpc \in {"begin", "act", "wait"} =>
    /\ mask \subseteq curl
    /\ link = "none" => mask = {}
    /\ link = "set" => curl = mask
    /\ "send" \in mask => upload
    /\ "recv" \in mask => ~upload
    /\ "send" \in mask /\ ~resume_pending => paused /\ bytes = << >>
    /\ "recv" \in mask /\ ~resume_pending => held = chunk /\ held > Room

\* What Pauses is about.
LEMMA PausesStand ==
  ASSUME Pauses, UNCHANGED <<hpc, mask, curl, link, upload, resume_pending, paused, chunk, held>>,
         UNCHANGED ring
  PROVE  Pauses'
BY DEF Pauses, ring, Room

\* The request's own steps: every turn looks at the resumption first.
LEMMA RequestPauses ==
  ASSUME TypeOK, Requests, Pauses,
         RequestRuns \/ Curl \/ HttpEvent \/ IdleTimer \/ CertificateAnswered
  PROVE  Pauses'
<1> USE DEF pauses, session, wake, request, libcurl
<1>1. ASSUME NEW failed, Finish(failed) PROVE Pauses'
  BY <1>1 DEF Finish, Pauses
<1>2. ASSUME AttemptBegins PROVE Pauses'
  BY <1>2 DEF AttemptBegins, Pauses
<1>3. CASE HttpLocks \/ CertificateAnswered
  BY <1>1, <1>2, <1>3 DEF HttpLocks, RequestFails, CertificateAnswered
<1>4. CASE HttpBegins
  <2>1. CASE Canceled
    BY <1>1, <1>4, <2>1 DEF HttpBegins, RequestFails
  <2>2. CASE ~Canceled
    BY <1>4, <2>2 DEF HttpBegins, Pauses, ring, Room
  <2> QED BY <2>1, <2>2
<1>5. CASE HttpSuspends
  <2>1. UNCHANGED <<resume_pending, upload, paused, chunk, held>> /\ UNCHANGED ring /\ hpc = "act"
    BY <1>5 DEF HttpSuspends
  <2>2. /\ mask' \subseteq mask /\ mask' \subseteq curl'
        /\ link' = "set" => curl' = mask'
        /\ link' = "none" => link = "none"
    BY <1>5 DEF HttpSuspends, Pauses
  <2> QED BY <2>1, <2>2 DEF Pauses, ring, Room
<1>6. CASE HttpEvent \/ IdleTimer \/ HttpAnswers \/ HttpReplays
  BY <1>6, PausesStand DEF HttpEvent, IdleTimer, HttpAnswers, HttpReplays
<1>7. CASE HttpConnects
  BY <1>7 DEF HttpConnects, Pauses, ring, Room
<1>8. CASE HttpDistrusts \/ HttpCompletes \/ HttpBreaks
  <2>1. hpc' \in {"certify", "done", "lock"}
    BY <1>8 DEF HttpDistrusts, HttpCompletes, HttpBreaks, RequestFails, PutEnds, GetEnds,
       GetFollows, Finish
  <2> QED BY <2>1 DEF Pauses
<1>9. ASSUME NEW n \in CurlSizes, ReadCallback(n) PROVE Pauses'
  <2>1. hpc = "act" /\ upload /\ link # "none" /\ "send" \notin curl /\ "send" \notin mask
    BY <1>9 DEF ReadCallback, Pauses
  <2>2. "recv" \notin mask
    BY <2>1 DEF Pauses
  <2>3. CASE bytes = << >>
    <3>1. /\ mask' = mask \cup {"send"} /\ curl' = curl \cup {"send"} /\ paused'
          /\ bytes' = << >> /\ UNCHANGED <<link, hpc, upload>>
      BY <1>9, <2>3 DEF ReadCallback, SendChunk, ring
    <3> QED BY <2>1, <2>2, <3>1 DEF Pauses
  <2>4. CASE bytes # << >>
    <3>1. mask' = mask /\ UNCHANGED <<curl, link, hpc, upload, resume_pending>>
      BY <1>9, <2>1, <2>4 DEF ReadCallback
    <3> QED BY <2>1, <2>2, <3>1 DEF Pauses
  <2> QED BY <2>3, <2>4
<1>10. ASSUME NEW n \in CurlSizes, WriteCallback(n) PROVE Pauses'
  <2>1. CASE RequestFails
    BY <1>1, <2>1 DEF RequestFails
  <2>2. CASE ~RequestFails
    <3>1. hpc = "act" /\ ~upload /\ link # "none" /\ "recv" \notin curl /\ "recv" \notin mask
      BY <1>10 DEF WriteCallback, Pauses
    <3>2. "send" \notin mask
      BY <3>1 DEF Pauses
    <3>3. CASE n > Room
      BY <1>10, <2>2, <3>1, <3>2, <3>3 DEF WriteCallback, ReceiveChunk, Pauses, ring, Room
    <3>4. CASE ~(n > Room)
      <4>1. mask' = mask /\ UNCHANGED <<curl, link, hpc, upload, resume_pending>>
        BY <1>10, <2>2, <3>1, <3>4 DEF WriteCallback
      <4> QED BY <3>1, <3>2, <4>1 DEF Pauses
    <3> QED BY <3>3, <3>4
  <2> QED BY <2>1, <2>2
<1> QED BY <1>3, <1>4, <1>5, <1>6, <1>7, <1>8, <1>9, <1>10 DEF RequestRuns, Curl

\* A writer that fills, and a reader that empties, resume what they end the cause of.
LEMMA WriteLoopPauses ==
  ASSUME TypeOK, Pauses, upload, NEW left \in Nat, WriteLoop(left),
         UNCHANGED <<hpc, mask, curl, link, upload, chunk, held>>
  PROVE  Pauses'
<1>1. CASE UNCHANGED <<paused, resume_pending>> /\ UNCHANGED ring
  BY <1>1, PausesStand
<1>2. CASE ~(UNCHANGED <<paused, resume_pending>> /\ UNCHANGED ring)
  <2> DEFINE size == Least(left, Room)
  <2>1. /\ Added(size)
        /\ size > 0 /\ paused => resume_pending'
        /\ ~(size > 0 /\ paused) => UNCHANGED <<paused, resume_pending>>
    BY <1>2 DEF WriteLoop, Resumes, Resume, Added, wake
  <2>2. size \in Nat /\ Len(bytes) \in Nat
    BY Sizes, Numbers, LeastIs
  <2> HIDE DEF size
  <2>3. size = 0 => bytes' = bytes
    <3>1. size = 0 => bytes' = bytes \o << >>
      BY <2>1 DEF Added
    <3> QED BY <3>1, Sizes DEF BytesTyped
  <2>4. "recv" \in mask /\ hpc \in {"begin", "act", "wait"} => FALSE
    BY DEF Pauses
  <2> QED BY <2>1, <2>2, <2>3, <2>4 DEF Pauses, ring
<1> QED BY <1>1, <1>2

\* The reader resumes curl, or leaves less room than the chunk needs.
LEMMA ReadLoopPauses ==
  ASSUME TypeOK, Requests, Pauses, ~upload, NEW n \in Nat, ReadLoop(n), Free
  PROVE  Pauses'
<1>1. UNCHANGED <<hpc, mask, curl, link, upload, paused, held, finished>>
  BY DEF ReadLoop, request, libcurl, flags
<1>2. CASE UNCHANGED <<chunk, resume_pending>> /\ UNCHANGED ring
  BY <1>1, <1>2, PausesStand
<1>3. CASE ~(UNCHANGED <<chunk, resume_pending>> /\ UNCHANGED ring)
  <2> DEFINE size == Least(n, Len(bytes))
  <2>1. /\ Taken(size)
        /\ \/ resume_pending'
           \/ ~RoomForChunk(size) /\ UNCHANGED <<chunk, resume_pending>>
    BY <1>3 DEF ReadLoop, Resume, Taken, wake
  <2>2. size \in Nat /\ size <= Len(bytes) /\ Len(bytes) \in Nat /\ Room \in Nat
        /\ Capacity \in Nat /\ chunk \in Nat
    BY Sizes, Numbers, LeastIs
  <2> HIDE DEF size
  <2>3. "send" \in mask /\ hpc \in {"begin", "act", "wait"} => FALSE
    BY DEF Pauses
  <2>4. ASSUME "recv" \in mask, hpc \in {"begin", "act", "wait"}, ~resume_pending'
        PROVE  held' = chunk' /\ held' > Room'
    <3>0. BytesTyped /\ Room' = Room + size
      <4>1. BytesTyped
        BY Sizes
      <4>2. Len(bytes') = Len(bytes) - size
        BY <2>1, <2>2, <4>1 DEF Taken, BytesTyped
      <4> QED BY <2>2, <4>1, <4>2 DEF Room
    <3>1. ~resume_pending /\ ~RoomForChunk(size) /\ UNCHANGED chunk /\ held = chunk /\ held > Room
      BY <2>1, <2>4 DEF Pauses
    <3>2. ~finished
      BY <2>4 DEF Requests
    <3> QED BY <1>1, <2>2, <3>0, <3>1, <3>2 DEF RoomForChunk
  <2> QED BY <1>1, <2>3, <2>4 DEF Pauses
<1> QED BY <1>2, <1>3

\* The user's calls.
LEMMA UserPauses ==
  ASSUME TypeOK, Asked, Requests, Pauses, UserChoice \/ UserContinues PROVE Pauses'
<1> USE DEF pauses, session, wake, request, libcurl
<1>1. CASE Open
  BY <1>1 DEF Open, Pauses
<1>2. ASSUME NEW n \in CallSizes, WriteBegins(n) PROVE Pauses'
  <2>1. CASE n > Length - produced
    BY <1>2, <2>1, PausesStand DEF WriteBegins
  <2>2. CASE ~(n > Length - produced)
    BY <1>2, <2>2, Sizes, WriteLoopPauses DEF WriteBegins
  <2> QED BY <2>1, <2>2
<1>3. ASSUME NEW n \in CallSizes, ReadBegins(n) PROVE Pauses'
  BY <1>3, Sizes, ReadLoopPauses DEF ReadBegins
<1>4. CASE WriteContinues
  <2>1. CASE waiting = "canceled"
    BY <1>4, <2>1, PausesStand DEF WriteContinues
  <2>2. CASE waiting # "canceled"
    <3>1. upload /\ rest \in Nat
      BY <1>4, Sizes DEF WriteContinues, Asked
    <3> QED BY <1>4, <2>2, <3>1, WriteLoopPauses DEF WriteContinues
  <2> QED BY <2>1, <2>2
<1>5. CASE ReadContinues
  <2>1. CASE ReadLoop(rest)
    BY <1>5, <2>1, Sizes, ReadLoopPauses DEF ReadContinues, Asked
  <2>2. CASE ~ReadLoop(rest)
    BY <1>5, <2>2, PausesStand DEF ReadContinues
  <2> QED BY <2>1, <2>2
<1>6. CASE OpenContinues \/ CloseBegins \/ CloseContinues
  BY <1>6, PausesStand DEF OpenContinues, CloseBegins, CloseContinues
<1>7. CASE DrainContinues \/ Destroy \/ RequestCancel
  BY <1>7, PausesStand DEF DrainContinues, Destroy, RequestCancel
<1> QED BY <1>1, <1>2, <1>3, <1>4, <1>5, <1>6, <1>7 DEF UserChoice, UserContinues

\* Every step keeps the pauses; another request uses libcurl only between two of these.
LEMMA PausesStep ==
  ASSUME TypeOK, Asked, Requests, Pauses, [Next]_vars PROVE Pauses'
<1> USE DEF pauses, session, wake, request, libcurl
<1>1. CASE OtherBegins \/ StopBegins \/ StopLocks \/ ServerStores \/ ForeignStores
           \/ UNCHANGED vars
  BY <1>1, PausesStand DEF OtherBegins, StopBegins, StopLocks, ServerStores, ForeignStores, vars
<1>2. CASE OtherEnds
  <2>1. hpc' \notin {"begin", "act", "wait"}
    BY <1>2 DEF OtherEnds, Requests, OneRequest
  <2> QED BY <2>1 DEF Pauses
<1>3. CASE RequestRuns \/ Curl \/ HttpEvent \/ IdleTimer \/ CertificateAnswered
           \/ UserChoice \/ UserContinues
  BY <1>3, RequestPauses, UserPauses
<1> QED BY <1>1, <1>2, <1>3 DEF Next, Finished

-----------------------------------------------------------------------------
(* The user's waits.                                                       *)

\* Who waits, and what for.
Awaits ==
  /\ upc = "new" => bytes = << >>
  /\ waiting = "waiting" =>
      /\ upc \in {"open", "read", "write", "close", "drain", "leave"}
      /\ ~finished
      /\ upc \in {"read", "open"} => bytes = << >>
      /\ upc = "write" => Room = 0

\* What Awaits is about.
LEMMA AwaitsStand ==
  ASSUME Awaits, UNCHANGED <<upc, waiting, finished>>, UNCHANGED ring PROVE Awaits'
BY DEF Awaits, ring, Room

\* Whoever has been woken, or goes on, does not wait.
LEMMA NobodyWaits ==
  ASSUME waiting' # "waiting", upc' # "new" PROVE Awaits'
BY DEF Awaits

\* The request wakes the user when it changes the ring and when it ends.
LEMMA RequestAwaits ==
  ASSUME TypeOK, Requests, Awaits,
         RequestRuns \/ Curl \/ HttpEvent \/ IdleTimer \/ CertificateAnswered
  PROVE  Awaits'
<1> USE DEF calling, flags
<1>1. hpc # "none" => upc # "new"
  BY DEF Requests
<1>2. ASSUME WakeUser PROVE waiting' # "waiting"
  BY <1>2 DEF WakeUser
<1>3. ASSUME NEW failed, Finish(failed), UNCHANGED upc, upc # "new" PROVE Awaits'
  BY <1>2, <1>3, NobodyWaits DEF Finish
<1>4. CASE HttpLocks \/ CertificateAnswered
  BY <1>1, <1>3, <1>4, AwaitsStand DEF HttpLocks, RequestFails, CertificateAnswered
<1>5. CASE HttpBegins
  <2>1. CASE Canceled
    BY <1>1, <1>3, <1>5, <2>1 DEF HttpBegins, RequestFails
  <2>2. CASE ~Canceled
    BY <1>5, <2>2, AwaitsStand DEF HttpBegins
  <2> QED BY <2>1, <2>2
<1>6. CASE HttpSuspends \/ HttpEvent \/ IdleTimer \/ HttpConnects \/ HttpDistrusts
           \/ HttpAnswers \/ HttpReplays
  BY <1>6, AwaitsStand DEF HttpSuspends, HttpEvent, IdleTimer, HttpConnects, HttpDistrusts,
     HttpAnswers, HttpReplays
<1>7. CASE HttpCompletes
  <2>1. CASE PutEnds \/ GetEnds
    BY <1>1, <1>3, <1>7, <2>1 DEF HttpCompletes, PutEnds, GetEnds
  <2>2. CASE GetFollows
    BY <1>7, <2>2, AwaitsStand DEF HttpCompletes, GetFollows
  <2> QED BY <1>7, <2>1, <2>2 DEF HttpCompletes
<1>8. CASE HttpBreaks
  BY <1>1, <1>3, <1>8 DEF HttpBreaks, RequestFails
<1>9. ASSUME NEW n \in CurlSizes, ReadCallback(n) PROVE Awaits'
  <2>1. (UNCHANGED ring /\ UNCHANGED waiting) \/ WakeUser
    BY <1>9 DEF ReadCallback, SendChunk
  <2> QED BY <1>1, <1>2, <1>9, <2>1, AwaitsStand, NobodyWaits DEF ReadCallback
<1>10. ASSUME NEW n \in CurlSizes, WriteCallback(n) PROVE Awaits'
  <2>1. CASE RequestFails
    BY <1>1, <1>3, <1>10, <2>1 DEF WriteCallback, RequestFails
  <2>2. CASE ~RequestFails
    <3>1. (UNCHANGED ring /\ UNCHANGED waiting) \/ WakeUser
      BY <1>10, <2>2 DEF WriteCallback, ReceiveChunk
    <3> QED BY <1>1, <1>2, <1>10, <2>2, <3>1, AwaitsStand, NobodyWaits DEF WriteCallback
  <2> QED BY <2>1, <2>2
<1> QED BY <1>4, <1>5, <1>6, <1>7, <1>8, <1>9, <1>10 DEF RequestRuns, Curl

\* Giving up waits for the end of a request that has not ended.
LEMMA GivesUpAwaits ==
  ASSUME TypeOK, UNCHANGED finished
  PROVE  \A next \in {"idle", "gone"} : GivesUp(next) => Awaits'
BY GivesUpMeans DEF Awaits

\* A writer waits when the ring is full.
LEMMA WriteLoopAwaits ==
  ASSUME TypeOK, NEW left \in Nat, WriteLoop(left), UNCHANGED finished
  PROVE  Awaits'
<1>1. CASE GivesUp("idle")
  BY <1>1, GivesUpAwaits
<1>2. CASE ~GivesUp("idle")
  <2> DEFINE size == Least(left, Room)
  <2>1. /\ Added(size) /\ ~finished
        /\ \/ size < left /\ upc' = "write" /\ waiting' = "waiting"
           \/ upc' = "idle" /\ waiting' = "none"
    BY <1>2 DEF WriteLoop, Added, Waits
  <2>2. BytesTyped /\ Room \in Nat /\ Capacity \in Nat /\ Len(bytes) \in Nat
    BY Sizes, Numbers
  <2>3. size \in Nat /\ size <= Room /\ (size = left \/ size = Room)
    BY <2>2, LeastIs
  <2> HIDE DEF size
  <2>4. Len(bytes') = Len(bytes) + size
    <3>1. size \in Nat
      BY <2>3
    <3>2. Len([i \in 1..size |-> produced + i]) = size
      BY <3>1
    <3>3. [i \in 1..size |-> produced + i] \in Seq(Nat)
      BY <2>2, <3>1 DEF BytesTyped
    <3>4. bytes \in Seq(Nat)
      <4>1. \A i \in 1..Len(bytes) : bytes[i] \in Nat
        <5>1. ASSUME NEW i \in 1..Len(bytes) PROVE bytes[i] \in 1..Length
          BY <2>2, ElementOfSeq DEF BytesTyped
        <5> QED BY <5>1
      <4>2. bytes = [i \in 1..Len(bytes) |-> bytes[i]]
        BY <2>2 DEF BytesTyped
      <4> QED BY <2>2, <4>1, <4>2
    <3> QED BY <2>1, <3>2, <3>3, <3>4, ConcatProperties DEF Added
  <2>5. size < left => Room' = 0
    BY <2>2, <2>3, <2>4 DEF Room
  <2> QED BY <2>1, <2>5 DEF Awaits
<1> QED BY <1>1, <1>2

\* A reader waits when the ring is empty.
LEMMA ReadLoopAwaits ==
  ASSUME NEW n, ReadLoop(n) PROVE Awaits'
<1>1. \/ upc' = "read" /\ bytes = << >> /\ ~finished /\ UNCHANGED <<finished, bytes>>
      \/ upc' = "idle" /\ waiting' = "none"
  BY DEF ReadLoop, Waits, flags, ring
<1> QED BY <1>1 DEF Awaits

\* The user's calls.
LEMMA UserAwaits ==
  ASSUME TypeOK, Requests, Awaits, UserChoice \/ UserContinues PROVE Awaits'
<1> USE DEF calling, flags
<1>1. CASE Open
  <2>1. ~finished /\ bytes = << >> /\ waiting # "waiting"
    BY <1>1 DEF Open, Requests, Awaits
  <2> QED BY <1>1, <2>1 DEF Open, Waits, ring, Awaits
<1>2. ASSUME NEW n \in CallSizes, WriteBegins(n) PROVE Awaits'
  BY <1>2, Sizes, WriteLoopAwaits, GivesUpAwaits DEF WriteBegins
<1>3. ASSUME NEW n \in CallSizes, ReadBegins(n) PROVE Awaits'
  BY <1>3, ReadLoopAwaits DEF ReadBegins
<1>4. CASE WriteContinues
  BY <1>4, Sizes, WriteLoopAwaits, GivesUpAwaits DEF WriteContinues
<1>5. CASE ReadContinues
  BY <1>5, ReadLoopAwaits, NobodyWaits DEF ReadContinues
<1>6. CASE OpenContinues
  BY <1>6, GivesUpAwaits DEF OpenContinues, Waits, ring, Awaits
<1>7. CASE CloseBegins \/ CloseContinues
  BY <1>7, GivesUpAwaits DEF CloseBegins, CloseContinues, Waits, Awaits
<1>8. CASE DrainContinues \/ Destroy \/ RequestCancel
  BY <1>8 DEF DrainContinues, Destroy, RequestCancel, Waits, Awaits, ring, Room
<1> QED BY <1>1, <1>2, <1>3, <1>4, <1>5, <1>6, <1>7, <1>8 DEF UserChoice, UserContinues

\* Every step keeps the waits.
LEMMA AwaitsStep ==
  ASSUME TypeOK, Requests, Awaits, [Next]_vars PROVE Awaits'
<1>1. CASE OtherBegins \/ OtherEnds \/ StopBegins \/ StopLocks \/ ServerStores
           \/ ForeignStores \/ UNCHANGED vars
  BY <1>1, AwaitsStand DEF OtherBegins, OtherEnds, StopBegins, StopLocks, ServerStores,
     ForeignStores, vars, flags, calling
<1>2. CASE RequestRuns \/ Curl \/ HttpEvent \/ IdleTimer \/ CertificateAnswered
           \/ UserChoice \/ UserContinues
  BY <1>2, RequestAwaits, UserAwaits
<1> QED BY <1>1, <1>2 DEF Next, Finished

-----------------------------------------------------------------------------
(* The inductive invariant, and what follows from it.                          *)

StreamInv == TypeOK /\ Queue /\ Asked /\ Requests /\ Answers /\ Pauses /\ Awaits

\* The initial states satisfy it.
LEMMA StreamInit == Init => StreamInv
<1> SUFFICES ASSUME Init PROVE StreamInv
  OBVIOUS
<1> USE DEF Init
<1>1. BytesTyped /\ Queue
  BY WebdavAssumption DEF BytesTyped, Queue
<1>2. Types
  <2>1. 0 \in 0..MaxRedirects /\ 0 \in 0..MaxConfirmations /\ 0 \in Rests
    BY WebdavAssumption, CallRests
  <2>2. /\ paused \in BOOLEAN /\ finished \in BOOLEAN /\ closed \in BOOLEAN
        /\ failure \in BOOLEAN /\ stopping \in BOOLEAN /\ parent \in BOOLEAN
        /\ told \in BOOLEAN /\ stopped \in BOOLEAN /\ resume_pending \in BOOLEAN
        /\ sockets \in BOOLEAN /\ expired \in BOOLEAN /\ stored \in BOOLEAN
    OBVIOUS
  <2> QED BY <2>1, <2>2 DEF Types, Directions, Statuses
<1>3. Asked /\ Requests
  BY WebdavAssumption DEF Asked, Requests, OneRequest
<1>4. Answers /\ Pauses /\ Awaits
  BY DEF Answers, Pauses, Awaits
<1> QED BY <1>1, <1>2, <1>3, <1>4, TypeParts DEF StreamInv

\* Every step keeps it.
LEMMA StreamStep == StreamInv /\ [Next]_vars => StreamInv'
<1> SUFFICES ASSUME StreamInv, [Next]_vars PROVE StreamInv'
  OBVIOUS
<1>1. TypeOK /\ Queue /\ Asked /\ Requests /\ Answers /\ Pauses /\ Awaits
  BY DEF StreamInv
<1>2. BytesTyped' /\ Queue'
  BY <1>1, QueueStep
<1>3. Types'
  <2>1. hpc = "certify" => confirmations < MaxConfirmations
    BY <1>1 DEF Requests
  <2> QED BY <1>1, <2>1, TypesStep
<1>4. TypeOK'
  BY <1>2, <1>3, TypeParts DEF TypeOK, BytesTyped, Types, Rests
<1>5. Asked' /\ Requests' /\ Answers' /\ Pauses' /\ Awaits'
  BY <1>1, AskedStep, RequestsStep, AnswersStep, PausesStep, AwaitsStep
<1> QED BY <1>2, <1>4, <1>5 DEF StreamInv

\* The invariant of the stream holds in every reachable state.
THEOREM StreamInvariant == Spec => []StreamInv
<1> QED BY StreamInit, StreamStep, PTL DEF Spec

\* What the user of the stream is told is true: the creation that is reported, a close
\* that returned and an end of file (webdav-stream.cpp:238-244); and neither the
\* user nor libcurl sleeps on what has happened (webdav-stream.cpp:146-150, 209-212, 280-283).
THEOREM StreamIsSound == Spec => []StreamSound
<1>1. StreamInv => StreamSound
  <2> SUFFICES ASSUME StreamInv PROVE StreamSound
    OBVIOUS
  <2>1. TypeOK /\ Answers /\ Pauses /\ Awaits
    BY DEF StreamInv
  <2>2. CreationProven /\ ToldIsWhole
    BY <2>1 DEF Answers, CreationProven, ToldIsWhole, TypeOK
  <2>3. NoLostWake
    BY <2>1 DEF Awaits, NoLostWake
  <2>4. NoLostResume
    BY <2>1 DEF Pauses, NoLostResume
  <2>5. PausedByUser
    BY <2>1 DEF Pauses, PausedByUser, TypeOK, Directions
  <2> QED BY <2>1, <2>2, <2>3, <2>4, <2>5 DEF StreamSound, ToldTrue, NoneSleeps
<1> QED BY <1>1, StreamInvariant, PTL

\* One request at a time uses the easy handle, and none when it is freed: the safety
\* part of RequestsEnd (curl-http-session.cpp, the session's mutex).
THEOREM RequestsTakeTurns == Spec => []OneRequest
<1>1. StreamInv => OneRequest
  BY DEF StreamInv, Requests
<1> QED BY <1>1, StreamInvariant, PTL

-----------------------------------------------------------------------------
(* The transfer implements the channel.                                      *)

Outcome == IF told THEN "complete"
           ELSE IF failure \/ stopping \/ parent \/ upc = "gone" THEN "broken" ELSE "open"

\* A move of an open transfer produces or consumes.
LEMMA MoveIsStep ==
  ASSUME BytesTyped, Queue, Moves, Outcome = "open", UNCHANGED Outcome
  PROVE  [Channel!Next]_Channel!vars
<1>1. CASE UNCHANGED ring
  BY <1>1 DEF ring, Outcome, Channel!vars
<1>2. ASSUME NEW n \in Nat, n <= Length - produced, Added(n)
      PROVE  [Channel!Next]_Channel!vars
  <2>1. produced' = produced + n /\ consumed' = consumed /\ produced \in Nat /\ Length \in Nat
    BY <1>2, Numbers DEF Added
  <2>2. CASE n = 0
    BY <2>1, <2>2 DEF Outcome, Channel!vars
  <2>3. CASE n # 0
    <3>1. n \in 1..(Length - produced)
      BY <1>2, <2>1, <2>3
    <3> QED BY <2>1, <3>1 DEF Channel!Next, Channel!Produce, Outcome
  <2> QED BY <2>2, <2>3
<1>3. ASSUME NEW n \in Nat, n <= Len(bytes), Taken(n)
      PROVE  [Channel!Next]_Channel!vars
  <2>1. /\ produced' = produced /\ Len(consumed') = Len(consumed) + n
        /\ BytesTyped' /\ Queue'
    BY <1>3, TakeKeeps DEF Taken
  <2>2. /\ consumed = [i \in 1..Len(consumed) |-> i]
        /\ consumed' = [i \in 1..Len(consumed') |-> i]
    BY <2>1 DEF BytesTyped, Queue
  <2>3. Len(consumed) \in Nat /\ Len(bytes) \in Nat /\ Len(consumed) + Len(bytes) = produced
    BY Numbers DEF Queue
  <2>4. CASE n = 0
    <3>1. consumed' = consumed
      BY <2>1, <2>2, <2>3, <2>4
    <3> QED BY <2>1, <3>1 DEF Outcome, Channel!vars
  <2>5. CASE n # 0
    <3>1. n \in 1..(produced - Len(consumed))
      BY <1>3, <2>3, <2>5
    <3> QED BY <2>1, <2>2, <3>1 DEF Channel!Next, Channel!Consume, Outcome
  <2> QED BY <2>4, <2>5
<1> QED BY <1>1, <1>2, <1>3 DEF Moves

\* A step that changes the outcome: an open transfer completes when everything has
\* been consumed, or breaks; it exchanges no byte.
Settles == /\ UNCHANGED ring /\ Outcome = "open" /\ Outcome' \in {"complete", "broken"}
           /\ Outcome' = "complete" => Len(consumed) = produced

\* It is a step of the channel.
LEMMA SettleIsStep ==
  ASSUME Settles PROVE [Channel!Next]_Channel!vars
BY DEF Settles, Outcome, ring, Channel!Next, Channel!Complete, Channel!Break, Channel!vars

\* Nothing that the channel knows of changes.
LEMMA ChannelStutters ==
  ASSUME UNCHANGED ring, UNCHANGED Outcome PROVE UNCHANGED Channel!vars
BY DEF Channel!vars, Outcome, ring

\* What has ended the transfer stays; nothing but an open transfer becomes complete.
Monotone == /\ told => told'
            /\ failure => failure'
            /\ stopping => stopping'
            /\ parent => parent'
            /\ upc = "gone" => upc' = "gone"
            /\ told' => told \/ Outcome = "open"

\* A step that leaves the ring alone settles, or is none of the channel.
LEMMA MonotoneSettles ==
  ASSUME StreamInv, StreamInv', Monotone, UNCHANGED ring
  PROVE  [Channel!Next]_Channel!vars
<1>1. CASE Outcome' = Outcome
  BY <1>1, ChannelStutters
<1>2. CASE Outcome' # Outcome
  <2>1. Outcome = "open" /\ Outcome' \in {"complete", "broken"}
    BY <1>2 DEF Monotone, Outcome
  <2>2. Outcome' = "complete" => Len(consumed) = produced
    <3>1. Outcome' = "complete" => Len(consumed) = Length
      BY DEF StreamInv, Answers, Outcome, ring
    <3>2. /\ Len(consumed) \in Nat /\ Len(bytes) \in Nat /\ produced \in Nat /\ Length \in Nat
          /\ produced <= Length /\ Len(consumed) + Len(bytes) = produced
      BY Sizes, Numbers DEF StreamInv, Queue
    <3> QED BY <3>1, <3>2
  <2> QED BY <2>1, <2>2, SettleIsStep DEF Settles
<1> QED BY <1>1, <1>2

\* Everything the outcome is made of stands.
LEMMA OutcomeStands ==
  ASSUME UNCHANGED <<told, failure, stopping, parent, upc>> PROVE Monotone /\ UNCHANGED Outcome
BY DEF Monotone, Outcome

\* The request and libcurl.
LEMMA RequestChannel ==
  ASSUME StreamInv, StreamInv',
         RequestRuns \/ Curl \/ HttpEvent \/ IdleTimer \/ CertificateAnswered
  PROVE  [Channel!Next]_Channel!vars
<1> USE DEF calling, flags, signals
<1>1. TypeOK /\ Queue /\ Asked /\ Requests /\ Answers /\ BytesTyped
  BY Sizes DEF StreamInv
<1>2. ASSUME NEW failed, Finish(failed), hpc # "done", UNCHANGED ring,
             UNCHANGED <<told, stopping, parent, upc>>
      PROVE  [Channel!Next]_Channel!vars
  <2>1. ~failure
    BY <1>1, <1>2 DEF Requests
  <2> QED BY <1>2, <2>1, MonotoneSettles DEF Monotone
<1>3. CASE HttpLocks \/ CertificateAnswered
  <2>1. UNCHANGED ring /\ UNCHANGED <<told, stopping, parent, upc>> /\ hpc # "done"
    BY <1>3 DEF HttpLocks, CertificateAnswered
  <2>2. UNCHANGED failure \/ \E failed \in BOOLEAN : Finish(failed)
    BY <1>3 DEF HttpLocks, CertificateAnswered, RequestFails
  <2> QED BY <1>2, <2>1, <2>2, OutcomeStands, MonotoneSettles
<1>4. CASE HttpBegins
  <2>1. UNCHANGED ring /\ UNCHANGED <<told, stopping, parent, upc>> /\ hpc # "done"
    BY <1>4 DEF HttpBegins
  <2>2. UNCHANGED failure \/ \E failed \in BOOLEAN : Finish(failed)
    BY <1>4 DEF HttpBegins, RequestFails
  <2> QED BY <1>2, <2>1, <2>2, OutcomeStands, MonotoneSettles
<1>5. CASE HttpSuspends \/ HttpEvent \/ IdleTimer \/ HttpConnects \/ HttpDistrusts
           \/ HttpAnswers \/ HttpReplays
  <2>1. UNCHANGED ring /\ UNCHANGED <<told, failure, stopping, parent, upc>>
    BY <1>5 DEF HttpSuspends, HttpEvent, IdleTimer, HttpConnects, HttpDistrusts,
       HttpAnswers, HttpReplays
  <2> QED BY <2>1, OutcomeStands, MonotoneSettles
<1>6. CASE HttpCompletes \/ HttpBreaks
  <2>1. UNCHANGED ring /\ UNCHANGED <<told, stopping, parent, upc>> /\ hpc # "done"
    BY <1>6 DEF HttpCompletes, HttpBreaks
  <2>2. UNCHANGED failure \/ \E failed \in BOOLEAN : Finish(failed)
    BY <1>6 DEF HttpCompletes, HttpBreaks, RequestFails, PutEnds, GetEnds, GetFollows
  <2> QED BY <1>2, <2>1, <2>2, OutcomeStands, MonotoneSettles
<1>7. ASSUME NEW n \in CurlSizes, ReadCallback(n) \/ WriteCallback(n)
      PROVE  [Channel!Next]_Channel!vars
  <2>1. Outcome = "open" /\ hpc = "act"
    <3>1. hpc = "act"
      BY <1>7 DEF ReadCallback, WriteCallback
    <3>2. ~finished /\ ~parent /\ ~stopping
      BY <1>1, <3>1 DEF Requests, Canceled
    <3>3. ~failure /\ ~told /\ upc # "gone"
      BY <1>1, <3>2 DEF Requests, Answers
    <3> QED BY <3>1, <3>2, <3>3 DEF Outcome
  <2>2. Moves
    BY <1>1, <1>7, CallbackMoves
  <2>3. CASE UNCHANGED failure
    <3>1. UNCHANGED Outcome
      BY <1>7, <2>3 DEF ReadCallback, WriteCallback, Outcome
    <3> QED BY <1>1, <2>1, <2>2, <3>1, MoveIsStep
  <2>4. CASE ~UNCHANGED failure
    <3>1. Finish(TRUE) /\ UNCHANGED ring /\ UNCHANGED <<told, stopping, parent, upc>>
      BY <1>7, <2>4 DEF ReadCallback, WriteCallback, RequestFails, ring
    <3> QED BY <1>2, <2>1, <3>1
  <2> QED BY <2>3, <2>4
<1> QED BY <1>3, <1>4, <1>5, <1>6, <1>7 DEF RequestRuns, Curl

\* A user that has not ended the transfer exchanges bytes with an open one.
LEMMA WriteLoopChannel ==
  ASSUME StreamInv, StreamInv', NEW left \in Nat, left <= Length - produced, WriteLoop(left),
         upc \in {"idle", "write"}, UNCHANGED <<parent, failure>>
  PROVE  [Channel!Next]_Channel!vars
<1>1. TypeOK /\ Queue /\ Requests /\ Answers /\ BytesTyped
  BY Sizes DEF StreamInv
<1>2. CASE GivesUp("idle") /\ UNCHANGED ring
  <2>1. Monotone
    BY <1>1, <1>2, GivesUpMeans DEF Monotone, WriteLoop
  <2> QED BY <1>2, <2>1, MonotoneSettles
<1>3. CASE ~(GivesUp("idle") /\ UNCHANGED ring)
  <2>1. /\ ~parent /\ ~failure /\ ~finished /\ upc' \in {"write", "idle"}
        /\ UNCHANGED <<stopping, told>>
    BY <1>3 DEF WriteLoop, ring, Waits
  <2>2. ~stopping /\ ~told
    BY <1>1, <2>1 DEF Requests, Answers
  <2>3. Outcome = "open" /\ UNCHANGED Outcome
    BY <2>1, <2>2 DEF Outcome
  <2> QED BY <1>1, <2>3, WriteMoves, MoveIsStep
<1> QED BY <1>2, <1>3

\* A reader takes bytes of an open transfer, and is told the end of it once.
LEMMA ReadLoopChannel ==
  ASSUME StreamInv, StreamInv', NEW n \in Nat, n > 0, ReadLoop(n), upc \in {"idle", "read"}
  PROVE  [Channel!Next]_Channel!vars
<1>1. TypeOK /\ Queue /\ Requests /\ Answers /\ BytesTyped
  BY Sizes DEF StreamInv
<1>2. UNCHANGED <<failure, stopping, parent>> /\ upc' \in {"idle", "read"}
  BY DEF ReadLoop, flags, signals, Waits
<1>3. CASE bytes = << >>
  <2>1. UNCHANGED ring
    <3>1. Least(n, Len(bytes)) = 0
      BY <1>3 DEF Least
    <3>2. UNCHANGED ring \/ Taken(0)
      BY <3>1 DEF ReadLoop, Taken
    <3>3. Taken(0) => UNCHANGED ring
      <4>1. SubSeq(bytes, 1, 0) = << >> /\ SubSeq(bytes, 0 + 1, Len(bytes)) = << >>
        BY <1>3
      <4>2. consumed \o << >> = consumed
        BY <1>1 DEF BytesTyped
      <4>3. Taken(0) => consumed' = consumed \o << >> /\ bytes' = << >> /\ produced' = produced
        BY <4>1 DEF Taken
      <4> QED BY <1>3, <4>2, <4>3 DEF ring
    <3> QED BY <3>2, <3>3
  <2>2. Monotone
    <3>1. told => told'
      BY DEF ReadLoop
    <3>2. told' /\ ~told => ~parent /\ ~failure /\ finished
      BY <1>3 DEF ReadLoop, Unreadable
    <3>3. told' /\ ~told => Outcome = "open"
      BY <1>1, <3>2 DEF Outcome, Requests
    <3> QED BY <1>2, <3>1, <3>3 DEF Monotone
  <2> QED BY <2>1, <2>2, MonotoneSettles
<1>4. CASE bytes # << >>
  <2>1. Len(bytes) \in Nat /\ Len(bytes) > 0 /\ Len(consumed) \in Nat /\ produced <= Length
        /\ produced \in Nat /\ Length \in Nat
    BY <1>1, <1>4, Numbers DEF BytesTyped
  <2>2. ~told
    BY <1>1, <2>1 DEF Answers, Queue
  <2>3. Least(n, Len(bytes)) # 0
    BY <2>1 DEF Least
  <2>4. UNCHANGED Outcome
    <3>1. ~told'
      BY <2>2, <2>3 DEF ReadLoop
    <3>2. upc # "gone" /\ upc' # "gone"
      BY <1>2
    <3> QED BY <1>2, <2>2, <3>1, <3>2 DEF Outcome
  <2>5. CASE Outcome = "open"
    BY <1>1, <2>4, <2>5, ReadMoves, MoveIsStep
  <2>6. CASE Outcome # "open"
    <3>1. failure \/ stopping \/ parent
      BY <2>2, <2>6 DEF Outcome
    <3>2. parent \/ failure
      BY <1>1, <3>1 DEF Requests
    <3>3. UNCHANGED ring
      BY <3>2 DEF ReadLoop, Unreadable
    <3> QED BY <2>4, <3>3, ChannelStutters
  <2> QED BY <2>5, <2>6
<1> QED BY <1>3, <1>4

\* The user's calls.
LEMMA UserChannel ==
  ASSUME StreamInv, StreamInv', UserChoice \/ UserContinues
  PROVE  [Channel!Next]_Channel!vars
<1> USE DEF calling, flags, signals
<1>1. TypeOK /\ Queue /\ Asked /\ Requests /\ Answers /\ BytesTyped
  BY Sizes DEF StreamInv
<1>2. ASSUME NEW next \in {"idle", "gone"}, GivesUp(next), UNCHANGED ring, upc # "gone",
             UNCHANGED <<told, failure, parent>>
      PROVE  [Channel!Next]_Channel!vars
  <2>1. Monotone
    BY <1>1, <1>2, GivesUpMeans DEF Monotone
  <2> QED BY <1>2, <2>1, MonotoneSettles
<1>3. CASE Open
  <2>1. UNCHANGED ring /\ Monotone
    BY <1>3 DEF Open, Monotone, Waits
  <2> QED BY <2>1, MonotoneSettles
<1>4. ASSUME NEW n \in CallSizes, WriteBegins(n) PROVE [Channel!Next]_Channel!vars
  <2>1. n \in Nat /\ upc = "idle" /\ UNCHANGED <<parent, failure>>
        /\ produced \in Nat /\ Length \in Nat
    BY <1>1, <1>4, Sizes, Numbers DEF WriteBegins
  <2>2. CASE n > Length - produced
    BY <1>2, <1>4, <2>1, <2>2 DEF WriteBegins
  <2>3. CASE ~(n > Length - produced)
    BY <1>4, <2>1, <2>3, WriteLoopChannel DEF WriteBegins
  <2> QED BY <2>2, <2>3
<1>5. ASSUME NEW n \in CallSizes, ReadBegins(n) PROVE [Channel!Next]_Channel!vars
  BY <1>5, Sizes, ReadLoopChannel DEF ReadBegins
<1>6. CASE WriteContinues
  <2>1. rest \in Nat /\ rest <= Length - produced /\ upc = "write"
        /\ UNCHANGED <<parent, failure>>
    BY <1>1, <1>6, Sizes DEF WriteContinues, Asked
  <2>2. CASE waiting = "canceled"
    BY <1>2, <1>6, <2>1, <2>2 DEF WriteContinues
  <2>3. CASE waiting # "canceled"
    BY <1>6, <2>1, <2>3, WriteLoopChannel DEF WriteContinues
  <2> QED BY <2>2, <2>3
<1>7. CASE ReadContinues
  <2>1. CASE ReadLoop(rest)
    BY <1>1, <1>7, <2>1, Sizes, ReadLoopChannel DEF ReadContinues, Asked
  <2>2. CASE ~ReadLoop(rest)
    BY <1>7, <2>2, MonotoneSettles DEF ReadContinues, Monotone
  <2> QED BY <2>1, <2>2
<1>8. CASE OpenContinues
  <2>1. UNCHANGED ring /\ UNCHANGED <<told, failure, parent>> /\ upc = "open"
    BY <1>8 DEF OpenContinues
  <2>2. GivesUp("gone") \/ (UNCHANGED stopping /\ upc' \in {"idle", "open"})
    BY <1>8 DEF OpenContinues, Waits
  <2> QED BY <1>2, <2>1, <2>2, MonotoneSettles DEF Monotone
<1>9. CASE CloseBegins
  <2>1. UNCHANGED ring /\ UNCHANGED <<failure, parent>> /\ upc = "idle"
    BY <1>9 DEF CloseBegins
  <2>2. CASE upload /\ MayClose
    <3>1. /\ ~parent /\ UNCHANGED stopping /\ upc' \in {"idle", "close"}
          /\ told' = (finished /\ ~failure)
      BY <1>9, <2>2 DEF CloseBegins, MayClose, Waits
    <3>2. ~told /\ (told' => finished /\ ~failure)
      BY <1>1, <1>9, <2>2, <3>1 DEF CloseBegins, Answers
    <3>3. told' => Outcome = "open"
      BY <1>1, <2>1, <3>1, <3>2 DEF Outcome, Requests
    <3>4. Monotone
      BY <2>1, <3>1, <3>2, <3>3 DEF Monotone
    <3> QED BY <2>1, <3>4, MonotoneSettles
  <2>3. CASE ~(upload /\ MayClose)
    BY <1>2, <1>9, <2>1, <2>3 DEF CloseBegins
  <2> QED BY <2>2, <2>3
<1>10. CASE CloseContinues
  <2>1. UNCHANGED ring /\ UNCHANGED <<failure, parent>> /\ upc = "close"
    BY <1>10 DEF CloseContinues
  <2>2. CASE GivesUp("idle") /\ UNCHANGED told
    BY <1>2, <2>1, <2>2
  <2>3. CASE ~(GivesUp("idle") /\ UNCHANGED told)
    <3>1. /\ finished => ~parent /\ ~failure
          /\ UNCHANGED stopping /\ upc' \in {"idle", "close"} /\ told' = finished
      BY <1>10, <2>3 DEF CloseContinues, Waits
    <3>2. (told => told') /\ (told' => told \/ Outcome = "open")
      BY <1>1, <2>1, <3>1 DEF Outcome, Requests, Answers
    <3>3. Monotone
      BY <2>1, <3>1, <3>2 DEF Monotone
    <3> QED BY <2>1, <3>3, MonotoneSettles
  <2> QED BY <2>2, <2>3
<1>11. CASE DrainContinues \/ Destroy \/ RequestCancel
  <2>1. UNCHANGED ring /\ Monotone
    BY <1>11 DEF DrainContinues, Destroy, RequestCancel, CancelsRequest, Waits, Monotone
  <2> QED BY <2>1, MonotoneSettles
<1> QED BY <1>3, <1>4, <1>5, <1>6, <1>7, <1>8, <1>9, <1>10, <1>11 DEF UserChoice, UserContinues

\* Every step is a step of the channel, or nothing.
LEMMA StepRefines == StreamInv /\ StreamInv' /\ [Next]_vars => [Channel!Next]_Channel!vars
<1> SUFFICES ASSUME StreamInv, StreamInv', [Next]_vars
             PROVE  [Channel!Next]_Channel!vars
  OBVIOUS
<1>1. CASE OtherBegins \/ OtherEnds \/ StopBegins \/ StopLocks \/ ServerStores
           \/ ForeignStores \/ UNCHANGED vars
  <2>1. UNCHANGED ring /\ UNCHANGED <<told, failure, stopping, parent, upc>>
    BY <1>1 DEF OtherBegins, OtherEnds, StopBegins, StopLocks, ServerStores, ForeignStores,
       vars, flags, signals, calling
  <2> QED BY <2>1, OutcomeStands, ChannelStutters
<1>2. CASE RequestRuns \/ Curl \/ HttpEvent \/ IdleTimer \/ CertificateAnswered
           \/ UserChoice \/ UserContinues
  BY <1>2, RequestChannel, UserChannel
<1> QED BY <1>1, <1>2 DEF Next, Finished

\* RemoteFileReader and RemoteFileWriter over WebDAV implement the channel they promise:
\* the bytes arrive in order, the transfer is complete only when everything that was
\* produced has been consumed, and nothing crosses after it was cancelled, broke or was
\* dropped.
THEOREM ImplementsChannel == Spec => IsChannel
<1>1. Init => Channel!Init
  BY DEF Init, Channel!Init
<1>2. StreamInv /\ StreamInv' /\ [Next]_vars => [Channel!Next]_Channel!vars
  BY StepRefines
<1> QED BY <1>1, <1>2, StreamInvariant, PTL DEF Spec, IsChannel, Channel!Spec
=============================================================================
