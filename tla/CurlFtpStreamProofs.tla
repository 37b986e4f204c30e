------------------------ MODULE CurlFtpStreamProofs ------------------------
(***************************************************************************)
(* Proofs about CurlFtpStream, for every capacity, length and chunk size:     *)
(* the types, that the ring hands the bytes over in order, who works on the   *)
(* session and when it may be used again, that no wake and no trigger is      *)
(* lost, and that the transfer implements ByteChannel.                        *)
(***************************************************************************)
EXTENDS CurlFtpStream, SequenceTheorems, TLAPS

\* The slot of the k-th byte of the ring, counted from 0.
At(k) == IF begin + k < Capacity THEN begin + k ELSE begin + k - Capacity

\* What the ring holds: the bytes that follow those already taken out.
RingHolds ==
  /\ Len(delivered) + count = sent
  /\ \A i \in 1..Len(delivered) : delivered[i] = i
  /\ \A k \in 0..(count - 1) : buffer[At(k)] = Len(delivered) + k + 1

InCallback == {"observe", "check", "call", "sleep", "asleep"}

\* No one adds a byte the file does not have.
Sizes ==
  /\ ~upload /\ wpc \in InCallback => chunk <= Length - sent
  /\ ~upload /\ wpc = "signal" => answer = "bytes"
  /\ call = "write" => upload /\ rest <= Length - sent

RingType == /\ buffer \in [Slots -> 0..Length] /\ begin \in Slots
            /\ count \in 0..Capacity /\ sent \in 0..Length
            /\ delivered \in Seq(0..Length)

RingInv == RingType /\ RingHolds

\* A position runs at most once over the end of the array.
LEMMA WrappedValue ==
  ASSUME NEW p \in Nat, p < 2 * Capacity
  PROVE  Wrapped(p) = IF p < Capacity THEN p ELSE p - Capacity
BY CapacityAssumption DEF Wrapped

\* append, when the bytes fit, adds them behind those already in the ring.
LEMMA AppendKeeps ==
  ASSUME RingInv, NEW n \in Nat, n <= Capacity - count, n <= Length - sent, RingAppend(n)
  PROVE  RingInv'
<1> DEFINE end == Wrapped(begin + count)
           first == FirstPart(n, end)
<1>1. /\ begin \in Nat /\ begin < Capacity /\ count \in Nat /\ count <= Capacity
      /\ Capacity \in Nat /\ Capacity > 0 /\ Length \in Nat /\ sent \in 0..Length
      /\ Len(delivered) \in Nat /\ sent = Len(delivered) + count
  BY CapacityAssumption, LengthAssumption DEF RingInv, RingType, RingHolds, Slots
<1>2. end = IF begin + count < Capacity THEN begin + count ELSE begin + count - Capacity
  <2>1. CASE begin + count < 2 * Capacity
    BY <1>1, <2>1, WrappedValue
  <2> QED BY <1>1, <2>1
<1>3. end \in Slots /\ first \in Nat /\ first <= n /\ first <= Capacity - end
      /\ (first = n \/ first = Capacity - end)
  BY <1>1, <1>2 DEF FirstPart, Least, Slots
<1>4. /\ buffer' = [p \in Slots |->
                     IF end <= p /\ p < end + first THEN sent + 1 + (p - end)
                     ELSE IF p < n - first THEN sent + 1 + first + p
                     ELSE buffer[p]]
  BY DEF RingAppend
<1>5. count' = count + n /\ sent' = sent + n /\ begin' = begin /\ delivered' = delivered
  BY DEF RingAppend
<1> HIDE DEF end, first
<1>6. RingType'
  <2>1. \A p \in Slots : buffer'[p] \in 0..Length
    BY <1>1, <1>3, <1>4 DEF RingInv, RingType, Slots
  <2>2. buffer' \in [Slots -> 0..Length]
    BY <1>4, <2>1
  <2> QED BY <1>1, <1>5, <2>2 DEF RingInv, RingType, Slots
<1>7. \A k \in 0..(count' - 1) : buffer'[At(k)'] = Len(delivered') + k + 1
  <2> SUFFICES ASSUME NEW k \in 0..(count + n - 1)
               PROVE  buffer'[At(k)] = Len(delivered) + k + 1
    BY <1>1, <1>5 DEF At
  <2>1. At(k) \in Slots
    BY <1>1 DEF At, Slots
  <2>2. CASE k < count
    <3>1. ~(end <= At(k) /\ At(k) < end + first) /\ ~(At(k) < n - first)
      BY <1>1, <1>2, <1>3, <2>2 DEF At, Slots
    <3>2. buffer[At(k)] = Len(delivered) + k + 1
      BY <1>1, <2>2 DEF RingInv, RingHolds
    <3> QED BY <1>4, <2>1, <3>1, <3>2
  <2>3. CASE k >= count /\ k < count + first
    <3>1. At(k) = end + (k - count)
      BY <1>1, <1>2, <1>3, <2>3 DEF At, Slots
    <3> QED BY <1>1, <1>3, <1>4, <2>1, <2>3, <3>1 DEF Slots
  <2>4. CASE k >= count + first
    <3>1. At(k) = k - count - first /\ ~(end <= At(k) /\ At(k) < end + first)
      BY <1>1, <1>2, <1>3, <2>4 DEF At, Slots
    <3> QED BY <1>1, <1>3, <1>4, <2>1, <2>4, <3>1 DEF Slots
  <2> QED BY <1>1, <1>3, <2>2, <2>3, <2>4
<1>8. RingHolds'
  BY <1>1, <1>5, <1>7 DEF RingInv, RingHolds
<1> QED BY <1>6, <1>8 DEF RingInv

\* take removes the oldest bytes and appends them to what was delivered.
LEMMA TakeKeeps ==
  ASSUME RingInv, NEW n \in Nat, RingTake(n)
  PROVE  RingInv'
<1> DEFINE size == Least(n, count)
           first == FirstPart(size, begin)
           piece == [i \in 1..size |-> IF i <= first THEN buffer[begin + (i - 1)]
                                       ELSE buffer[(i - 1) - first]]
<1>1. /\ begin \in Nat /\ begin < Capacity /\ count \in Nat /\ count <= Capacity
      /\ Capacity \in Nat /\ Capacity > 0 /\ Length \in Nat /\ sent \in 0..Length
      /\ Len(delivered) \in Nat /\ sent = Len(delivered) + count
  BY CapacityAssumption, LengthAssumption DEF RingInv, RingType, RingHolds, Slots
<1>2. /\ size \in Nat /\ size <= count /\ first \in Nat /\ first <= size
      /\ (first = size \/ first = Capacity - begin) /\ first <= Capacity - begin
  BY <1>1 DEF FirstPart, Least
<1>3. /\ delivered' = delivered \o piece /\ count' = count - size
      /\ buffer' = buffer /\ sent' = sent
      /\ begin' = Wrapped(begin + size)
  BY DEF RingTake
<1>4. begin' = IF begin + size < Capacity THEN begin + size ELSE begin + size - Capacity
  <2>1. CASE begin + size < 2 * Capacity
    BY <1>1, <1>2, <1>3, <2>1, WrappedValue
  <2> QED BY <1>1, <1>2, <2>1
<1> HIDE DEF size, first
<1>5. \A i \in 1..size : piece[i] = Len(delivered) + i
  <2> SUFFICES ASSUME NEW i \in 1..size
               PROVE  piece[i] = Len(delivered) + i
    OBVIOUS
  <2>1. buffer[At(i - 1)] = Len(delivered) + i
    BY <1>1, <1>2 DEF RingInv, RingHolds
  <2>2. piece[i] = buffer[At(i - 1)]
    BY <1>1, <1>2 DEF At
  <2> QED BY <2>1, <2>2
<1>6. piece \in Seq(0..Length) /\ Len(piece) = size
  <2>1. \A i \in 1..size : piece[i] \in 0..Length
    BY <1>1, <1>2, <1>5
  <2> QED BY <1>2, <2>1
<1> HIDE DEF piece
<1>7. /\ delivered' \in Seq(0..Length) /\ Len(delivered') = Len(delivered) + size
      /\ \A i \in 1..Len(delivered') : delivered'[i] = i
  BY <1>1, <1>2, <1>3, <1>5, <1>6 DEF RingInv, RingType, RingHolds
<1>8. \A k \in 0..(count' - 1) : buffer'[At(k)'] = Len(delivered') + k + 1
  <2> SUFFICES ASSUME NEW k \in 0..(count - size - 1)
               PROVE  buffer[At(k)'] = Len(delivered) + size + k + 1
    BY <1>1, <1>2, <1>3, <1>7
  <2>1. At(k)' = At(k + size)
    BY <1>1, <1>2, <1>4 DEF At
  <2>2. buffer[At(k + size)] = Len(delivered) + (k + size) + 1
    BY <1>1, <1>2 DEF RingInv, RingHolds
  <2> QED BY <1>1, <1>2, <2>1, <2>2
<1>9. RingType'
  <2>1. begin' \in Slots /\ count' \in 0..Capacity
    BY <1>1, <1>2, <1>3, <1>4 DEF Slots
  <2> QED BY <1>1, <1>3, <1>7, <2>1 DEF RingInv, RingType, Slots
<1>10. RingHolds'
  BY <1>1, <1>2, <1>3, <1>7, <1>8 DEF RingHolds, At
<1> QED BY <1>9, <1>10 DEF RingInv

-----------------------------------------------------------------------------
(* Steps.  Four actions touch the ring; each fits what it adds.              *)

\* The ring's part of the type invariant.
LEMMA RingTyped ==
  ASSUME TypeOK, RingHolds PROVE RingInv
BY DEF TypeOK, RingInv, RingType

\* Equal ring variables hold the same bytes.
LEMMA RingStands ==
  ASSUME RingInv, UNCHANGED ring PROVE RingInv'
BY DEF RingInv, RingType, RingHolds, At, ring

\* curl's callback appends, or takes, within the ring (ftp-client.cpp:409-432).
LEMMA WorkerRings ==
  ASSUME TypeOK, Sizes, RingHolds, WorkerReceive \/ WorkerSend
  PROVE  RingInv'
<1>1. RingInv
  BY RingTyped
<1>2. chunk \in Nat
  BY CurlSizesAssumption DEF TypeOK
<1>3. CASE WorkerReceive
  <2>1. CASE UNCHANGED ring
    BY <1>1, <2>1, RingStands
  <2>2. CASE chunk <= Capacity - count /\ RingAppend(chunk)
    <3>1. chunk <= Length - sent
      BY <1>3 DEF WorkerReceive, Sizes, InCallback
    <3> QED BY <1>1, <1>2, <2>2, <3>1, AppendKeeps
  <2> QED BY <1>3, <2>1, <2>2 DEF WorkerReceive
<1>4. CASE WorkerSend
  <2>1. CASE UNCHANGED ring
    BY <1>1, <2>1, RingStands
  <2>2. CASE RingTake(chunk)
    BY <1>1, <1>2, <2>2, TakeKeeps
  <2> QED BY <1>4, <2>1, <2>2 DEF WorkerSend
<1> QED BY <1>3, <1>4

\* A read takes, a write appends, within the ring (ftp-client.cpp:502-567).
LEMMA UserRings ==
  ASSUME TypeOK, Sizes, RingHolds, ReadSome \/ WriteSome
  PROVE  RingInv'
<1>1. RingInv
  BY RingTyped
<1>2. rest \in Nat /\ count \in Nat /\ Capacity \in Nat /\ sent \in Nat
  BY CallSizesAssumption, CapacityAssumption DEF TypeOK
<1>3. CASE ReadSome
  BY <1>1, <1>2, <1>3, TakeKeeps DEF ReadSome
<1>4. CASE WriteSome
  <2> DEFINE n == Least(rest, Capacity - count)
  <2>1. rest <= Length - sent /\ count < Capacity /\ RingAppend(n)
    BY <1>4 DEF WriteSome, Sizes
  <2>2. n \in Nat /\ n <= Capacity - count /\ n <= Length - sent
    BY <1>2, <2>1, LengthAssumption DEF Least
  <2> QED BY <1>1, <2>1, <2>2, AppendKeeps
<1> QED BY <1>3, <1>4

\* Everything else leaves the ring alone.
Rings == WorkerReceive \/ WorkerSend \/ ReadSome \/ WriteSome

\* No other action touches the ring.
LEMMA OthersStand ==
  ASSUME Next, ~Rings PROVE UNCHANGED ring
<1>1. CASE WorkerStep
  BY <1>1 DEF Rings, WorkerStep, WorkerBegin, WorkerExit, CurlAbort, WorkerObserve,
       WorkerCheck, WorkerSignal, WorkerSleep, WorkerEnd, quiet
<1>2. CASE Network
  BY <1>2 DEF Network, CurlCallback, CurlReturn, quiet
<1>3. CASE UserChoice
  BY <1>3 DEF UserChoice, Open, BeginCall, Destroy, RequestCancel, NextBegins, StopBegins,
       stopKeeps
<1>4. CASE UserRuns
  BY <1>4 DEF Rings, UserRuns, BeginClose, CallThrows, CallWaits, CallReturns, Resume,
       CallSucceeds, CloseReaderReturnsToUser
<1>5. CASE AbandonRuns
  BY <1>5 DEF AbandonRuns, AbandonMark, AbandonCancel, AbandonWake, AbandonSettle,
       abandonKeeps
<1>6. CASE StopRuns
  BY <1>6 DEF StopRuns, StopConfirmation, StopRequest, StopWake, stopKeeps
<1>7. CASE Resumed
  BY <1>7 DEF Resumed, CallContinues, RunFinishes, NextFinishes, StopReturns, stopKeeps
<1>8. CASE Finished
  BY <1>8 DEF Finished, vars
<1> QED BY <1>1, <1>2, <1>3, <1>4, <1>5, <1>6, <1>7, <1>8 DEF Next

\* Every step keeps what the ring holds.
LEMMA RingStep ==
  ASSUME TypeOK, Sizes, RingHolds, [Next]_vars PROVE RingInv'
<1>1. CASE Rings
  BY <1>1, WorkerRings, UserRings DEF Rings
<1>2. CASE Next /\ ~Rings
  BY <1>2, RingTyped, RingStands, OthersStand
<1>3. CASE UNCHANGED vars
  BY <1>3, RingTyped, RingStands DEF vars
<1> QED BY <1>1, <1>2, <1>3

-----------------------------------------------------------------------------
(* The types of everything else, group by group.                            *)

FlagsType ==
  /\ ready \in BOOLEAN /\ input_ended \in BOOLEAN /\ finished \in BOOLEAN
  /\ abandoned \in BOOLEAN /\ failure \in BOOLEAN
  /\ waiter \in {"none", "waiting", "fired"}
  /\ acknowledged \in BOOLEAN /\ failed \in BOOLEAN /\ stopping \in BOOLEAN
  /\ operations \in {"free"} \cup Ops /\ succeeded \in BOOLEAN

SessionType ==
  /\ pending \in Seq(Ops) /\ worker_stopping \in BOOLEAN /\ cancelled \subseteq Ops
  /\ completion \in [Ops -> {"none", "ok"} \cup Failures]

ThreadType ==
  /\ wpc \in {"idle", "curl", "observe", "check", "call", "signal", "sleep",
              "asleep", "end", "exited"}
  /\ moved \in BOOLEAN
  /\ operation \in {"none"} \cup Ops /\ chunk \in {0} \cup CurlSizes
  /\ answer \in {"bytes", "zero", "pause"} /\ curl_ended \in BOOLEAN
  /\ curl_result \in {"ok"} \cup Failures

Rests == {0} \cup UNION {1..n : n \in CallSizes}

CallType ==
  /\ upc \in {"new", "check", "end", "resume", "await", "abandon", "idle", "gone"}
  /\ call \in {"none", "open", "read", "write", "closeWriter", "closeReader", "drop"}
  /\ rest \in Rests /\ requested \in BOOLEAN
  /\ disp \in {"idle", "user", "stop"}
  /\ apc \in {"none", "mark", "cancel", "wake", "settle"}
  /\ spc \in {"none", "abandon", "confirm", "request", "wake", "join", "done"}
  /\ upload \in BOOLEAN

Types == FlagsType /\ SessionType /\ ThreadType /\ CallType

\* The type invariant, taken apart so that each action disturbs few parts.
LEMMA TypeParts == TypeOK <=> RingType /\ Types
BY DEF TypeOK, RingType, Types, FlagsType, SessionType, ThreadType, CallType, Rests

\* What is left of a write, or the size of a read.
LEMMA ZeroRests == 0 \in Rests
BY DEF Rests

\* The size of a read, or of a write, can be what is left.
LEMMA CallRests == CallSizes \subseteq Rests
BY CallSizesAssumption DEF Rests

\* What is left of a write after a part of it.
LEMMA LessRests ==
  ASSUME NEW r \in Rests, NEW n \in Nat, n <= r PROVE r - n \in Rests
BY CallSizesAssumption DEF Rests

\* A step that changes no flag but ready keeps their types.
LEMMA ExchangeFlags ==
  ASSUME FlagsType, WorkerReceive \/ WorkerSend PROVE FlagsType'
<1>1. ready' = TRUE \/ ready' = ready
  BY DEF WorkerReceive, WorkerSend
<1>2. UNCHANGED <<input_ended, finished, abandoned, failure, waiter, client>>
  BY DEF WorkerReceive, WorkerSend, others
<1>3. ready' \in BOOLEAN
  BY <1>1 DEF FlagsType
<1> QED BY <1>2, <1>3 DEF FlagsType, client

\* A step that changes no flag but input_ended keeps their types.
LEMMA CloseFlags ==
  ASSUME FlagsType, BeginClose PROVE FlagsType'
<1>1. input_ended' = TRUE \/ input_ended' = input_ended
  BY DEF BeginClose
<1>2. UNCHANGED <<ready, finished, abandoned, failure, waiter, client>>
  BY DEF BeginClose
<1>3. input_ended' \in BOOLEAN
  BY <1>1 DEF FlagsType
<1> QED BY <1>2, <1>3 DEF FlagsType, client

\* BeginClose leaves a typed call.
LEMMA CloseCall ==
  ASSUME CallType, BeginClose PROVE CallType'
<1>1. UNCHANGED <<spc, upload>>
  BY DEF BeginClose
<1>2. CASE upc' = "resume" /\ UNCHANGED <<call, rest, requested, disp, apc>>
  BY <1>1, <1>2 DEF CallType
<1>3. CASE Return /\ UNCHANGED apc
  BY <1>1, <1>3, ZeroRests DEF CallType, Return
<1>4. CASE UserAbandons /\ UNCHANGED <<call, rest, requested, disp>>
  BY <1>1, <1>4 DEF CallType, UserAbandons
<1> QED BY <1>2, <1>3, <1>4 DEF BeginClose

\* Control goes back from abandon().
LEMMA AfterAbandonCall ==
  ASSUME CallType, AfterAbandon, UNCHANGED upload PROVE CallType'
<1>1. apc' = "none"
  BY DEF AfterAbandon
<1>2. CASE spc' = "confirm" /\ UNCHANGED <<disp, calling>>
  BY <1>1, <1>2 DEF CallType, calling
<1>3. CASE UNCHANGED spc /\ upc' = "check" /\ UNCHANGED <<disp, call, rest, requested>>
  BY <1>1, <1>3 DEF CallType, AfterAbandon
<1>4. CASE UNCHANGED spc /\ Return
  BY <1>1, <1>4, ZeroRests DEF CallType, Return
<1>5. CASE /\ UNCHANGED <<spc, rest>> /\ upc' = "gone" /\ call' = "none"
           /\ disp' = "idle" /\ requested' = FALSE
  BY <1>1, <1>5 DEF CallType
<1> QED BY <1>2, <1>3, <1>4, <1>5 DEF AfterAbandon

\* The first section of abandon() keeps the flags' types.
LEMMA AbandonFlags ==
  ASSUME FlagsType, AbandonMark PROVE FlagsType'
<1>1. \/ abandoned' = TRUE /\ failed' = TRUE
      \/ abandoned' = abandoned /\ failed' = failed
  BY DEF AbandonMark
<1>2. UNCHANGED <<ready, input_ended, finished, failure, waiter, acknowledged, stopping,
                  operations, succeeded>>
  BY DEF AbandonMark, abandonKeeps
<1>3. abandoned' \in BOOLEAN /\ failed' \in BOOLEAN
  BY <1>1 DEF FlagsType
<1> QED BY <1>2, <1>3 DEF FlagsType

\* TypeParts of the next state.
LEMMA TypePartsNext ==
  ASSUME RingType', Types' PROVE TypeOK'
BY DEF TypeOK, RingType, Types, FlagsType, SessionType, ThreadType, CallType, Rests

\* The worker thread's steps keep every type.
LEMMA WorkerStepTypes ==
  ASSUME RingType, Types, WorkerStep PROVE Types'
<1> USE DEF Types, FlagsType, SessionType, ThreadType, CallType, Ops, Failures, flags,
       client, session, sleeper, thread, calling, turn, others, Fails, Proceeds, quiet,
       Trigger
<1>1. CASE WorkerBegin
  BY <1>1 DEF WorkerBegin
<1>2. CASE WorkerExit
  BY <1>2 DEF WorkerExit
<1>3. CASE CurlAbort
  BY <1>3 DEF CurlAbort
<1>4. CASE WorkerObserve
  <2>1. FlagsType'
    BY <1>4 DEF WorkerObserve
  <2>2. SessionType'
    BY <1>4 DEF WorkerObserve
  <2>3. ThreadType'
    BY <1>4 DEF WorkerObserve
  <2>4. CallType'
    BY <1>4 DEF WorkerObserve
  <2> QED BY <2>1, <2>2, <2>3, <2>4
<1>5. CASE WorkerCheck
  BY <1>5 DEF WorkerCheck
<1>6. CASE WorkerReceive
  <2>1. FlagsType'
    BY <1>6, ExchangeFlags
  <2>2. SessionType'
    BY <1>6 DEF WorkerReceive
  <2>3. ThreadType'
    BY <1>6 DEF WorkerReceive
  <2>4. CallType'
    BY <1>6 DEF WorkerReceive
  <2> QED BY <2>1, <2>2, <2>3, <2>4
<1>7. CASE WorkerSend
  <2>1. FlagsType'
    BY <1>7, ExchangeFlags
  <2>2. SessionType'
    BY <1>7 DEF WorkerSend
  <2>3. ThreadType'
    BY <1>7 DEF WorkerSend
  <2>4. CallType'
    BY <1>7 DEF WorkerSend
  <2> QED BY <2>1, <2>2, <2>3, <2>4
<1>8. CASE WorkerSignal
  BY <1>8 DEF WorkerSignal
<1>9. CASE WorkerSleep
  BY <1>9 DEF WorkerSleep
<1>10. CASE WorkerEnd
  <2>1. FlagsType'
    BY <1>10 DEF WorkerEnd
  <2>2. SessionType'
    BY <1>10 DEF WorkerEnd
  <2>3. ThreadType'
    BY <1>10 DEF WorkerEnd
  <2>4. CallType'
    BY <1>10 DEF WorkerEnd
  <2> QED BY <2>1, <2>2, <2>3, <2>4
<1> QED BY <1>1, <1>2, <1>3, <1>4, <1>5, <1>6, <1>7, <1>8, <1>9, <1>10 DEF WorkerStep

\* What curl and the server do keeps every type.
LEMMA NetworkTypes ==
  ASSUME RingType, Types, Network PROVE Types'
<1> USE DEF Types, FlagsType, SessionType, ThreadType, CallType, Ops, Failures, flags,
       client, session, sleeper, thread, calling, turn, quiet, others
<1>1. CASE CurlCallback
  BY <1>1 DEF CurlCallback
<1>2. CASE CurlReturn
  BY <1>2 DEF CurlReturn
<1> QED BY <1>1, <1>2 DEF Network

\* Beginning a call, a stop or another operation keeps every type.
LEMMA UserChoiceTypes ==
  ASSUME RingType, Types, UserChoice PROVE Types'
<1> USE DEF Types, FlagsType, SessionType, ThreadType, CallType, Ops, Failures, flags,
       client, session, sleeper, thread, calling, turn, Submit, worker, UserAbandons,
       stopKeeps
<1>1. CASE Open
  BY <1>1 DEF Open
<1>2. CASE BeginCall
  BY <1>2, CallRests DEF BeginCall
<1>3. CASE Destroy
  BY <1>3 DEF Destroy
<1>4. CASE RequestCancel
  BY <1>4 DEF RequestCancel
<1>5. CASE NextBegins
  BY <1>5 DEF NextBegins
<1>6. CASE StopBegins
  BY <1>6 DEF StopBegins
<1> QED BY <1>1, <1>2, <1>3, <1>4, <1>5, <1>6 DEF UserChoice

\* A call that returns leaves the dispatcher a typed call.
LEMMA ReturnCall ==
  ASSUME CallType, Return, UNCHANGED <<apc, spc, upload>> PROVE CallType'
BY ZeroRests DEF CallType, Return

\* resume() is the end of a read and a turn of the other calls.
LEMMA ResumeCall ==
  ASSUME CallType, Resume PROVE CallType'
<1>1. UNCHANGED <<apc, spc, upload>>
  BY DEF Resume
<1>2. CASE Return
  BY <1>1, <1>2, ReturnCall
<1>3. CASE upc' = "check" /\ UNCHANGED <<disp, call, rest, requested>>
  BY <1>1, <1>3 DEF CallType
<1> QED BY <1>2, <1>3 DEF Resume

\* The turns of a call keep every type.
LEMMA UserRunsTypes ==
  ASSUME RingType, Types, UserRuns PROVE Types'
<1> USE DEF Types, FlagsType, SessionType, ThreadType, CallType, Ops, Failures, flags,
       client, session, sleeper, thread, calling, turn, worker, Return, UserAbandons,
       Wake, Acknowledge
<1>1. CASE BeginClose
  <2>1. FlagsType'
    BY <1>1, CloseFlags
  <2>2. SessionType'
    BY <1>1 DEF BeginClose
  <2>3. ThreadType'
    BY <1>1 DEF BeginClose
  <2>4. CallType'
    BY <1>1, CloseCall
  <2> QED BY <2>1, <2>2, <2>3, <2>4
<1>2. CASE CallThrows
  BY <1>2 DEF CallThrows
<1>3. CASE CallWaits
  BY <1>3 DEF CallWaits
<1>4. CASE CallReturns
  <2>1. FlagsType'
    BY <1>4 DEF CallReturns
  <2>2. SessionType'
    BY <1>4 DEF CallReturns
  <2>3. ThreadType'
    BY <1>4 DEF CallReturns
  <2>4. CallType'
    <3>1. Return /\ UNCHANGED <<apc, spc, upload>>
      BY <1>4 DEF CallReturns
    <3> QED BY <3>1, ReturnCall
  <2> QED BY <2>1, <2>2, <2>3, <2>4
<1>5. CASE ReadSome
  BY <1>5 DEF ReadSome
<1>6. CASE WriteSome
  <2> DEFINE n == Least(rest, Capacity - count)
  <2>1. n \in Nat /\ n <= rest
    BY <1>6, CapacityAssumption, CallSizesAssumption DEF WriteSome, RingType, Least, Rests
  <2>2. rest' \in Rests
    BY <1>6, <2>1, LessRests DEF WriteSome
  <2> QED BY <1>6, <2>2 DEF WriteSome
<1>7. CASE Resume
  <2>1. FlagsType'
    BY <1>7 DEF Resume
  <2>2. SessionType'
    BY <1>7 DEF Resume
  <2>3. ThreadType'
    BY <1>7 DEF Resume
  <2>4. CallType'
    BY <1>7, ResumeCall
  <2> QED BY <2>1, <2>2, <2>3, <2>4
<1>8. CASE CallSucceeds
  <2>1. FlagsType'
    BY <1>8 DEF CallSucceeds
  <2>2. SessionType'
    BY <1>8 DEF CallSucceeds
  <2>3. ThreadType'
    BY <1>8 DEF CallSucceeds
  <2>4. CallType'
    <3>1. Return /\ UNCHANGED <<apc, spc, upload>>
      BY <1>8 DEF CallSucceeds
    <3> QED BY <3>1, ReturnCall
  <2> QED BY <2>1, <2>2, <2>3, <2>4
<1>9. CASE CloseReaderReturnsToUser
  <2>1. FlagsType'
    BY <1>9 DEF CloseReaderReturnsToUser
  <2>2. SessionType'
    BY <1>9 DEF CloseReaderReturnsToUser
  <2>3. ThreadType'
    BY <1>9 DEF CloseReaderReturnsToUser
  <2>4. CallType'
    <3>1. Return /\ UNCHANGED <<apc, spc, upload>>
      BY <1>9 DEF CloseReaderReturnsToUser
    <3> QED BY <3>1, ReturnCall
  <2> QED BY <2>1, <2>2, <2>3, <2>4
<1> QED BY <1>1, <1>2, <1>3, <1>4, <1>5, <1>6, <1>7, <1>8, <1>9 DEF UserRuns

\* The last section of abandon() keeps the flags' types.
LEMMA SettleFlags ==
  ASSUME FlagsType, AbandonSettle PROVE FlagsType'
<1>1. \/ acknowledged' = TRUE /\ operations' \in {operations, "free"}
      \/ UNCHANGED <<acknowledged, operations>>
  BY DEF AbandonSettle, Acknowledge
<1>2. UNCHANGED <<ready, input_ended, finished, abandoned, failure, failed, stopping,
                  succeeded>>
  BY DEF AbandonSettle, abandonKeeps
<1>3. waiter' \in {waiter, "fired"}
  BY DEF AbandonSettle, Trigger
<1>4. acknowledged' \in BOOLEAN /\ operations' \in {"free"} \cup Ops
  BY <1>1 DEF FlagsType
<1>5. waiter' \in {"none", "waiting", "fired"}
  BY <1>3 DEF FlagsType
<1> QED BY <1>2, <1>4, <1>5 DEF FlagsType

\* The steps of abandon() keep every type.
LEMMA AbandonRunsTypes ==
  ASSUME RingType, Types, AbandonRuns PROVE Types'
<1> USE DEF Types, FlagsType, SessionType, ThreadType, CallType, Ops, Failures, flags,
       client, session, sleeper, thread, calling, turn, abandonKeeps, AfterAbandon,
       Return, Wake, Acknowledge, Trigger
<1>1. CASE AbandonMark
  <2>1. FlagsType'
    BY <1>1, AbandonFlags
  <2>2. SessionType'
    BY <1>1 DEF AbandonMark
  <2>3. ThreadType'
    BY <1>1 DEF AbandonMark
  <2>4. CallType'
    <3>1. CASE acknowledged
      <4>1. AfterAbandon /\ UNCHANGED upload
        BY <1>1, <3>1 DEF AbandonMark
      <4> QED BY <4>1, AfterAbandonCall
    <3>2. CASE ~acknowledged
      BY <1>1, <3>2 DEF AbandonMark
    <3> QED BY <3>1, <3>2
  <2> QED BY <2>1, <2>2, <2>3, <2>4
<1>2. CASE AbandonCancel
  BY <1>2 DEF AbandonCancel
<1>3. CASE AbandonWake
  BY <1>3 DEF AbandonWake
<1>4. CASE AbandonSettle
  <2>1. FlagsType'
    BY <1>4, SettleFlags
  <2>2. SessionType'
    BY <1>4 DEF AbandonSettle
  <2>3. ThreadType'
    BY <1>4 DEF AbandonSettle
  <2>4. CallType'
    <3>1. AfterAbandon /\ UNCHANGED upload
      BY <1>4 DEF AbandonSettle
    <3> QED BY <3>1, AfterAbandonCall
  <2> QED BY <2>1, <2>2, <2>3, <2>4
<1> QED BY <1>1, <1>2, <1>3, <1>4 DEF AbandonRuns

\* The steps of stop_async keep every type.
LEMMA StopRunsTypes ==
  ASSUME RingType, Types, StopRuns PROVE Types'
<1> USE DEF Types, FlagsType, SessionType, ThreadType, CallType, Ops, Failures, flags,
       client, session, sleeper, thread, calling, turn, stopKeeps, Wake
<1>1. CASE StopConfirmation
  BY <1>1 DEF StopConfirmation
<1>2. CASE StopRequest
  BY <1>2 DEF StopRequest
<1>3. CASE StopWake
  BY <1>3 DEF StopWake
<1> QED BY <1>1, <1>2, <1>3 DEF StopRuns

\* The resumed coroutines keep every type.
LEMMA ResumedTypes ==
  ASSUME RingType, Types, Resumed PROVE Types'
<1> USE DEF Types, FlagsType, SessionType, ThreadType, CallType, Ops, Failures, flags,
       client, session, sleeper, thread, calling, turn, worker, Acknowledge, Trigger,
       stopKeeps
<1>1. CASE CallContinues
  BY <1>1 DEF CallContinues
<1>2. CASE RunFinishes
  <2>1. FlagsType'
    BY <1>2 DEF RunFinishes
  <2>2. SessionType'
    BY <1>2 DEF RunFinishes
  <2>3. ThreadType'
    BY <1>2 DEF RunFinishes
  <2>4. CallType'
    BY <1>2 DEF RunFinishes
  <2> QED BY <2>1, <2>2, <2>3, <2>4
<1>3. CASE NextFinishes
  BY <1>3 DEF NextFinishes
<1>4. CASE StopReturns
  BY <1>4 DEF StopReturns
<1> QED BY <1>1, <1>2, <1>3, <1>4 DEF Resumed

-----------------------------------------------------------------------------
(* Nobody adds more than the file has: Sizes.                                *)

\* Sizes depends on five variables only.
LEMMA SizesStand ==
  ASSUME Sizes, UNCHANGED <<sent, upload, chunk, answer>>,
         wpc' \in InCallback => wpc \in InCallback, wpc' = "signal" => wpc = "signal",
         call' = "write" => call = "write" /\ rest' = rest
  PROVE  Sizes'
BY DEF Sizes

\* The worker never offers more bytes than the file has left.
LEMMA WorkerSizes ==
  ASSUME TypeOK, Sizes, WorkerStep \/ Network PROVE Sizes'
<1> USE DEF InCallback, others, quiet, calling, turn, Fails, Proceeds
<1>1. CASE WorkerReceive
  <2>1. UNCHANGED <<upload, call, rest, chunk>> /\ ~upload
    BY <1>1 DEF WorkerReceive
  <2>2. \/ UNCHANGED sent /\ wpc' \in {"end", "sleep"}
        \/ wpc' = "signal" /\ answer' = "bytes"
    BY <1>1 DEF WorkerReceive, ring
  <2>3. wpc = "call"
    BY <1>1 DEF WorkerReceive
  <2> QED BY <2>1, <2>2, <2>3 DEF Sizes
<1>2. CASE WorkerSend
  <2>1. UNCHANGED <<upload, call, rest>> /\ upload
    BY <1>2 DEF WorkerSend
  <2>2. UNCHANGED sent
    BY <1>2 DEF WorkerSend, RingTake, ring
  <2> QED BY <2>1, <2>2 DEF Sizes
<1>3. CASE CurlCallback
  <2>1. UNCHANGED <<upload, sent, call, rest>> /\ wpc' = "observe"
    BY <1>3 DEF CurlCallback, ring
  <2>2. ~upload => chunk' <= Length - sent
    BY <1>3 DEF CurlCallback
  <2> QED BY <2>1, <2>2 DEF Sizes
<1>4. CASE WorkerBegin \/ WorkerExit \/ CurlAbort \/ WorkerEnd \/ CurlReturn
  <2>1. UNCHANGED <<sent, upload, call, rest>>
    BY <1>4 DEF WorkerBegin, WorkerExit, CurlAbort, WorkerEnd, CurlReturn, ring
  <2>2. wpc' \in {"end", "curl", "exited", "idle"}
    BY <1>4 DEF WorkerBegin, WorkerExit, CurlAbort, WorkerEnd, CurlReturn
  <2> QED BY <2>1, <2>2 DEF Sizes
<1>5. CASE WorkerObserve \/ WorkerCheck \/ WorkerSleep
  <2>1. UNCHANGED <<sent, upload, call, rest>> /\ wpc \in InCallback
    BY <1>5 DEF WorkerObserve, WorkerCheck, WorkerSleep, ring
  <2>2. UNCHANGED <<chunk, answer>> /\ wpc' # "signal"
    BY <1>5 DEF WorkerObserve, WorkerCheck, WorkerSleep, thread
  <2> QED BY <2>1, <2>2, SizesStand
<1>6. CASE WorkerSignal
  <2>1. UNCHANGED <<sent, upload, call, rest>>
    BY <1>6 DEF WorkerSignal, ring
  <2>2. wpc' = IF answer = "pause" THEN "sleep" ELSE "curl"
    BY <1>6 DEF WorkerSignal
  <2>3. wpc = "signal"
    BY <1>6 DEF WorkerSignal
  <2> QED BY <2>1, <2>2, <2>3 DEF Sizes
<1> QED BY <1>1, <1>2, <1>3, <1>4, <1>5, <1>6 DEF WorkerStep, Network

\* Wake takes the worker out of its sleep and leaves it in the callback.
LEMMA WakeStays ==
  ASSUME Wake \/ UNCHANGED sleeper
  PROVE  /\ wpc' \in InCallback => wpc \in InCallback
         /\ wpc' = "signal" => wpc = "signal"
BY DEF Wake, sleeper, InCallback

\* The user never writes more bytes than the file has left.
LEMMA UserSizes ==
  ASSUME TypeOK, Sizes, UserChoice \/ UserRuns PROVE Sizes'
<1> USE DEF worker, thread, turn, UserAbandons, Return
<1>1. CASE BeginCall
  <2>1. UNCHANGED <<sent, upload, chunk, answer, wpc>>
    BY <1>1 DEF BeginCall, ring, sleeper
  <2>2. call' = "write" => upload /\ rest' <= Length - sent
    BY <1>1 DEF BeginCall
  <2> QED BY <2>1, <2>2 DEF Sizes
<1>2. CASE WriteSome
  <2> DEFINE n == Least(rest, Capacity - count)
  <2>1. UNCHANGED <<upload, call, chunk, answer, wpc>> /\ call = "write"
    BY <1>2 DEF WriteSome, sleeper
  <2>2. sent' = sent + n /\ rest' = rest - n
    BY <1>2 DEF WriteSome, RingAppend
  <2>3. sent \in Int /\ rest \in Int /\ n \in Int
    BY CallSizesAssumption, CapacityAssumption DEF TypeOK, Least
  <2> HIDE DEF n
  <2> QED BY <2>1, <2>2, <2>3, LengthAssumption DEF Sizes
<1>3. CASE Open \/ RequestCancel \/ Destroy \/ NextBegins \/ StopBegins
  <2>1. UNCHANGED <<sent, upload, chunk, answer>> /\ UNCHANGED sleeper
    BY <1>3 DEF Open, RequestCancel, Destroy, NextBegins, StopBegins, stopKeeps, ring
  <2>2. call' = "write" => call = "write" /\ rest' = rest
    BY <1>3 DEF Open, RequestCancel, Destroy, NextBegins, StopBegins, stopKeeps, calling
  <2> QED BY <2>1, <2>2, WakeStays, SizesStand
<1>4. CASE BeginClose \/ CallThrows \/ CallWaits \/ CallReturns \/ CallSucceeds
           \/ CloseReaderReturnsToUser
  <2>1. UNCHANGED <<sent, upload, chunk, answer>> /\ UNCHANGED sleeper
    BY <1>4 DEF BeginClose, CallThrows, CallWaits, CallReturns, CallSucceeds,
         CloseReaderReturnsToUser, ring
  <2>2. call' = "write" => call = "write" /\ rest' = rest
    BY <1>4 DEF BeginClose, CallThrows, CallWaits, CallReturns, CallSucceeds,
         CloseReaderReturnsToUser
  <2> QED BY <2>1, <2>2, WakeStays, SizesStand
<1>5. CASE ReadSome
  <2>1. UNCHANGED <<sent, upload, chunk, answer, call, rest>> /\ UNCHANGED sleeper
    BY <1>5 DEF ReadSome, RingTake
  <2> QED BY <2>1, WakeStays, SizesStand
<1>6. CASE Resume
  <2>1. UNCHANGED <<sent, upload, chunk, answer>> /\ Wake
    BY <1>6 DEF Resume, ring
  <2>2. call' = "write" => call = "write" /\ rest' = rest
    BY <1>6 DEF Resume
  <2> QED BY <2>1, <2>2, WakeStays, SizesStand
<1> QED BY <1>1, <1>2, <1>3, <1>4, <1>5, <1>6 DEF UserChoice, UserRuns

\* The remaining steps leave the sizes alone.
LEMMA OtherSizes ==
  ASSUME TypeOK, Sizes, AbandonRuns \/ StopRuns \/ Resumed PROVE Sizes'
<1>1. CASE AbandonRuns
  <2>1. UNCHANGED <<sent, upload, chunk, answer>>
    BY <1>1 DEF AbandonRuns, AbandonMark, AbandonCancel, AbandonWake, AbandonSettle,
         abandonKeeps, ring, thread
  <2>2. Wake \/ UNCHANGED sleeper
    BY <1>1 DEF AbandonRuns, AbandonMark, AbandonCancel, AbandonWake, AbandonSettle
  <2>3. call' = "write" => call = "write" /\ rest' = rest
    BY <1>1 DEF AbandonRuns, AbandonMark, AbandonCancel, AbandonWake, AbandonSettle,
         AfterAbandon, Return, calling
  <2> QED BY <2>1, <2>2, <2>3, WakeStays, SizesStand
<1>2. CASE StopRuns
  <2>1. UNCHANGED <<sent, upload, chunk, answer, call, rest>>
    BY <1>2 DEF StopRuns, StopConfirmation, StopRequest, StopWake, stopKeeps, ring, thread,
         calling
  <2>2. Wake \/ UNCHANGED sleeper
    BY <1>2 DEF StopRuns, StopConfirmation, StopRequest, StopWake
  <2> QED BY <2>1, <2>2, WakeStays, SizesStand
<1>3. CASE Resumed
  <2>1. UNCHANGED <<sent, upload, chunk, answer, call, rest>>
    BY <1>3 DEF Resumed, CallContinues, RunFinishes, NextFinishes, StopReturns, stopKeeps,
         ring, thread, worker, calling, turn
  <2>2. UNCHANGED sleeper
    BY <1>3 DEF Resumed, CallContinues, RunFinishes, NextFinishes, StopReturns, worker
  <2> QED BY <2>1, <2>2, WakeStays, SizesStand
<1> QED BY <1>1, <1>2, <1>3

-----------------------------------------------------------------------------
(* The inductive invariant and the theorems.                                 *)

Inductive == TypeOK /\ Sizes /\ RingHolds

\* The initial states satisfy the inductive invariant.
LEMMA InductiveInit == Init => Inductive
<1> SUFFICES ASSUME Init PROVE Inductive
  OBVIOUS
<1>1. RingType /\ RingHolds
  BY CapacityAssumption, LengthAssumption DEF Init, RingType, RingHolds, Slots
<1>2. Types
  <2>1. FlagsType
    BY DEF Init, FlagsType, Ops
  <2>2. SessionType
    <3>1. << >> \in Seq(Ops)
      OBVIOUS
    <3>2. /\ pending = << >> /\ worker_stopping = FALSE /\ cancelled = {}
          /\ completion = [op \in Ops |-> "none"]
      BY DEF Init
    <3> QED BY <3>1, <3>2 DEF SessionType
  <2>3. ThreadType
    BY DEF Init, ThreadType, Ops
  <2>4. CallType
    BY ZeroRests DEF Init, CallType
  <2> QED BY <2>1, <2>2, <2>3, <2>4 DEF Types
<1>3. Sizes
  BY DEF Init, Sizes, InCallback
<1> QED BY <1>1, <1>2, <1>3, TypeParts DEF Inductive

\* Every step keeps it.
LEMMA InductiveStep == Inductive /\ [Next]_vars => Inductive'
<1> SUFFICES ASSUME TypeOK, Sizes, RingHolds, [Next]_vars
             PROVE  TypeOK' /\ Sizes' /\ RingHolds'
  BY DEF Inductive
<1>1. RingType' /\ RingHolds'
  BY RingStep DEF RingInv
<1>2. RingType /\ Types
  BY TypeParts
<1>3. CASE UNCHANGED vars \/ Finished
  <2>1. UNCHANGED vars
    BY <1>3 DEF Finished
  <2>2. Types'
    BY <1>2, <2>1 DEF vars, flags, client, session, sleeper, thread, calling, turn, Types,
         FlagsType, SessionType, ThreadType, CallType
  <2>3. Sizes'
    BY <2>1 DEF vars, ring, sleeper, thread, calling, turn, Sizes
  <2> QED BY <1>1, <2>2, <2>3, TypePartsNext
<1>4. CASE Next /\ ~Finished
  <2>1. Types'
    BY <1>2, <1>4, WorkerStepTypes, NetworkTypes, UserChoiceTypes, UserRunsTypes,
       AbandonRunsTypes, StopRunsTypes, ResumedTypes DEF Next
  <2>2. Sizes'
    BY <1>4, WorkerSizes, UserSizes, OtherSizes DEF Next
  <2> QED BY <1>1, <2>1, <2>2, TypePartsNext
<1> QED BY <1>3, <1>4

\* The ring holds the file's bytes from the first not delivered to the last sent,
\* typed and in bounds, in every reachable state.
THEOREM InductiveInvariant == Spec => []Inductive
<1> QED BY InductiveInit, InductiveStep, PTL DEF Spec

\* Every variable keeps its type, whatever the capacity, the length of the file
\* and the sizes curl and the caller use.
THEOREM TypeCorrect == Spec => []TypeOK
<1>1. Inductive => TypeOK
  BY DEF Inductive
<1> QED BY <1>1, InductiveInvariant, PTL

\* The ring of append and take (ftp-client.cpp:391-407) never swaps, skips or
\* repeats a byte, wherever it wraps and however full it is.
THEOREM BytesInOrder == Spec => []InOrder
<1>1. Inductive => InOrder
  BY DEF Inductive, RingHolds, InOrder
<1> QED BY <1>1, InductiveInvariant, PTL


-----------------------------------------------------------------------------
(* Whose turn it is.                                                        *)

\* disp, the program counters and the two flags of stop_async agree.
Turns ==
  /\ disp = "user" <=> upc \in {"check", "end", "resume", "abandon"}
  /\ disp = "stop" <=> spc \in {"abandon", "confirm", "request", "wake"}
  /\ apc # "none" <=> upc = "abandon" \/ spc = "abandon"
  /\ stopping <=> spc # "none"
  /\ worker_stopping <=> spc \in {"wake", "join", "done"}

\* The worker's thread and libcurl do not touch the dispatcher.
LEMMA WorkerTurns ==
  ASSUME Turns, WorkerStep \/ Network PROVE Turns'
<1>1. UNCHANGED others
  BY DEF WorkerStep, Network, WorkerBegin, WorkerExit, CurlAbort, WorkerObserve, WorkerCheck,
     WorkerReceive, WorkerSend, WorkerSignal, WorkerSleep, WorkerEnd, CurlCallback,
     CurlReturn, quiet
<1> QED BY <1>1 DEF Turns, others, client, calling, turn

\* A choice of the user or of the window begins a turn, or leaves the dispatcher idle.
LEMMA ChoiceTurns ==
  ASSUME Turns, UserChoice PROVE Turns'
<1> USE DEF Turns, client, turn, calling, worker, session
<1>1. CASE Open
  BY <1>1 DEF Open
<1>2. CASE BeginCall
  BY <1>2 DEF BeginCall
<1>3. CASE Destroy
  BY <1>3 DEF Destroy, UserAbandons
<1>4. CASE RequestCancel \/ NextBegins
  BY <1>4 DEF RequestCancel, NextBegins
<1>5. CASE StopBegins
  BY <1>5 DEF StopBegins, stopKeeps
<1> QED BY <1>1, <1>2, <1>3, <1>4, <1>5 DEF UserChoice

\* The user's coroutine hands the dispatcher back when it returns or waits.
LEMMA UserTurns ==
  ASSUME Turns, UserRuns PROVE Turns'
<1> USE DEF Turns, client, turn, calling, worker, session, UserTurn, UserAbandons, Return
<1>1. CASE BeginClose
  BY <1>1 DEF BeginClose
<1>2. CASE CallThrows \/ CallWaits \/ CallReturns
  BY <1>2 DEF CallThrows, CallWaits, CallReturns
<1>3. CASE ReadSome \/ WriteSome \/ Resume
  BY <1>3 DEF ReadSome, WriteSome, Resume
<1>4. CASE CallSucceeds \/ CloseReaderReturnsToUser
  BY <1>4 DEF CallSucceeds, CloseReaderReturnsToUser
<1> QED BY <1>1, <1>2, <1>3, <1>4 DEF UserRuns

\* abandon() hands control back to whoever called it.
LEMMA AbandonTurns ==
  ASSUME Turns, AbandonRuns PROVE Turns'
<1> USE DEF Turns, calling, abandonKeeps
<1>1. ASSUME AfterAbandon, apc # "none", UNCHANGED <<stopping, worker_stopping>>
      PROVE  Turns'
  BY <1>1 DEF AfterAbandon, Return
<1>2. CASE AbandonMark
  <2>1. CASE acknowledged
    BY <1>1, <1>2, <2>1 DEF AbandonMark
  <2>2. CASE ~acknowledged
    BY <1>2, <2>2 DEF AbandonMark
  <2> QED BY <2>1, <2>2
<1>3. CASE AbandonCancel \/ AbandonWake
  BY <1>3 DEF AbandonCancel, AbandonWake
<1>4. CASE AbandonSettle
  BY <1>1, <1>4 DEF AbandonSettle
<1> QED BY <1>2, <1>3, <1>4 DEF AbandonRuns

\* stop_async, and the coroutines that are resumed.
LEMMA OtherTurns ==
  ASSUME Turns, StopRuns \/ Resumed PROVE Turns'
<1> USE DEF Turns, client, turn, calling, worker, session, stopKeeps
<1>1. CASE StopRuns
  BY <1>1 DEF StopRuns, StopConfirmation, StopRequest, StopWake
<1>2. CASE CallContinues
  BY <1>2 DEF CallContinues
<1>3. CASE RunFinishes \/ NextFinishes
  BY <1>3 DEF RunFinishes, NextFinishes
<1>4. CASE StopReturns
  BY <1>4 DEF StopReturns
<1> QED BY <1>1, <1>2, <1>3, <1>4 DEF Resumed

\* Every step keeps the turns.
LEMMA TurnsStep ==
  ASSUME Turns, [Next]_vars PROVE Turns'
<1>1. CASE UNCHANGED vars
  BY <1>1 DEF Turns, vars, client, session, calling, turn
<1>2. CASE Next /\ ~Finished
  BY <1>2, WorkerTurns, ChoiceTurns, UserTurns, AbandonTurns, OtherTurns DEF Next
<1> QED BY <1>1, <1>2 DEF Finished

-----------------------------------------------------------------------------
(* One operation at a time: what was submitted, and what has been settled.     *)

InTransfer == {"observe", "check", "call", "signal", "sleep", "asleep"}

\* The operation that holds the client's lock is pending, or is the worker's, or
\* has been settled; nothing else is pending or worked on.
Lock ==
  /\ pending = << >> \/ (operations # "free" /\ pending = <<operations>>)
  /\ operation = "none" <=> wpc \in {"idle", "exited"}
  /\ operation # "none" => operation = operations /\ pending = << >>
  /\ pending # << >> \/ operation # "none" => completion[operations] = "none"
  /\ ~acknowledged /\ completion["stream"] # "none" => operations = "stream"
  /\ upc = "new" => completion["stream"] = "none" /\ operations # "stream"
  /\ wpc \in InTransfer => operation = "stream"

\* What the end of the transfer tells the client.
Ends ==
  /\ finished => completion["stream"] # "none"
  /\ acknowledged => finished
  /\ failure <=> finished /\ completion["stream"] # "ok"
  /\ succeeded => acknowledged /\ ~failure /\ ~abandoned
  /\ failed => abandoned \/ failure \/ completion["next"] \in {"error", "canceled"}
  /\ abandoned => failed
  /\ failure /\ ready /\ completion["stream"] # "accepted" => failed

\* The worker takes, runs and settles the one operation there is.
LEMMA WorkerLock ==
  ASSUME TypeOK, Lock, WorkerStep \/ Network PROVE Lock'
<1> USE DEF Lock, quiet, others, client, session, thread, calling, InTransfer
<1>1. CASE WorkerBegin
  <2>1. Head(pending) = operations /\ Tail(pending) = << >> /\ operations # "none"
    BY <1>1 DEF WorkerBegin, TypeOK, Ops
  <2> QED BY <1>1, <2>1 DEF WorkerBegin, Fails, Proceeds, TypeOK, Ops
<1>2. CASE WorkerExit
  <2>1. \A op \in Ops : completion'[op] # completion[op] => op = operations
    BY <1>2 DEF WorkerExit
  <2> QED BY <1>2, <2>1 DEF WorkerExit, TypeOK, Ops
<1>3. CASE WorkerEnd
  BY <1>3 DEF WorkerEnd, TypeOK, Ops, Interrupted, Failures
<1>4. CASE WorkerReceive
  BY <1>4 DEF WorkerReceive, Fails, Proceeds
<1>5. CASE WorkerSend
  BY <1>5 DEF WorkerSend, Fails, Proceeds
<1>6. CASE WorkerSignal \/ WorkerSleep \/ WorkerObserve \/ WorkerCheck
  BY <1>6 DEF WorkerSignal, WorkerSleep, WorkerObserve, WorkerCheck, Fails, Proceeds
<1>7. CASE CurlCallback \/ CurlReturn \/ CurlAbort
  BY <1>7 DEF CurlCallback, CurlReturn, CurlAbort, Fails
<1> QED BY <1>1, <1>2, <1>3, <1>4, <1>5, <1>6, <1>7 DEF WorkerStep, Network

\* acknowledge() frees the lock of a transfer that curl has settled.
LEMMA AcknowledgeLock ==
  ASSUME TypeOK, Lock, completion["stream"] # "none", Acknowledge,
         UNCHANGED <<pending, completion, operation, wpc>>, upc' # "new"
  PROVE  Lock'
BY DEF Lock, Acknowledge, InTransfer, TypeOK, Ops

\* The lock is taken only when it is free, and never twice by the transfer.
LEMMA ChoiceLock ==
  ASSUME TypeOK, Turns, Lock, Ends, UserChoice PROVE Lock'
<1> USE DEF Lock, client, session, sleeper, thread, calling, turn, worker, InTransfer
<1>1. CASE Open
  <2>1. CASE stopping \/ failed
    BY <1>1, <2>1 DEF Open, TypeOK, Ops
  <2>2. CASE ~stopping /\ ~failed
    <3>1. ~worker_stopping /\ pending = << >>
      BY <1>1, <2>2 DEF Open, Turns
    <3> QED BY <1>1, <2>2, <3>1 DEF Open, Submit, TypeOK, Ops
  <2> QED BY <2>1, <2>2
<1>2. CASE NextBegins
  <2>1. ~worker_stopping /\ pending = << >>
    BY <1>2 DEF NextBegins, Turns
  <2> QED BY <1>2, <2>1 DEF NextBegins, Submit, TypeOK, Ops
<1>3. CASE BeginCall \/ RequestCancel
  BY <1>3 DEF BeginCall, RequestCancel
<1>4. CASE Destroy
  BY <1>4 DEF Destroy, UserAbandons
<1>5. CASE StopBegins
  BY <1>5 DEF StopBegins, stopKeeps
<1> QED BY <1>1, <1>2, <1>3, <1>4, <1>5 DEF UserChoice

\* Wake moves only a sleeper.
LEMMA WakeLock ==
  ASSUME Lock, Wake \/ UNCHANGED sleeper, upc' = "new" => upc = "new",
         UNCHANGED <<pending, completion, operation, operations, acknowledged>>
  PROVE  Lock'
BY DEF Lock, Wake, sleeper, InTransfer

\* The user's coroutine frees the lock of a finished transfer only.
LEMMA UserLock ==
  ASSUME TypeOK, Lock, Ends, UserRuns PROVE Lock'
<1> USE DEF client, session, sleeper, thread, calling, turn, worker, Return, UserTurn
<1>1. CASE CallSucceeds \/ CloseReaderReturnsToUser
  <2>1. completion["stream"] # "none" /\ upc' # "new" /\ Acknowledge
    BY <1>1 DEF CallSucceeds, CloseReaderReturnsToUser, Ends
  <2>2. UNCHANGED <<pending, completion, operation, wpc>>
    BY <1>1 DEF CallSucceeds, CloseReaderReturnsToUser
  <2> QED BY <2>1, <2>2, AcknowledgeLock
<1>2. CASE BeginClose
  <2>1. upc' # "new" /\ UNCHANGED sleeper
    BY <1>2 DEF BeginClose, UserAbandons
  <2> QED BY <1>2, <2>1, WakeLock DEF BeginClose
<1>3. CASE CallThrows \/ CallWaits \/ CallReturns
  <2>1. upc' # "new" /\ UNCHANGED sleeper
    BY <1>3 DEF CallThrows, CallWaits, CallReturns, UserAbandons
  <2> QED BY <1>3, <2>1, WakeLock DEF CallThrows, CallWaits, CallReturns
<1>4. CASE ReadSome \/ WriteSome \/ Resume
  <2>1. upc' # "new" /\ (Wake \/ UNCHANGED sleeper)
    BY <1>4 DEF ReadSome, WriteSome, Resume
  <2> QED BY <1>4, <2>1, WakeLock DEF ReadSome, WriteSome, Resume
<1> QED BY <1>1, <1>2, <1>3, <1>4 DEF UserRuns

\* abandon() frees the lock only when curl has settled the transfer.
LEMMA AbandonLock ==
  ASSUME TypeOK, Lock, Ends, AbandonRuns PROVE Lock'
<1> USE DEF calling, sleeper, thread, abandonKeeps
<1>1. AfterAbandon => (upc' = "new" => upc = "new")
  BY DEF AfterAbandon, Return
<1>2. CASE AbandonMark \/ AbandonCancel \/ AbandonWake
  <2>1. upc' = "new" => upc = "new"
    BY <1>1, <1>2 DEF AbandonMark, AbandonCancel, AbandonWake
  <2>2. Wake \/ UNCHANGED sleeper
    BY <1>2 DEF AbandonMark, AbandonCancel, AbandonWake
  <2> QED BY <1>2, <2>1, <2>2, WakeLock DEF AbandonMark, AbandonCancel, AbandonWake
<1>3. CASE AbandonSettle
  <2>1. upc' = "new" => upc = "new"
    BY <1>1, <1>3 DEF AbandonSettle
  <2>2. CASE finished
    BY <1>3, <2>1, <2>2 DEF AbandonSettle, Done, Acknowledge, Lock, Ends, InTransfer, TypeOK, Ops
  <2>3. CASE ~finished
    BY <1>3, <2>1, <2>3, WakeLock DEF AbandonSettle, Done
  <2> QED BY <2>2, <2>3
<1> QED BY <1>2, <1>3 DEF AbandonRuns

\* The other coroutines free the lock of what the worker has settled.
LEMMA OtherLock ==
  ASSUME TypeOK, Lock, Ends, StopRuns \/ Resumed PROVE Lock'
<1> USE DEF client, session, sleeper, thread, calling, turn, worker, stopKeeps
<1>1. CASE RunFinishes
  <2>1. UNCHANGED <<pending, completion, operation, wpc, upc>> /\ UNCHANGED sleeper
    BY <1>1 DEF RunFinishes
  <2>2. completion["stream"] # "none" /\ (Acknowledge \/ UNCHANGED <<acknowledged, operations>>)
    BY <1>1 DEF RunFinishes
  <2>3. upc # "new"
    BY <2>2 DEF Lock
  <2> QED BY <2>1, <2>2, <2>3, AcknowledgeLock, WakeLock
<1>2. CASE NextFinishes
  BY <1>2 DEF NextFinishes, Lock, InTransfer, TypeOK, Ops
<1>3. CASE CallContinues
  BY <1>3, WakeLock DEF CallContinues
<1>4. CASE StopRuns \/ StopReturns
  <2>1. Wake \/ UNCHANGED sleeper
    BY <1>4 DEF StopRuns, StopConfirmation, StopRequest, StopWake, StopReturns
  <2> QED BY <1>4, <2>1, WakeLock DEF StopRuns, StopConfirmation, StopRequest, StopWake, StopReturns
<1> QED BY <1>1, <1>2, <1>3, <1>4 DEF Resumed

\* Every step keeps one operation at a time.
LEMMA LockStep ==
  ASSUME TypeOK, Turns, Lock, Ends, [Next]_vars PROVE Lock'
<1>1. CASE UNCHANGED vars
  BY <1>1 DEF Lock, vars, client, session, sleeper, thread, calling, turn, InTransfer
<1>2. CASE Next /\ ~Finished
  BY <1>2, WorkerLock, ChoiceLock, UserLock, AbandonLock, OtherLock DEF Next
<1> QED BY <1>1, <1>2 DEF Finished

-----------------------------------------------------------------------------
(* What the end of a transfer leaves behind.                                *)

\* What was settled stays as it was settled.
Settled(op) == completion[op] # "none" => completion'[op] = completion[op]

\* No step settles an operation twice.
LEMMA SettledOnce ==
  ASSUME TypeOK, Turns, Lock, [Next]_vars, NEW op \in Ops PROVE Settled(op)
<1> USE DEF Settled, quiet, others, session, worker, stopKeeps, abandonKeeps
<1>1. CASE WorkerExit
  BY <1>1 DEF WorkerExit, Lock, TypeOK
<1>2. CASE WorkerEnd
  BY <1>2 DEF WorkerEnd, Lock, TypeOK, Ops
<1>3. CASE Open
  BY <1>3 DEF Open, Submit, Turns, TypeOK
<1>4. CASE NextBegins
  BY <1>4 DEF NextBegins, Submit, TypeOK
<1>5. CASE UNCHANGED vars \/ Finished
  BY <1>5 DEF vars, Finished
<1>6. CASE (WorkerStep /\ ~WorkerExit /\ ~WorkerEnd) \/ Network
  BY <1>6 DEF WorkerStep, Network, WorkerBegin, CurlAbort, WorkerObserve, WorkerCheck,
     WorkerReceive, WorkerSend, WorkerSignal, WorkerSleep, CurlCallback, CurlReturn
<1>7. CASE (UserChoice /\ ~Open /\ ~NextBegins) \/ StopRuns
  BY <1>7 DEF UserChoice, BeginCall, Destroy, RequestCancel, StopBegins, StopRuns,
     StopConfirmation, StopRequest, StopWake
<1>8. CASE UserRuns \/ AbandonRuns
  BY <1>8 DEF UserRuns, BeginClose, CallThrows, CallWaits, CallReturns, ReadSome, WriteSome,
     Resume, CallSucceeds, CloseReaderReturnsToUser, AbandonRuns, AbandonMark, AbandonCancel,
     AbandonWake, AbandonSettle
<1>9. CASE Resumed
  BY <1>9 DEF Resumed, CallContinues, RunFinishes, NextFinishes, StopReturns
<1> QED BY <1>1, <1>2, <1>3, <1>4, <1>5, <1>6, <1>7, <1>8, <1>9
        DEF Next, WorkerStep, UserChoice

\* What Ends is about, apart from what was settled.
ends == <<ready, finished, failure, abandoned, acknowledged, succeeded, failed>>

\* A step that only settles something keeps what the ends tell.
LEMMA EndsStand ==
  ASSUME Ends, Settled("stream"), Settled("next"), UNCHANGED ends PROVE Ends'
BY DEF Ends, Settled, ends

\* A step that makes the stream ready does so before curl has settled it.
LEMMA ReadyEnds ==
  ASSUME Lock, Ends, Settled("next"), WorkerReceive \/ WorkerSend PROVE Ends'
<1>1. completion["stream"] = "none" /\ UNCHANGED completion
  BY DEF WorkerReceive, WorkerSend, Lock, InTransfer
<1>2. UNCHANGED <<finished, failure, abandoned, acknowledged, succeeded, failed>>
  BY DEF WorkerReceive, WorkerSend, others, client
<1> QED BY <1>1, <1>2 DEF Ends

\* Every step keeps what the end of a transfer tells the client.
LEMMA EndsStep ==
  ASSUME TypeOK, Turns, Lock, Ends, [Next]_vars PROVE Ends'
<1>1. Settled("stream") /\ Settled("next")
  BY SettledOnce DEF Ops
<1> USE DEF client, flags, worker, session, stopKeeps, abandonKeeps
<1>2. CASE WorkerReceive \/ WorkerSend
  BY <1>1, <1>2, ReadyEnds
<1>3. CASE (WorkerStep \/ Network) /\ ~(WorkerReceive \/ WorkerSend)
  <2>1. UNCHANGED ends
    BY <1>3 DEF WorkerStep, Network, WorkerBegin, WorkerExit, CurlAbort, WorkerObserve,
       WorkerCheck, WorkerSignal, WorkerSleep, WorkerEnd, CurlCallback, CurlReturn, ends,
       quiet, others
  <2> QED BY <1>1, <2>1, EndsStand
<1>4. CASE UserChoice \/ StopRuns \/ CallContinues \/ StopReturns
  <2>1. UNCHANGED ends
    BY <1>4 DEF UserChoice, Open, BeginCall, Destroy, RequestCancel, NextBegins, StopBegins,
       StopRuns, StopConfirmation, StopRequest, StopWake, CallContinues, StopReturns, ends
  <2> QED BY <1>1, <2>1, EndsStand
<1>5. CASE CallSucceeds \/ CloseReaderReturnsToUser
  <2>1. UNCHANGED <<ready, finished, failure, abandoned, failed, completion>>
    BY <1>5 DEF CallSucceeds, CloseReaderReturnsToUser
  <2>2. finished /\ acknowledged' = TRUE
    BY <1>5 DEF CallSucceeds, CloseReaderReturnsToUser, Acknowledge
  <2>3. succeeded' => succeeded \/ (~failure /\ ~abandoned)
    BY <1>5 DEF CallSucceeds, CloseReaderReturnsToUser, MayGoOn, RequireAvailable
  <2> QED BY <2>1, <2>2, <2>3 DEF Ends
<1>6. CASE UserRuns /\ ~(CallSucceeds \/ CloseReaderReturnsToUser)
  <2>1. UNCHANGED ends
    BY <1>6 DEF UserRuns, BeginClose, CallThrows, CallWaits, CallReturns, ReadSome,
       WriteSome, Resume, ends
  <2> QED BY <1>1, <2>1, EndsStand
<1>7. CASE AbandonMark
  <2>1. UNCHANGED <<ready, finished, failure, acknowledged, succeeded, completion>>
    BY <1>7 DEF AbandonMark
  <2>2. \/ UNCHANGED <<abandoned, failed>>
        \/ ~acknowledged /\ abandoned' = TRUE /\ failed' = TRUE
    BY <1>7 DEF AbandonMark
  <2> QED BY <2>1, <2>2 DEF Ends
<1>8. CASE AbandonCancel \/ AbandonWake
  <2>1. UNCHANGED ends
    BY <1>8 DEF AbandonCancel, AbandonWake, ends
  <2> QED BY <1>1, <2>1, EndsStand
<1>9. CASE AbandonSettle
  <2>1. UNCHANGED <<ready, finished, failure, abandoned, succeeded, failed, completion>>
    BY <1>9 DEF AbandonSettle
  <2>2. acknowledged' # acknowledged => finished
    BY <1>9 DEF AbandonSettle, Done
  <2>3. acknowledged => acknowledged'
    BY <1>9 DEF AbandonSettle, Acknowledge
  <2> QED BY <2>1, <2>2, <2>3 DEF Ends, TypeOK
<1>10. CASE RunFinishes
  <2>1. ~finished /\ ~failure /\ ~succeeded /\ ~acknowledged
    BY <1>10 DEF RunFinishes, Ends
  <2>2. UNCHANGED <<ready, abandoned, succeeded, completion>> /\ finished' = TRUE
    BY <1>10 DEF RunFinishes
  <2>3. failure' = (completion["stream"] # "ok") /\ completion["stream"] # "none"
    BY <1>10 DEF RunFinishes
  <2>4. failed' = (failed \/ FailsSession(completion["stream"]))
    BY <1>10 DEF RunFinishes
  <2> QED BY <2>1, <2>2, <2>3, <2>4 DEF Ends, FailsSession, TypeOK, Ops, Failures
<1>11. CASE NextFinishes
  <2>1. UNCHANGED <<ready, finished, failure, abandoned, acknowledged, succeeded, completion>>
    BY <1>11 DEF NextFinishes
  <2>2. failed' = (failed \/ completion["next"] \in {"error", "canceled"})
    BY <1>11 DEF NextFinishes
  <2> QED BY <2>1, <2>2 DEF Ends
<1>12. CASE UNCHANGED vars \/ Finished
  BY <1>12 DEF Ends, vars, Finished
<1> QED BY <1>2, <1>3, <1>4, <1>5, <1>6, <1>7, <1>8, <1>9, <1>10, <1>11, <1>12
        DEF Next, Resumed, AbandonRuns

-----------------------------------------------------------------------------
(* Wakes.                                                                   *)

\* The worker has been told to pause and has not seen a wake since it looked.
Pausing == ~moved /\ (wpc \in {"sleep", "asleep"} \/ (wpc = "signal" /\ answer = "pause"))

\* From its look at the revision to its sleep, whatever would let the worker go on
\* is followed by a wake.
Woken ==
  /\ wpc = "asleep" => ~moved
  /\ ~moved /\ wpc = "call" /\ Interrupted => WakeOnItsWay
  /\ Pausing /\ (CouldExchange \/ Interrupted) => WakeOnItsWay

\* The worker goes to sleep only when there is nothing to do.
LEMMA WorkerWoken ==
  ASSUME TypeOK, Sizes, Woken, WorkerStep \/ Network PROVE Woken'
<1> USE DEF Woken, Pausing, quiet, others, client, session, calling, turn, thread,
            Interrupted, WakeOnItsWay
<1>1. CASE WorkerReceive
  <2>1. CASE ~abandoned /\ chunk > Capacity - count /\ UNCHANGED ring
    <3>1. chunk \in Nat /\ Capacity \in Nat /\ count \in Nat
      BY CapacityAssumption, CurlSizesAssumption DEF TypeOK
    <3>2. ~(chunk <= Capacity - count)
      BY <2>1, <3>1
    <3> QED BY <1>1, <2>1, <3>2 DEF WorkerReceive, CouldExchange, Fails, Proceeds, ring
  <2>2. CASE answer' = "bytes" /\ wpc' = "signal"
    BY <2>2
  <2>3. CASE wpc' = "end"
    BY <2>3
  <2> QED BY <1>1, <2>1, <2>2, <2>3 DEF WorkerReceive, Fails, Proceeds
<1>2. CASE WorkerSend
  <2>1. CASE answer' = "pause" /\ count = 0 /\ ~input_ended /\ ~abandoned /\ UNCHANGED ring
    BY <1>2, <2>1 DEF WorkerSend, CouldExchange, Fails, Proceeds, ring
  <2>2. CASE answer' # "pause" \/ wpc' = "end"
    BY <1>2, <2>2 DEF WorkerSend, Fails, Proceeds
  <2> QED BY <1>2, <2>1, <2>2 DEF WorkerSend, Fails
<1>3. CASE WorkerSignal
  BY <1>3 DEF WorkerSignal, CouldExchange, ring, flags
<1>4. CASE WorkerSleep
  BY <1>4 DEF WorkerSleep, CouldExchange, ring, flags
<1>5. CASE WorkerObserve \/ WorkerCheck
  BY <1>5 DEF WorkerObserve, WorkerCheck, Fails, Proceeds
<1>6. CASE WorkerBegin \/ WorkerExit \/ WorkerEnd
  BY <1>6 DEF WorkerBegin, WorkerExit, WorkerEnd, Fails, Proceeds
<1>7. CASE CurlCallback \/ CurlReturn \/ CurlAbort
  BY <1>7 DEF CurlCallback, CurlReturn, CurlAbort, Fails
<1> QED BY <1>1, <1>2, <1>3, <1>4, <1>5, <1>6, <1>7 DEF WorkerStep, Network

\* A wake reaches the worker wherever it is on its way to the sleep.
LEMMA WakeWakes == ASSUME Wake PROVE Woken'
BY DEF Wake, Woken, Pausing

\* Steps that give the worker nothing new to do.
LEMMA WokenStand ==
  ASSUME Woken, WakeOnItsWay => WakeOnItsWay',
         UNCHANGED <<sleeper, thread, abandoned, upload, count, input_ended, worker_stopping,
                     cancelled>>
  PROVE  Woken'
BY DEF Woken, Pausing, sleeper, thread, Interrupted, CouldExchange

\* Steps after which a wake is on its way.
LEMMA WakeFollows ==
  ASSUME Woken, WakeOnItsWay', UNCHANGED sleeper PROVE Woken'
BY DEF Woken, sleeper

\* A step of the dispatcher that lets the worker go on is followed by a wake.
LEMMA DispatcherWoken ==
  ASSUME TypeOK, Turns, Woken,
         UserChoice \/ UserRuns \/ AbandonRuns \/ StopRuns \/ Resumed
  PROVE  Woken'
<1> USE DEF client, session, calling, turn, worker, flags, ring, stopKeeps, abandonKeeps,
            UserTurn, UserAbandons, Return
<1>1. CASE UserChoice
  <2>1. WakeOnItsWay => WakeOnItsWay'
    BY <1>1 DEF UserChoice, Open, BeginCall, Destroy, RequestCancel, NextBegins, StopBegins,
       WakeOnItsWay, Turns
  <2>2. UNCHANGED <<sleeper, thread, abandoned, upload, count, input_ended, worker_stopping,
                    cancelled>>
    BY <1>1 DEF UserChoice, Open, BeginCall, Destroy, RequestCancel, NextBegins, StopBegins
  <2> QED BY <2>1, <2>2, WokenStand
<1>2. CASE BeginClose
  <2>1. CASE upc' = "resume"
    BY <1>2, <2>1, WakeFollows DEF BeginClose, WakeOnItsWay
  <2>2. CASE UNCHANGED input_ended
    <3>1. WakeOnItsWay => WakeOnItsWay'
      BY <1>2 DEF BeginClose, WakeOnItsWay, Turns
    <3> QED BY <1>2, <2>2, <3>1, WokenStand DEF BeginClose
  <2> QED BY <1>2, <2>1, <2>2 DEF BeginClose
<1>3. CASE ReadSome \/ WriteSome
  BY <1>3, WakeFollows DEF ReadSome, WriteSome, WakeOnItsWay
<1>4. CASE Resume \/ AbandonWake \/ StopConfirmation \/ StopWake
  BY <1>4, WakeWakes DEF Resume, AbandonWake, StopConfirmation, StopWake
<1>5. CASE CallThrows \/ CallWaits \/ CallReturns \/ CallSucceeds \/ CloseReaderReturnsToUser
  <2>1. WakeOnItsWay => WakeOnItsWay'
    BY <1>5 DEF CallThrows, CallWaits, CallReturns, CallSucceeds, CloseReaderReturnsToUser,
       WakeOnItsWay, Turns
  <2>2. UNCHANGED <<sleeper, thread, abandoned, upload, count, input_ended, worker_stopping,
                    cancelled>>
    BY <1>5 DEF CallThrows, CallWaits, CallReturns, CallSucceeds, CloseReaderReturnsToUser
  <2> QED BY <2>1, <2>2, WokenStand
<1>6. CASE AbandonMark
  <2>1. CASE acknowledged
    <3>1. WakeOnItsWay => WakeOnItsWay'
      BY <1>6, <2>1 DEF AbandonMark, AfterAbandon, WakeOnItsWay, Turns
    <3> QED BY <1>6, <2>1, <3>1, WokenStand DEF AbandonMark
  <2>2. CASE ~acknowledged
    BY <1>6, <2>2, WakeFollows DEF AbandonMark, WakeOnItsWay
  <2> QED BY <2>1, <2>2
<1>7. CASE AbandonCancel \/ StopRequest
  BY <1>7, WakeFollows DEF AbandonCancel, StopRequest, WakeOnItsWay
<1>8. CASE AbandonSettle
  <2>1. WakeOnItsWay => WakeOnItsWay'
    BY <1>8 DEF AbandonSettle, AfterAbandon, WakeOnItsWay, Turns
  <2> QED BY <1>8, <2>1, WokenStand DEF AbandonSettle
<1>9. CASE Resumed
  <2>1. WakeOnItsWay => WakeOnItsWay'
    BY <1>9 DEF Resumed, CallContinues, RunFinishes, NextFinishes, StopReturns, WakeOnItsWay, Turns
  <2>2. UNCHANGED <<sleeper, thread, abandoned, upload, count, input_ended, worker_stopping,
                    cancelled>>
    BY <1>9 DEF Resumed, CallContinues, RunFinishes, NextFinishes, StopReturns
  <2> QED BY <2>1, <2>2, WokenStand
<1> QED BY <1>1, <1>2, <1>3, <1>4, <1>5, <1>6, <1>7, <1>8, <1>9
        DEF UserRuns, AbandonRuns, StopRuns

\* Every step keeps the wakes.
LEMMA WokenStep ==
  ASSUME TypeOK, Sizes, Turns, Woken, [Next]_vars PROVE Woken'
<1>1. CASE UNCHANGED vars
  <2>1. WakeOnItsWay => WakeOnItsWay'
    BY <1>1 DEF vars, calling, turn, WakeOnItsWay
  <2> QED BY <1>1, <2>1, WokenStand DEF vars, ring, flags, session, turn
<1>2. CASE Next /\ ~Finished
  BY <1>2, WorkerWoken, DispatcherWoken DEF Next
<1> QED BY <1>1, <1>2 DEF Finished

-----------------------------------------------------------------------------
(* Triggers.                                                                *)

\* Steps that give a waiting call nothing new.
LEMMA TriggersStand ==
  ASSUME NoLostTrigger,
         UNCHANGED <<upc, waiter, call, rest, ready, finished, count, failure, abandoned>>,
         wpc' = "signal" \/ wpc # "signal",
         apc' \in {"cancel", "wake", "settle"} \/ apc \notin {"cancel", "wake", "settle"}
  PROVE  NoLostTrigger'
BY DEF NoLostTrigger, HasWhatItAwaits, Satisfied

\* The worker's steps: the callback announces what it changed.
LEMMA WorkerTriggers ==
  ASSUME TypeOK, NoLostTrigger, WorkerStep \/ Network PROVE NoLostTrigger'
<1> USE DEF quiet, others, client, session, calling, turn, thread, ring, flags
<1>1. CASE WorkerReceive
  <2>1. CASE UNCHANGED <<count, ready>>
    <3>1. wpc # "signal"
      BY <1>1 DEF WorkerReceive
    <3> QED BY <1>1, <2>1, <3>1, TriggersStand DEF WorkerReceive
  <2>2. CASE wpc' = "signal"
    BY <2>2 DEF NoLostTrigger
  <2> QED BY <1>1, <2>1, <2>2 DEF WorkerReceive, Proceeds
<1>2. CASE WorkerSend
  <2>1. CASE UNCHANGED <<count, ready>>
    <3>1. wpc # "signal"
      BY <1>2 DEF WorkerSend
    <3> QED BY <1>2, <2>1, <3>1, TriggersStand DEF WorkerSend
  <2>2. CASE wpc' = "signal"
    BY <2>2 DEF NoLostTrigger
  <2> QED BY <1>2, <2>1, <2>2 DEF WorkerSend, Proceeds
<1>3. CASE WorkerSignal
  BY <1>3 DEF WorkerSignal, Announces, Trigger, NoLostTrigger, HasWhatItAwaits
<1>4. CASE (WorkerStep \/ Network) /\ ~(WorkerReceive \/ WorkerSend \/ WorkerSignal)
  <2>1. wpc # "signal"
    BY <1>4 DEF WorkerStep, Network, WorkerBegin, WorkerExit, CurlAbort, WorkerObserve,
       WorkerCheck, WorkerSleep, WorkerEnd, CurlCallback, CurlReturn
  <2>2. UNCHANGED <<upc, waiter, call, rest, ready, finished, count, failure, abandoned, apc>>
    BY <1>4 DEF WorkerStep, Network, WorkerBegin, WorkerExit, CurlAbort, WorkerObserve,
       WorkerCheck, WorkerSleep, WorkerEnd, CurlCallback, CurlReturn
  <2> QED BY <2>1, <2>2, TriggersStand
<1> QED BY <1>1, <1>2, <1>3, <1>4

\* Steps after which no call waits, or that trigger the waiter.
LEMMA NobodyWaits ==
  ASSUME upc' # "await" \/ waiter' # "waiting" PROVE NoLostTrigger'
BY DEF NoLostTrigger, HasWhatItAwaits

\* The dispatcher's steps: a call waits only for what it has not got.
LEMMA DispatcherTriggers ==
  ASSUME TypeOK, Turns, NoLostTrigger,
         UserChoice \/ UserRuns \/ AbandonRuns \/ StopRuns \/ Resumed
  PROVE  NoLostTrigger'
<1> USE DEF client, session, calling, turn, worker, flags, ring, stopKeeps, abandonKeeps,
            UserTurn, UserAbandons, Return
<1>1. CASE Open \/ BeginCall \/ Destroy
  BY <1>1, NobodyWaits DEF Open, BeginCall, Destroy
<1>2. CASE RequestCancel \/ NextBegins \/ NextFinishes \/ StopReturns
  BY <1>2, TriggersStand DEF RequestCancel, NextBegins, NextFinishes, StopReturns, sleeper
<1>3. CASE StopBegins
  <2>1. apc = "none"
    BY <1>3 DEF StopBegins, Turns, TypeOK
  <2> QED BY <1>3, <2>1, TriggersStand DEF StopBegins, sleeper
<1>4. CASE CallWaits
  BY <1>4 DEF CallWaits, MayGoOn, RequireAvailable, NoLostTrigger, HasWhatItAwaits, Satisfied
<1>5. CASE UserRuns /\ ~CallWaits
  <2>1. upc' # "await"
    BY <1>5 DEF UserRuns, BeginClose, CallThrows, CallReturns, ReadSome, WriteSome, Resume,
       CallSucceeds, CloseReaderReturnsToUser
  <2> QED BY <2>1, NobodyWaits
<1>6. CASE AbandonMark
  <2>1. CASE acknowledged
    <3>1. CASE disp = "user"
      <4>1. upc' # "await"
        BY <1>6, <2>1, <3>1 DEF AbandonMark, AfterAbandon
      <4> QED BY <4>1, NobodyWaits
    <3>2. CASE disp # "user"
      <4>1. apc = "mark" /\ UNCHANGED <<upc, call, rest>> /\ UNCHANGED sleeper
        BY <1>6, <2>1, <3>2 DEF AbandonMark, AfterAbandon
      <4> QED BY <1>6, <2>1, <4>1, TriggersStand DEF AbandonMark, sleeper
    <3> QED BY <3>1, <3>2
  <2>2. CASE ~acknowledged
    BY <1>6, <2>2 DEF AbandonMark, NoLostTrigger
  <2> QED BY <2>1, <2>2
<1>7. CASE AbandonCancel
  BY <1>7 DEF AbandonCancel, NoLostTrigger
<1>8. CASE AbandonWake
  BY <1>8 DEF AbandonWake, NoLostTrigger
<1>9. CASE AbandonSettle \/ RunFinishes
  <2>1. waiter' # "waiting"
    BY <1>9 DEF AbandonSettle, RunFinishes, Trigger
  <2> QED BY <2>1, NobodyWaits
<1>10. CASE StopRuns
  <2>1. wpc = "signal" => wpc' = "signal"
    BY <1>10 DEF StopRuns, StopConfirmation, StopRequest, StopWake, Wake, sleeper
  <2> QED BY <1>10, <2>1, TriggersStand DEF StopRuns, StopConfirmation, StopRequest, StopWake
<1>11. CASE CallContinues
  BY <1>11, NobodyWaits DEF CallContinues
<1> QED BY <1>1, <1>2, <1>3, <1>4, <1>5, <1>6, <1>7, <1>8, <1>9, <1>10, <1>11
        DEF UserChoice, AbandonRuns, Resumed

\* Every step keeps the triggers.
LEMMA TriggersStep ==
  ASSUME TypeOK, Turns, NoLostTrigger, [Next]_vars PROVE NoLostTrigger'
<1>1. CASE UNCHANGED vars
  BY <1>1, TriggersStand DEF vars, ring, flags, sleeper, calling, turn
<1>2. CASE Next /\ ~Finished
  BY <1>2, WorkerTriggers, DispatcherTriggers DEF Next
<1> QED BY <1>1, <1>2 DEF Finished

-----------------------------------------------------------------------------
(* The end of an upload, and the channel.                                   *)

\* curl is told that the input ended only when the ring has been emptied, and only
\* then can the upload succeed.
InputEnds ==
  /\ call = "closeWriter" => upload
  /\ call = "read" => ~upload
  /\ upload /\ (answer = "zero" \/ curl_ended) => input_ended /\ count = 0
  /\ upload /\ wpc = "end" /\ operation = "stream" /\ curl_result = "ok" => curl_ended
  /\ upload /\ completion["stream"] = "ok" => input_ended /\ count = 0
  /\ succeeded => count = 0

\* What the end of the input is about.
LEMMA InputStands ==
  ASSUME InputEnds,
         UNCHANGED <<call, upload, answer, curl_ended, wpc, operation, curl_result,
                     completion, input_ended, count, succeeded>>
  PROVE  InputEnds'
BY DEF InputEnds

\* A ring that is emptied stays empty once the input has ended.
LEMMA TakeCounts ==
  ASSUME TypeOK, NEW n \in Nat, RingTake(n) PROVE count = 0 => count' = 0
<1>1. count' = count - Least(n, count)
  BY DEF RingTake
<1>2. count = 0 => Least(n, count) = 0
  BY DEF Least
<1> QED BY <1>1, <1>2

\* The worker tells curl the truth about the end of the input.
LEMMA WorkerInput ==
  ASSUME TypeOK, Lock, Ends, InputEnds, WorkerStep \/ Network PROVE InputEnds'
<1> USE DEF quiet, others, client, session, calling, turn, thread, ring, flags
<1>1. CASE WorkerReceive
  <2>1. completion["stream"] = "none" /\ ~succeeded
    BY <1>1 DEF WorkerReceive, Lock, Ends, InTransfer
  <2> QED BY <1>1, <2>1 DEF WorkerReceive, InputEnds, Fails, Proceeds
<1>2. CASE WorkerSend
  <2>1. completion["stream"] = "none" /\ ~succeeded
    BY <1>2 DEF WorkerSend, Lock, Ends, InTransfer
  <2>2. count = 0 => count' = 0
    <3>1. chunk \in Nat
      BY CurlSizesAssumption DEF TypeOK
    <3> QED BY <1>2, <3>1, TakeCounts DEF WorkerSend
  <2> QED BY <1>2, <2>1, <2>2 DEF WorkerSend, InputEnds, Fails, Proceeds
<1>3. CASE WorkerSignal
  BY <1>3 DEF WorkerSignal, InputEnds
<1>4. CASE WorkerSleep \/ WorkerObserve \/ WorkerCheck
  BY <1>4 DEF WorkerSleep, WorkerObserve, WorkerCheck, InputEnds, Fails, Proceeds
<1>5. CASE WorkerBegin
  BY <1>5 DEF WorkerBegin, InputEnds, Fails, Proceeds
<1>6. CASE WorkerExit
  BY <1>6 DEF WorkerExit, InputEnds, Ops
<1>7. CASE WorkerEnd
  BY <1>7 DEF WorkerEnd, InputEnds, Ops, TypeOK
<1>8. CASE CurlCallback \/ CurlReturn \/ CurlAbort
  BY <1>8 DEF CurlCallback, CurlReturn, CurlAbort, InputEnds, Fails, Failures
<1> QED BY <1>1, <1>2, <1>3, <1>4, <1>5, <1>6, <1>7, <1>8 DEF WorkerStep, Network

\* The dispatcher writes nothing after the end of the input.
LEMMA DispatcherInput ==
  ASSUME TypeOK, Turns, Lock, Ends, InputEnds,
         UserChoice \/ UserRuns \/ AbandonRuns \/ StopRuns \/ Resumed
  PROVE  InputEnds'
<1> USE DEF client, session, sleeper, calling, turn, worker, thread, flags, ring, stopKeeps,
            abandonKeeps, UserTurn, UserAbandons, Return
<1>1. CASE Open
  <2>1. ~stopping => ~worker_stopping
    BY DEF Turns
  <2> QED BY <1>1, <2>1 DEF Open, Submit, InputEnds
<1>2. CASE NextBegins
  BY <1>2 DEF NextBegins, Submit, InputEnds, TypeOK, Ops
<1>3. CASE BeginCall \/ Destroy \/ RequestCancel \/ StopBegins
  BY <1>3 DEF BeginCall, Destroy, RequestCancel, StopBegins, InputEnds
<1>4. CASE BeginClose
  BY <1>4 DEF BeginClose, InputEnds
<1>5. CASE ReadSome
  <2>1. rest \in Nat
    BY CallSizesAssumption DEF TypeOK
  <2>2. count = 0 => count' = 0
    BY <1>5, <2>1, TakeCounts DEF ReadSome
  <2> QED BY <1>5, <2>2 DEF ReadSome, InputEnds
<1>6. CASE WriteSome
  <2>1. ~input_ended /\ ~succeeded
    BY <1>6 DEF WriteSome, WriterClosed, Ends
  <2> QED BY <1>6, <2>1 DEF WriteSome, InputEnds
<1>7. CASE CallThrows \/ CallWaits \/ CallReturns \/ CloseReaderReturnsToUser
  BY <1>7 DEF CallThrows, CallWaits, CallReturns, CloseReaderReturnsToUser, InputEnds
<1>8. CASE Resume \/ StopRuns \/ AbandonWake
  BY <1>8 DEF Resume, StopRuns, StopConfirmation, StopRequest, StopWake, AbandonWake, Wake,
     InputEnds
<1>9. CASE CallSucceeds
  <2>1. completion["stream"] = "ok"
    BY <1>9 DEF CallSucceeds, MayGoOn, RequireAvailable, Ends
  <2> QED BY <1>9, <2>1 DEF CallSucceeds, InputEnds
<1>10. CASE AbandonMark \/ AbandonCancel \/ AbandonSettle
  BY <1>10 DEF AbandonMark, AbandonCancel, AbandonSettle, AfterAbandon, InputEnds
<1>11. CASE Resumed
  BY <1>11 DEF Resumed, CallContinues, RunFinishes, NextFinishes, StopReturns, InputEnds
<1> QED BY <1>1, <1>2, <1>3, <1>4, <1>5, <1>6, <1>7, <1>8, <1>9, <1>10, <1>11
        DEF UserChoice, UserRuns, AbandonRuns

\* Every step keeps what is known of the end of the input.
LEMMA InputStep ==
  ASSUME TypeOK, Turns, Lock, Ends, InputEnds, [Next]_vars PROVE InputEnds'
<1>1. CASE UNCHANGED vars
  BY <1>1, InputStands DEF vars, ring, flags, client, session, sleeper, thread, calling, turn
<1>2. CASE Next /\ ~Finished
  BY <1>2, WorkerInput, DispatcherInput DEF Next
<1> QED BY <1>1, <1>2 DEF Finished

-----------------------------------------------------------------------------
(* The inductive invariant of the session, and what follows from it.           *)

SessionInv == Inductive /\ Turns /\ Lock /\ Ends /\ Woken /\ NoLostTrigger /\ InputEnds

\* The initial states satisfy it.
LEMMA SessionInit == Init => SessionInv
<1> SUFFICES ASSUME Init PROVE SessionInv
  OBVIOUS
<1>1. Inductive
  BY InductiveInit
<1>2. Turns /\ Lock /\ Ends /\ Woken /\ NoLostTrigger
  BY DEF Init, Turns, Lock, Ends, Woken, Pausing, NoLostTrigger, HasWhatItAwaits, InTransfer, Ops
<1>3. InputEnds
  BY DEF Init, InputEnds, Ops
<1> QED BY <1>1, <1>2, <1>3 DEF SessionInv

\* Every step keeps it.
LEMMA SessionStep == SessionInv /\ [Next]_vars => SessionInv'
<1> SUFFICES ASSUME SessionInv, [Next]_vars PROVE SessionInv'
  OBVIOUS
<1>1. Inductive'
  BY InductiveStep DEF SessionInv
<1>2. TypeOK /\ Sizes /\ Turns /\ Lock /\ Ends /\ Woken /\ NoLostTrigger /\ InputEnds
  BY DEF SessionInv, Inductive
<1>3. Turns' /\ Lock' /\ Ends'
  BY <1>2, TurnsStep, LockStep, EndsStep
<1>4. Woken' /\ NoLostTrigger' /\ InputEnds'
  BY <1>2, WokenStep, TriggersStep, InputStep
<1> QED BY <1>1, <1>3, <1>4 DEF SessionInv

\* The invariant of the session holds in every reachable state.
THEOREM SessionInvariant == Spec => []SessionInv
<1> QED BY SessionInit, SessionStep, PTL DEF Spec

\* The worker works for the operation that holds the lock and no other, a transfer
\* is acknowledged only when curl has settled it, and one that was given up or that
\* failed after its start makes the session unusable (ftp-client.cpp:379, 605-607).
THEOREM SessionIsSound == Spec => []SessionSound
<1>1. SessionInv => SessionSound
  BY DEF SessionInv, Inductive, Lock, Ends, SessionSound, OneOperation, SessionUsable
<1> QED BY <1>1, SessionInvariant, PTL

\* Neither the worker nor a call of the user sleeps on what has happened: whatever
\* the interleaving, a wake or a trigger is on its way (curl-ftp-session.cpp:209-232,
\* ftp-client.cpp:518-520).
THEOREM NobodySleeps == Spec => []NoneSleeps
<1>1. SessionInv => NoneSleeps
  <2> SUFFICES ASSUME SessionInv PROVE NoLostWake /\ NoLostTrigger
    BY DEF NoneSleeps
  <2>1. NoLostWake
    BY DEF SessionInv, Woken, Pausing, NoLostWake
  <2> QED BY <2>1 DEF SessionInv
<1> QED BY <1>1, SessionInvariant, PTL

-----------------------------------------------------------------------------
(* The transfer implements the channel: every step produces, consumes, completes *)
(* or breaks, or changes nothing the channel knows of.                          *)

Outcome == IF succeeded THEN "complete"
           ELSE IF abandoned \/ failure THEN "broken" ELSE "open"

\* A step that leaves the bytes and the outcome alone.
LEMMA ChannelStutters ==
  ASSUME UNCHANGED ring, UNCHANGED <<succeeded, abandoned, failure>>
  PROVE  UNCHANGED Channel!vars
BY DEF Channel!vars, ring

\* The bytes delivered are the first of the file, however many they are.
LEMMA DeliveredPrefix ==
  ASSUME Inductive PROVE delivered = [i \in 1..Len(delivered) |-> i]
BY DEF Inductive, TypeOK, RingHolds

\* Appending to the ring of an open transfer produces.
LEMMA AppendProduces ==
  ASSUME Inductive, NEW n \in Nat, n <= Length - sent, RingAppend(n), Outcome = "open",
         UNCHANGED <<succeeded, abandoned, failure>>
  PROVE  [Channel!Next]_Channel!vars
<1>1. sent' = sent + n /\ UNCHANGED delivered /\ sent \in Nat
  BY DEF RingAppend, Inductive, TypeOK
<1>2. CASE n = 0
  BY <1>1, <1>2 DEF Channel!vars
<1>3. CASE n # 0
  <2>1. n \in 1..(Length - sent)
    BY <1>1, <1>3, LengthAssumption
  <2> QED BY <1>1, <2>1 DEF Channel!Next, Channel!Produce, Outcome
<1> QED BY <1>2, <1>3

\* Taking from the ring of an open transfer consumes.
LEMMA TakeConsumes ==
  ASSUME Inductive, Inductive', NEW n \in Nat, RingTake(n), Outcome = "open",
         UNCHANGED <<succeeded, abandoned, failure>>
  PROVE  [Channel!Next]_Channel!vars
<1> DEFINE size == Least(n, count)
<1>1. UNCHANGED sent /\ count' = count - size
  BY DEF RingTake
<1>2. count \in Nat /\ sent = Len(delivered) + count /\ Len(delivered) \in Nat
  BY CapacityAssumption DEF Inductive, TypeOK, RingHolds
<1>3. sent' = Len(delivered') + count' /\ Len(delivered') \in Nat
  BY DEF Inductive, TypeOK, RingHolds
<1>4. size \in 0..count
  BY <1>2 DEF Least
<1>5. Len(delivered') = Len(delivered) + size
  BY <1>1, <1>2, <1>3, <1>4
<1>6. delivered' = [i \in 1..Len(delivered') |-> i]
  BY DEF Inductive, TypeOK, RingHolds
<1> HIDE DEF size
<1>7. CASE size = 0
  BY <1>1, <1>2, <1>5, <1>6, <1>7, DeliveredPrefix DEF Channel!vars
<1>8. CASE size # 0
  <2>1. size \in 1..(sent - Len(delivered))
    BY <1>2, <1>4, <1>8
  <2> QED BY <1>1, <1>5, <1>6, <2>1 DEF Channel!Next, Channel!Consume, Outcome
<1> QED BY <1>7, <1>8

\* The worker exchanges bytes only with an open transfer.
LEMMA WorkerChannel ==
  ASSUME SessionInv, SessionInv', WorkerReceive \/ WorkerSend
  PROVE  [Channel!Next]_Channel!vars
<1> USE DEF SessionInv
<1>1. Outcome = "open" \/ abandoned
  BY DEF WorkerReceive, WorkerSend, Lock, Ends, Outcome, InTransfer
<1>2. UNCHANGED <<succeeded, abandoned, failure>>
  BY DEF WorkerReceive, WorkerSend, others, client
<1>3. CASE UNCHANGED ring
  BY <1>2, <1>3, ChannelStutters
<1>4. chunk \in Nat
  BY CurlSizesAssumption DEF Inductive, TypeOK
<1>5. CASE WorkerReceive /\ ~UNCHANGED ring
  <2>1. ~abandoned /\ RingAppend(chunk) /\ chunk <= Length - sent
    BY <1>5 DEF WorkerReceive, Inductive, Sizes, InCallback
  <2> QED BY <1>1, <1>2, <1>4, <2>1, AppendProduces
<1>6. CASE WorkerSend /\ ~UNCHANGED ring
  <2>1. ~abandoned /\ RingTake(chunk)
    BY <1>6 DEF WorkerSend
  <2> QED BY <1>1, <1>2, <1>4, <2>1, TakeConsumes
<1> QED BY <1>3, <1>5, <1>6

\* The user exchanges bytes only with an open transfer.
LEMMA UserChannel ==
  ASSUME SessionInv, SessionInv', ReadSome \/ WriteSome
  PROVE  [Channel!Next]_Channel!vars
<1> USE DEF SessionInv
<1>1. UNCHANGED <<succeeded, abandoned, failure>>
  BY DEF ReadSome, WriteSome, flags, client
<1>2. rest \in Nat
  BY CallSizesAssumption DEF Inductive, TypeOK
<1>3. ~failure /\ ~abandoned
  BY DEF ReadSome, WriteSome, MayGoOn, RequireAvailable
<1>4. CASE ReadSome
  <2>1. ~succeeded
    BY <1>4 DEF ReadSome, InputEnds, Inductive, TypeOK
  <2> QED BY <1>1, <1>2, <1>3, <1>4, <2>1, TakeConsumes DEF ReadSome, Outcome
<1>5. CASE WriteSome
  <2> DEFINE n == Least(rest, Capacity - count)
  <2>1. ~succeeded
    BY <1>5 DEF WriteSome, WriterClosed, Ends
  <2>2. rest <= Length - sent /\ count < Capacity /\ RingAppend(n)
    BY <1>5 DEF WriteSome, Inductive, Sizes
  <2>3. Capacity - count \in Nat /\ sent \in Nat
    BY <2>2, CapacityAssumption DEF Inductive, TypeOK
  <2>4. n \in Nat /\ n <= rest
    BY <1>2, <2>3 DEF Least
  <2> HIDE DEF n
  <2>5. n <= Length - sent
    BY <1>2, <2>2, <2>3, <2>4, LengthAssumption
  <2> QED BY <1>1, <1>3, <2>1, <2>2, <2>4, <2>5, AppendProduces DEF Outcome
<1> QED BY <1>4, <1>5

\* The outcome changes once, from open, and a transfer that succeeds is consumed.
LEMMA OutcomeChannel ==
  ASSUME SessionInv, CallSucceeds \/ AbandonMark \/ RunFinishes
  PROVE  [Channel!Next]_Channel!vars
<1> USE DEF SessionInv, abandonKeeps
<1>1. CASE CallSucceeds
  <2>1. UNCHANGED ring /\ UNCHANGED <<abandoned, failure>> /\ succeeded' = TRUE
    BY <1>1 DEF CallSucceeds, flags
  <2>2. ~abandoned /\ ~failure
    BY <1>1 DEF CallSucceeds, MayGoOn, RequireAvailable
  <2>3. count = 0
    BY <1>1, <2>2 DEF CallSucceeds, Ends, InputEnds
  <2>4. Len(delivered) = sent
    BY <2>3 DEF Inductive, RingHolds, TypeOK
  <2> QED BY <2>1, <2>2, <2>4 DEF Channel!Next, Channel!Complete, Channel!vars, ring
<1>2. CASE AbandonMark
  <2>1. UNCHANGED ring /\ UNCHANGED <<succeeded, failure>>
    BY <1>2 DEF AbandonMark
  <2>2. UNCHANGED abandoned \/ (abandoned' = TRUE /\ ~acknowledged)
    BY <1>2 DEF AbandonMark
  <2>3. ~acknowledged => ~succeeded
    BY DEF Ends
  <2> QED BY <2>1, <2>2, <2>3 DEF Channel!Next, Channel!Break, Channel!vars, ring
<1>3. CASE RunFinishes
  <2>1. UNCHANGED ring /\ UNCHANGED <<succeeded, abandoned>> /\ ~failure /\ ~succeeded
    BY <1>3 DEF RunFinishes, Ends
  <2>2. failure' \in BOOLEAN
    BY <1>3 DEF RunFinishes
  <2> QED BY <2>1, <2>2 DEF Channel!Next, Channel!Break, Channel!vars, ring
<1> QED BY <1>1, <1>2, <1>3

\* What the channel sees of a step.
ChannelSteps == Rings \/ CallSucceeds \/ AbandonMark \/ RunFinishes

\* Every step is a step of the channel, or nothing.
LEMMA StepRefines == SessionInv /\ SessionInv' /\ [Next]_vars => [Channel!Next]_Channel!vars
<1> SUFFICES ASSUME SessionInv, SessionInv', [Next]_vars
             PROVE  [Channel!Next]_Channel!vars
  OBVIOUS
<1>1. CASE ChannelSteps
  BY <1>1, WorkerChannel, UserChannel, OutcomeChannel DEF ChannelSteps, Rings
<1>2. CASE Next /\ ~ChannelSteps
  <2>1. UNCHANGED ring
    BY <1>2, OthersStand DEF ChannelSteps
  <2> USE DEF flags, client, quiet, others, stopKeeps, abandonKeeps, ChannelSteps, Rings
  <2>2. CASE WorkerStep \/ Network
    BY <1>2, <2>1, <2>2, ChannelStutters DEF WorkerStep, Network, WorkerBegin, WorkerExit,
       CurlAbort, WorkerObserve, WorkerCheck, WorkerSignal, WorkerSleep, WorkerEnd,
       CurlCallback, CurlReturn
  <2>3. CASE UserChoice
    BY <1>2, <2>1, <2>3, ChannelStutters DEF UserChoice, Open, BeginCall, Destroy,
       RequestCancel, NextBegins, StopBegins
  <2>4. CASE UserRuns
    BY <1>2, <2>1, <2>4, ChannelStutters DEF UserRuns, BeginClose, CallThrows, CallWaits,
       CallReturns, Resume, CloseReaderReturnsToUser
  <2>5. CASE AbandonRuns \/ StopRuns
    BY <1>2, <2>1, <2>5, ChannelStutters DEF AbandonRuns, AbandonCancel, AbandonWake,
       AbandonSettle, StopRuns, StopConfirmation, StopRequest, StopWake
  <2>6. CASE Resumed \/ Finished
    BY <1>2, <2>1, <2>6, ChannelStutters DEF Resumed, CallContinues, NextFinishes,
       StopReturns, Finished, vars
  <2> QED BY <1>2, <2>2, <2>3, <2>4, <2>5, <2>6 DEF Next
<1>3. CASE UNCHANGED vars
  BY <1>3, ChannelStutters DEF vars, flags, client
<1> QED BY <1>1, <1>2, <1>3

\* RemoteFileReader and RemoteFileWriter over FTP implement the channel they promise:
\* the bytes arrive in order, the transfer is complete only when everything that was
\* produced has been consumed, and nothing crosses after it was abandoned or failed.
THEOREM ImplementsChannel == Spec => IsChannel
<1>1. Init => Channel!Init
  BY DEF Init, Channel!Init
<1>2. SessionInv /\ SessionInv' /\ [Next]_vars => [Channel!Next]_Channel!vars
  BY StepRefines
<1> QED BY <1>1, <1>2, SessionInvariant, PTL DEF Spec, IsChannel, Channel!Spec
=============================================================================
