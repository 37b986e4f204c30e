------------------------- MODULE SshTransportProofs -------------------------
(***************************************************************************)
(* Proofs about SshTransport, for any channels, loads, window and room: who *)
(* waits for the worker and what a call may return him, that nobody sleeps  *)
(* on a packet another channel's call took, that both directions carry each *)
(* byte once and in order, and how the worker ends.                         *)
(***************************************************************************)
EXTENDS SshTransport, TLAPS, WellFoundedInduction

Queued(w) == \E i \in DOMAIN queue : queue[i] = w

Once == \A i, j \in DOMAIN queue : queue[i] = queue[j] /\ queue[i] \in Ops => i = j

\* Commands and callers: the queue holds operations that wait for the worker,
\* each once, and so does its hand.
Turns ==
    /\ worker # "retire" => running = {}
    /\ worker = "retire" => \E w \in Ops : running = {w} /\ pc[w] = "queued" /\ ~Queued(w)
    /\ \A w \in Ops : Queued(w) => pc[w] = "queued"
    /\ Once

\* The transport outlives whoever shares it.
Shared ==
    /\ stopping => Owners = {}
    /\ worker = "ended" => /\ stopping /\ queue = <<>>
                           /\ \A c \in Channels : libssh[c].state # "listed"

\* What each call returns, and when its result is there.
KindOK(call, kind) ==
    /\ call = "alloc" => kind \in {"none", "ok"}
    /\ call = "request" => kind \in {"none", "ok", "again", "failed"}
    /\ call = "read" => kind \in {"none", "data", "eof", "again"}
    /\ call = "write" => kind \in {"none", "wrote", "again", "failed"}
    /\ call = "flush" => kind \in {"none", "ok", "again", "failed"}
Returned(w) ==
    /\ w[2] = "in" => stage[w] \in {"alloc", "request", "read"}
    /\ w[2] = "out" => stage[w] \in {"write", "flush"}
    /\ KindOK(stage[w], result[w].kind)
    /\ result[w].kind = "none" => result[w] = Nothing
    /\ result[w].kind # "data" => result[w].bytes = <<>>
    /\ result[w].kind \notin {"wrote", "failed"} => result[w].count = 0
    /\ pc[w] = "queued" /\ w \notin running => result[w].kind = "none"
    /\ pc[w] = "ready" \/ w \in running => result[w].kind # "none"
    /\ pc[w] = "waiting" => result[w].kind = "again"

\* The connection of a channel and what libssh keeps of it.
Life(c) ==
    LET r == Reader(c)  w == Writer(c) IN
    /\ conn[c] = "new" => /\ pc[r] = "idle" /\ pc[w] = "idle" /\ libssh[c].state = "none"
                          /\ result[w].kind = "none"
    /\ conn[c] = "opening" => /\ pc[r] # "idle" /\ stage[r] \in {"alloc", "request"}
                              /\ pc[w] = "idle" /\ result[w].kind = "none"
                              /\ libssh[c].state = IF stage[r] = "alloc" /\ result[r].kind = "none"
                                                   THEN "none" ELSE "listed"
    /\ conn[c] = "open" => libssh[c].state = "listed" /\ (pc[r] # "idle" => stage[r] = "read")
    /\ conn[c] = "closed" => pc[r] = "idle" /\ pc[w] = "idle"
    /\ Queued(<<c, "close">>) \/ libssh[c].state = "freed" => conn[c] = "closed"
    /\ libssh[c].asked => libssh[c].state # "none"
    /\ server[c].replied => libssh[c].asked
    /\ server[c].sent > 0 => server[c].replied

\* An attempt that was told to come again hears of what it waits for.
Hearing(w) ==
    pc[w] # "idle" /\ result[w].kind = "again" /\ Answered(w) =>
        wake[w] \/ SocketReady(w) \/ (progress /\ worker \in {"retire", "notify"})
Hears == \A w \in Ops : Hearing(w)

\* What a writer counts, what its last call adds, and what libssh has accepted.
Owed(c) == IF pc[Writer(c)] = "idle" THEN 0 ELSE result[Writer(c)].count
Unsent(c) == \E i \in DOMAIN output : output[i] = c
Counted(c) ==
    LET w == Writer(c) IN
    /\ offset[c] + Owed(c) <= Payload[c]
    /\ pc[w] = "idle" /\ result[w].kind = "none" => offset[c] = 0
    /\ pc[w] # "idle" /\ stage[w] = "write" => offset[c] < Payload[c]
    /\ pc[w] # "idle" /\ stage[w] = "flush" => offset[c] = Payload[c]
    /\ ~cancelled[w] /\ result[w].kind # "failed" => libssh[c].accepted = offset[c] + Owed(c)
    /\ result[w].kind = "ok" \/ (result[w].kind = "wrote" /\ ~result[w].polls) => ~Unsent(c)
    /\ ~cancelled[w] /\ pc[w] = "idle" /\ result[w].kind \in {"wrote", "ok"} =>
          offset[c] = Payload[c] /\ ~Unsent(c)

\* The bytes of a channel, from the server to its reader.
Held(c) == IF pc[Reader(c)] = "idle" THEN <<>> ELSE result[Reader(c)].bytes
DataAt(c, i) == incoming[i][1] = "data" /\ incoming[i][2] = c

\* Behind the first m packets, a buffer that ends with byte b is followed by
\* every later byte in order.
Follows(c, m, b) ==
    /\ b <= server[c].sent
    /\ \A i \in DOMAIN incoming : i > m /\ DataAt(c, i) => incoming[i][3] \in b + 1 .. server[c].sent
    /\ \A i, j \in DOMAIN incoming :
          m < i /\ i < j /\ DataAt(c, i) /\ DataAt(c, j) => incoming[i][3] < incoming[j][3]
    /\ \A k \in b + 1 .. server[c].sent :
          \E i \in DOMAIN incoming : i > m /\ DataAt(c, i) /\ incoming[i][3] = k
Eofs(c) == \A i \in DOMAIN incoming :
             incoming[i] = <<"eof", c>> =>
               server[c].eof /\ \A j \in DOMAIN incoming : j > i => ~DataAt(c, j)
EndsAfter(c, m, end) == end => server[c].eof /\ \A i \in DOMAIN incoming : i > m => ~DataAt(c, i)

Numbered(s, b) == \A i \in DOMAIN s : s[i] = b + i
Stream(c) ==
    LET l == libssh[c]  g == Len(got[c])  h == Len(Held(c)) IN
    /\ Numbered(got[c], 0)
    /\ result[Reader(c)].kind = "eof" /\ connected => g = Sends[c]
    /\ server[c].eof => server[c].sent = Sends[c]
    /\ l.state # "freed" =>
          /\ Numbered(Held(c), g) /\ Numbered(l.buffer, g + h)
          /\ Follows(c, 0, g + h + Len(l.buffer))
          /\ EndsAfter(c, 0, l.eof)
          /\ Eofs(c)
    /\ l.state = "none" => g = 0

Lives == \A c \in Channels : Life(c)
Returns == \A w \in Ops : Returned(w)
Counts == \A c \in Channels : Counted(c)
Streams == ~Interrupts => (\A w \in Ops : ~cancelled[w]) /\ \A c \in Channels : Stream(c)

-----------------------------------------------------------------------------
(* Induction over the packets of one call.                                  *)

Before == {p \in Nat \X Nat : p[1] < p[2]}

\* A set of numbers that holds 0 and every successor of its members holds all.
LEMMA Induction ==
  ASSUME NEW S, 0 \in S, \A n \in Nat : n \in S => n + 1 \in S
  PROVE  \A n \in Nat : n \in S
<1> DEFINE T == {n \in Nat : n \notin S}
<1>1. IsWellFoundedOn(Before, Nat)
  <2>1. Before = OpToRel(<, Nat)
    BY DEF OpToRel, Before
  <2>2. QED
    BY <2>1, NatLessThanWellFounded
<1>2. SUFFICES ASSUME T # {} PROVE FALSE
  OBVIOUS
<1>3. \E x \in T : \A y \in T : ~(<<y, x>> \in Before)
  <2>1. T \subseteq Nat
    OBVIOUS
  <2> HIDE DEF T
  <2>2. QED
    BY <1>1, <1>2, <2>1, WFMin
<1>4. PICK x \in T : \A y \in T : ~(<<y, x>> \in Before)
  BY <1>3
<1>5. x \in Nat /\ x \notin S
  OBVIOUS
<1>6. x # 0 /\ x - 1 \in Nat
  BY <1>5
<1>7. x - 1 \notin S
  BY <1>5, <1>6
<1>8. <<x - 1, x>> \in Before
  BY <1>5, <1>6 DEF Before
<1>9. QED
  BY <1>4, <1>6, <1>7, <1>8

\* The first n packets have one outcome: After satisfies its own equation.
LEMMA AfterIsDefined ==
  ASSUME incoming \in Seq(Packets \cup {<<"hangup">>})
  PROVE  After = [n \in 0 .. Len(incoming) |->
                    IF n = 0 THEN libssh ELSE Handled(After[n - 1], incoming[n])]
<1> DEFINE Def(f, n) == IF n = 0 THEN libssh ELSE Handled(f[n - 1], incoming[n])
<1> DEFINE S == {n \in Nat : \E f : f = [i \in 0 .. n |-> Def(f, i)]}
<1>1. 0 \in S
  <2>1. [i \in 0 .. 0 |-> libssh] = [i \in 0 .. 0 |-> Def([k \in 0 .. 0 |-> libssh], i)]
    OBVIOUS
  <2>2. QED
    BY <2>1
<1>2. ASSUME NEW n \in Nat, n \in S PROVE n + 1 \in S
  <2>1. PICK f : f = [i \in 0 .. n |-> Def(f, i)]
    BY <1>2
  <2> DEFINE g == [i \in 0 .. n + 1 |-> IF i <= n THEN f[i] ELSE Handled(f[n], incoming[n + 1])]
  <2>2. ASSUME NEW i \in 0 .. n + 1 PROVE g[i] = Def(g, i)
    <3>1. CASE i = 0
      BY <2>1, <3>1
    <3>2. CASE i # 0 /\ i <= n
      <4>1. f[i] = Handled(f[i - 1], incoming[i])
        BY <2>1, <3>2
      <4>2. i - 1 \in 0 .. n + 1 /\ i - 1 <= n
        BY <3>2
      <4>3. g[i - 1] = f[i - 1] /\ g[i] = f[i]
        BY <3>2, <4>2
      <4>4. QED
        BY <3>2, <4>1, <4>3
    <3>3. CASE i = n + 1
      <4>1. g[i - 1] = f[n] /\ g[i] = Handled(f[n], incoming[n + 1])
        BY <3>3
      <4>2. QED
        BY <3>3, <4>1
    <3>4. QED
      BY <3>1, <3>2, <3>3
  <2>3. g = [i \in 0 .. n + 1 |-> Def(g, i)]
    <3> DEFINE h == [i \in 0 .. n + 1 |-> Def(g, i)]
    <3>1. DOMAIN g = 0 .. n + 1 /\ DOMAIN h = 0 .. n + 1
      OBVIOUS
    <3>2. \A i \in 0 .. n + 1 : g[i] = h[i]
      BY <2>2
    <3> HIDE DEF Def
    <3>3. QED
      BY <3>1, <3>2
  <2>4. \E h : h = [i \in 0 .. n + 1 |-> Def(h, i)]
    <3> HIDE DEF g, Def
    <3>1. QED
      BY <2>3
  <2>5. n + 1 \in Nat
    OBVIOUS
  <2> HIDE DEF Def
  <2>6. QED
    BY <2>4, <2>5
<1>3. \A n \in Nat : n \in S
  <2> HIDE DEF S
  <2>1. QED
    BY <1>1, <1>2, Induction
<1>4. Len(incoming) \in S
  BY <1>3
<1>5. PICK f : f = [i \in 0 .. Len(incoming) |-> Def(f, i)]
  BY <1>4
<1>6. QED
  BY <1>5 DEF After

\* No packet leaves libssh as it is, and each is handled behind the ones before it.
LEMMA AfterSteps ==
  ASSUME incoming \in Seq(Packets \cup {<<"hangup">>})
  PROVE  /\ After[0] = libssh
         /\ \A n \in 0 .. Len(incoming) - 1 : After[n + 1] = Handled(After[n], incoming[n + 1])
<1>1. Len(incoming) \in Nat
  OBVIOUS
<1>2. \A n \in 0 .. Len(incoming) :
        After[n] = IF n = 0 THEN libssh ELSE Handled(After[n - 1], incoming[n])
  BY AfterIsDefined
<1>3. After[0] = libssh
  BY <1>1, <1>2
<1>4. ASSUME NEW n \in 0 .. Len(incoming) - 1
      PROVE  After[n + 1] = Handled(After[n], incoming[n + 1])
  <2>1. n + 1 \in 0 .. Len(incoming) /\ n + 1 # 0 /\ (n + 1) - 1 = n
    BY <1>1
  <2>2. QED
    BY <1>2, <2>1
<1>5. QED
  BY <1>3, <1>4

-----------------------------------------------------------------------------
(* What a packet, and then a run of packets, does to the channels.          *)

LibChannel == [state : {"none", "listed", "freed"}, asked : BOOLEAN, opened : BOOLEAN,
               eof : BOOLEAN, buffer : Seq(Bytes), window : Nat, accepted : Nat]
Lib == [Channels -> LibChannel]
Packet == Packets \cup {<<"hangup">>}

\* A packet changes what the server tells, never what the client has asked.
Keeps(l, k) == \A c \in Channels : /\ k[c].state = l[c].state /\ k[c].asked = l[c].asked
                                   /\ k[c].accepted = l[c].accepted

\* A packet is one of five.
LEMMA PacketCases ==
  ASSUME NEW p \in Packet
  PROVE  \/ p = <<"hangup">>
         \/ \E c \in Channels : p = <<"reply", c>> \/ p = <<"eof", c>> \/ p = <<"adjust", c>>
         \/ \E c \in Channels, b \in Bytes : p = <<"data", c, b>>
BY DEF Packet, Packets

\* What a packet tells: it changes a channel that libssh knows, and no other.
Told(l, p, k) ==
  /\ k \in Lib /\ Keeps(l, k)
  /\ \A c \in Channels :
       \/ /\ k[c].eof = l[c].eof /\ k[c].buffer = l[c].buffer
          /\ p[1] = "data" /\ p[2] = c => l[c].state # "listed"
       \/ p = <<"eof", c>> /\ k[c].eof = TRUE /\ k[c].buffer = l[c].buffer
       \/ /\ p[1] = "data" /\ p[2] = c /\ k[c].eof = l[c].eof
          /\ k[c].buffer = Append(l[c].buffer, p[3])

\* A packet is handled by the channel it names.
LEMMA HandledTells ==
  ASSUME NEW l \in Lib, NEW p \in Packet
  PROVE  Told(l, p, Handled(l, p))
<1>1. Window \in Nat
  BY SshAssumption
<1>2. CASE p = <<"hangup">>
  <2>1. p[1] # "data" /\ Handled(l, p) = l
    BY <1>2 DEF Handled
  <2>2. QED
    BY <2>1 DEF Told, Keeps
<1>3. ASSUME NEW c \in Channels, p[2] = c, l[c].state # "listed"
      PROVE  Told(l, p, Handled(l, p))
  <2>1. Handled(l, p) = l
    BY <1>3 DEF Handled
  <2>2. QED
    BY <1>3, <2>1 DEF Told, Keeps
<1>4. ASSUME NEW c \in Channels, l[c].state = "listed", p = <<"reply", c>>
      PROVE  Told(l, p, Handled(l, p))
  <2> DEFINE r == [l[c] EXCEPT !.opened = TRUE]
  <2>1. l[c] \in LibChannel
    BY DEF Lib
  <2>2. Handled(l, p) = [l EXCEPT ![c] = r]
    BY <1>4 DEF Handled
  <2>3. p[1] # "data"
    BY <1>4
  <2>4. r \in LibChannel /\ r.state = l[c].state /\ r.asked = l[c].asked
        /\ r.accepted = l[c].accepted /\ r.eof = l[c].eof /\ r.buffer = l[c].buffer
    BY <2>1, <2>3 DEF LibChannel
  <2> HIDE DEF r
  <2>5. /\ Handled(l, p) \in Lib /\ Handled(l, p)[c] = r
        /\ \A d \in Channels : d # c => Handled(l, p)[d] = l[d]
    BY <2>2, <2>4 DEF Lib
  <2>6. Keeps(l, Handled(l, p))
    BY <2>4, <2>5 DEF Keeps
  <2>7. \A d \in Channels : d # c => p[2] # d
    BY <1>4
  <2>8. QED
    BY <1>4, <2>3, <2>4, <2>5, <2>6, <2>7 DEF Told
<1>5. ASSUME NEW c \in Channels, l[c].state = "listed", p = <<"adjust", c>>
      PROVE  Told(l, p, Handled(l, p))
  <2> DEFINE r == [l[c] EXCEPT !.window = @ + Window]
  <2>1. l[c] \in LibChannel
    BY DEF Lib
  <2>2. Handled(l, p) = [l EXCEPT ![c] = r]
    BY <1>5 DEF Handled, Adjusted
  <2>3. p[1] # "data"
    BY <1>5
  <2>4. r \in LibChannel /\ r.state = l[c].state /\ r.asked = l[c].asked
        /\ r.accepted = l[c].accepted /\ r.eof = l[c].eof /\ r.buffer = l[c].buffer
    BY <1>1, <2>1, <2>3 DEF LibChannel
  <2> HIDE DEF r
  <2>5. /\ Handled(l, p) \in Lib /\ Handled(l, p)[c] = r
        /\ \A d \in Channels : d # c => Handled(l, p)[d] = l[d]
    BY <2>2, <2>4 DEF Lib
  <2>6. Keeps(l, Handled(l, p))
    BY <2>4, <2>5 DEF Keeps
  <2>7. \A d \in Channels : d # c => p[2] # d
    BY <1>5
  <2>8. QED
    BY <1>5, <2>3, <2>4, <2>5, <2>6, <2>7 DEF Told
<1>6. ASSUME NEW c \in Channels, l[c].state = "listed", p = <<"eof", c>>
      PROVE  Told(l, p, Handled(l, p))
  <2> DEFINE r == [l[c] EXCEPT !.eof = TRUE]
  <2>1. l[c] \in LibChannel
    BY DEF Lib
  <2>2. Handled(l, p) = [l EXCEPT ![c] = r]
    BY <1>6 DEF Handled
  <2>3. p[1] # "data"
    BY <1>6
  <2>4. r \in LibChannel /\ r.state = l[c].state /\ r.asked = l[c].asked
        /\ r.accepted = l[c].accepted /\ r.eof = TRUE /\ r.buffer = l[c].buffer
    BY <2>1, <2>3 DEF LibChannel
  <2> HIDE DEF r
  <2>5. /\ Handled(l, p) \in Lib /\ Handled(l, p)[c] = r
        /\ \A d \in Channels : d # c => Handled(l, p)[d] = l[d]
    BY <2>2, <2>4 DEF Lib
  <2>6. Keeps(l, Handled(l, p))
    BY <2>4, <2>5 DEF Keeps
  <2>7. \A d \in Channels : d # c => p[2] # d
    BY <1>6
  <2>8. QED
    BY <1>6, <2>3, <2>4, <2>5, <2>6, <2>7 DEF Told
<1>7. ASSUME NEW c \in Channels, NEW b \in Bytes, l[c].state = "listed", p = <<"data", c, b>>
      PROVE  Told(l, p, Handled(l, p))
  <2> DEFINE r == [l[c] EXCEPT !.buffer = Append(@, b)]
  <2>1. l[c] \in LibChannel
    BY DEF Lib
  <2>2. Handled(l, p) = [l EXCEPT ![c] = r]
    BY <1>7 DEF Handled
  <2>3. Append(l[c].buffer, b) \in Seq(Bytes)
    BY <2>1 DEF LibChannel
  <2>4. r \in LibChannel /\ r.state = l[c].state /\ r.asked = l[c].asked
        /\ r.accepted = l[c].accepted /\ r.eof = l[c].eof /\ r.buffer = Append(l[c].buffer, b)
    BY <2>1, <2>3 DEF LibChannel
  <2> HIDE DEF r
  <2>5. /\ Handled(l, p) \in Lib /\ Handled(l, p)[c] = r
        /\ \A d \in Channels : d # c => Handled(l, p)[d] = l[d]
    BY <2>2, <2>4 DEF Lib
  <2>6. Keeps(l, Handled(l, p))
    BY <2>4, <2>5 DEF Keeps
  <2>7. \A d \in Channels : d # c => p[2] # d
    BY <1>7
  <2>8. QED
    BY <1>7, <2>3, <2>4, <2>5, <2>6, <2>7 DEF Told
<1>8. ASSUME NEW c \in Channels, p = <<"reply", c>> \/ p = <<"eof", c>> \/ p = <<"adjust", c>>
      PROVE  Told(l, p, Handled(l, p))
  <2>1. p[2] = c
    BY <1>8
  <2>2. QED
    BY <1>3, <1>4, <1>5, <1>6, <1>8, <2>1
<1>9. ASSUME NEW c \in Channels, NEW b \in Bytes, p = <<"data", c, b>>
      PROVE  Told(l, p, Handled(l, p))
  <2>1. p[2] = c
    BY <1>9
  <2>2. QED
    BY <1>3, <1>7, <1>9, <2>1
<1>10. QED
  BY <1>2, <1>8, <1>9, PacketCases

\* What is known of one channel behind the first m packets, when everything up to
\* byte b has left its buffer.
StreamAt(c, m, b, l) ==
  /\ Numbered(l[c].buffer, b)
  /\ Follows(c, m, b + Len(l[c].buffer))
  /\ EndsAfter(c, m, l[c].eof)

\* The next byte in order keeps a sequence numbered.
LEMMA NumberedAppend ==
  ASSUME NEW s \in Seq(Bytes), NEW b \in Nat, Numbered(s, b), NEW x, x = b + Len(s) + 1
  PROVE  Numbered(Append(s, x), b) /\ Len(Append(s, x)) = Len(s) + 1
<1>1. Len(s) \in Nat /\ DOMAIN s = 1 .. Len(s) /\ x \in Nat /\ s \in Seq(Nat)
  BY DEF Bytes
<1>2. Append(s, x) \in Seq(Nat) /\ Len(Append(s, x)) = Len(s) + 1
  BY <1>1
<1>3. ASSUME NEW i \in 1 .. Len(s) + 1 PROVE Append(s, x)[i] = b + i
  <2>1. CASE i = Len(s) + 1
    BY <1>1, <2>1
  <2>2. CASE i \in 1 .. Len(s)
    BY <1>1, <2>2 DEF Numbered
  <2>3. QED
    BY <1>1, <2>1, <2>2
<1>4. QED
  BY <1>2, <1>3 DEF Numbered

\* Numbers above a boundary.
LEMMA AboveBoundary ==
  ASSUME NEW n \in Nat, NEW s \in Nat, NEW x \in n + 1 .. s
  PROVE  /\ x \in Nat /\ ~(x < n + 1) /\ n + 1 \in n + 1 .. s
         /\ n + 1 < x => x \in n + 2 .. s
OBVIOUS

\* A sequence of elements of a set and one more of them.
LEMMA AppendIn ==
  ASSUME NEW S, NEW s \in Seq(S), NEW x \in S
  PROVE  Append(s, x) \in Seq(S)
OBVIOUS

\* A packet moves the boundary between what libssh holds and what follows.
LEMMA HandledStream ==
  ASSUME incoming \in Seq(Packet), NEW c \in Channels, server[c].sent \in Nat,
         server[c].eof \in BOOLEAN,
         NEW l \in Lib, NEW b \in Nat, NEW m \in 0 .. Len(incoming) - 1,
         StreamAt(c, m, b, l),
         \A i \in DOMAIN incoming : DataAt(c, i) => l[c].state = "listed",
         Eofs(c)
  PROVE  StreamAt(c, m + 1, b, Handled(l, incoming[m + 1]))
<1> DEFINE p == incoming[m + 1]
           k == Handled(l, p)
<1>1. m + 1 \in DOMAIN incoming /\ p \in Packet /\ Len(incoming) \in Nat /\ m \in Nat
  OBVIOUS
<1>2. k \in Lib
  BY <1>1, HandledTells DEF Told
<1>3. l[c].buffer \in Seq(Bytes)
  BY DEF Lib, LibChannel
<1>4. CASE DataAt(c, m + 1)
  <2> DEFINE n == b + Len(l[c].buffer)
  <2>1. p[1] = "data" /\ p[2] = c /\ l[c].state = "listed" /\ p # <<"hangup">>
    BY <1>1, <1>4 DEF DataAt
  <2>2. n \in Nat /\ n = b + Len(l[c].buffer) /\ Len(l[c].buffer) \in Nat
    BY <1>3
  <2> HIDE DEF n
  <2>3. p[3] = n + 1
    <3>1. p[3] \in n + 1 .. server[c].sent
      BY <1>1, <1>4, <2>2 DEF StreamAt, Follows
    <3>2. n + 1 \in n + 1 .. server[c].sent
      BY <2>2, <3>1, AboveBoundary
    <3>3. PICK i \in DOMAIN incoming : i > m /\ DataAt(c, i) /\ incoming[i][3] = n + 1
      BY <2>2, <3>2 DEF StreamAt, Follows
    <3>4. i > m + 1 => p[3] < incoming[i][3]
      BY <1>1, <1>4, <2>2, <3>3 DEF StreamAt, Follows
    <3>5. i = m + 1
      <4>1. ~(p[3] < n + 1)
        BY <2>2, <3>1, AboveBoundary
      <4>2. ~(i > m + 1)
        BY <3>3, <3>4, <4>1
      <4>3. QED
        BY <1>1, <3>3, <4>2
    <3>6. QED
      BY <3>3, <3>5
  <2>4. Told(l, p, k)
    BY <1>1, HandledTells
  <2>5. k[c].buffer = Append(l[c].buffer, n + 1) /\ k[c].eof = l[c].eof
    <3>1. p # <<"eof", c>>
      BY <2>1
    <3>2. QED
      BY <2>1, <2>3, <2>4, <3>1 DEF Told
  <2>6. Numbered(k[c].buffer, b)
    BY <1>3, <2>2, <2>5, NumberedAppend DEF StreamAt
  <2>7. b + Len(k[c].buffer) = n + 1
    <3>1. Len(k[c].buffer) = Len(l[c].buffer) + 1
      BY <1>3, <2>2, <2>5, NumberedAppend DEF StreamAt
    <3>2. QED
      BY <2>2, <3>1
  <2>8. Follows(c, m + 1, n + 1)
    <3>1. n + 1 <= server[c].sent
      BY <1>1, <1>4, <2>2, <2>3 DEF StreamAt, Follows
    <3>2. ASSUME NEW i \in DOMAIN incoming, i > m + 1, DataAt(c, i)
          PROVE  incoming[i][3] \in n + 2 .. server[c].sent
      <4>1. incoming[i][3] \in n + 1 .. server[c].sent
        BY <1>1, <2>2, <3>2 DEF StreamAt, Follows
      <4>2. n + 1 < incoming[i][3]
        BY <1>1, <1>4, <2>2, <2>3, <3>2 DEF StreamAt, Follows
      <4>3. incoming[i][3] \in Nat
        BY <2>2, <4>1, AboveBoundary
      <4>4. QED
        BY <2>2, <4>1, <4>2, AboveBoundary
    <3>3. ASSUME NEW i \in DOMAIN incoming, NEW j \in DOMAIN incoming,
                 m + 1 < i, i < j, DataAt(c, i), DataAt(c, j)
          PROVE  incoming[i][3] < incoming[j][3]
      BY <1>1, <2>2, <3>3 DEF StreamAt, Follows
    <3>4. ASSUME NEW x \in n + 2 .. server[c].sent
          PROVE  \E i \in DOMAIN incoming : i > m + 1 /\ DataAt(c, i) /\ incoming[i][3] = x
      <4>1. x \in n + 1 .. server[c].sent /\ x # n + 1
        BY <2>2
      <4>2. PICK i \in DOMAIN incoming : i > m /\ DataAt(c, i) /\ incoming[i][3] = x
        BY <2>2, <4>1 DEF StreamAt, Follows
      <4>3. i # m + 1
        BY <2>3, <4>1, <4>2
      <4>4. QED
        BY <1>1, <4>2, <4>3
    <3>5. (n + 1) + 1 = n + 2
      BY <2>2
    <3>6. QED
      BY <3>1, <3>2, <3>3, <3>4, <3>5 DEF Follows
  <2>9. EndsAfter(c, m + 1, k[c].eof)
    BY <1>1, <2>5 DEF StreamAt, EndsAfter
  <2>10. QED
    BY <2>6, <2>7, <2>8, <2>9 DEF StreamAt
<1>5. CASE ~DataAt(c, m + 1)
  <2>1. k[c].buffer = l[c].buffer /\ (k[c].eof = l[c].eof \/ p = <<"eof", c>>)
    <3>1. Told(l, p, k)
      BY <1>1, HandledTells
    <3>2. ~(p[1] = "data" /\ p[2] = c)
      BY <1>5 DEF DataAt
    <3>3. QED
      BY <3>1, <3>2 DEF Told
  <2>2. Numbered(k[c].buffer, b)
    BY <2>1 DEF StreamAt
  <2>3. ASSUME NEW n \in Nat, Follows(c, m, n) PROVE Follows(c, m + 1, n)
    <3>1. \A i \in DOMAIN incoming : i > m /\ DataAt(c, i) => i > m + 1
      BY <1>1, <1>5
    <3>2. \A i \in DOMAIN incoming : i > m + 1 => i > m
      BY <1>1
    <3>3. \A i \in DOMAIN incoming : m + 1 < i => m < i
      BY <1>1
    <3>4. QED
      BY <2>3, <3>1, <3>2, <3>3 DEF Follows
  <2>4. Follows(c, m + 1, b + Len(k[c].buffer))
    BY <1>3, <2>1, <2>3 DEF StreamAt
  <2>5. EndsAfter(c, m + 1, k[c].eof)
    <3>1. CASE p = <<"eof", c>>
      BY <1>1, <3>1 DEF EndsAfter, Eofs
    <3>2. CASE k[c].eof = l[c].eof
      BY <1>1, <3>2 DEF StreamAt, EndsAfter
    <3>3. QED
      BY <2>1, <3>1, <3>2
  <2>6. QED
    BY <2>2, <2>4, <2>5 DEF StreamAt
<1>6. QED
  BY <1>4, <1>5

\* Any run of packets leaves the channels typed, and what the client has asked.
LEMMA AfterKeeps ==
  ASSUME incoming \in Seq(Packet), libssh \in Lib, NEW n \in 0 .. Len(incoming)
  PROVE  After[n] \in Lib /\ Keeps(libssh, After[n])
<1> DEFINE Good(i) == After[i] \in Lib /\ Keeps(libssh, After[i])
           S == {i \in Nat : i <= Len(incoming) => Good(i)}
<1>1. /\ After[0] = libssh
      /\ \A i \in 0 .. Len(incoming) - 1 : After[i + 1] = Handled(After[i], incoming[i + 1])
  BY AfterSteps DEF Packet
<1>2. 0 \in S
  BY <1>1 DEF Keeps
<1>3. ASSUME NEW i \in Nat, i \in S PROVE i + 1 \in S
  <2>1. CASE i + 1 <= Len(incoming)
    <3>1. i \in 0 .. Len(incoming) - 1 /\ incoming[i + 1] \in Packet
      BY <2>1
    <3>2. After[i] \in Lib /\ Keeps(libssh, After[i])
      BY <1>3, <3>1
    <3>3. Told(After[i], incoming[i + 1], After[i + 1])
      BY <1>1, <3>1, <3>2, HandledTells
    <3>4. Good(i + 1)
      BY <3>2, <3>3 DEF Told, Keeps
    <3>5. QED
      BY <3>4
  <2>2. QED
    BY <2>1
<1>4. \A i \in Nat : i \in S
  <2> HIDE DEF S
  <2>1. QED
    BY <1>2, <1>3, Induction
<1>5. n \in S /\ n <= Len(incoming)
  BY <1>4
<1>6. QED
  BY <1>5

\* Any run of packets only moves the boundary.
LEMMA AfterStreams ==
  ASSUME incoming \in Seq(Packet), libssh \in Lib, NEW n \in 0 .. Len(incoming),
         NEW c \in Channels, server[c].sent \in Nat, server[c].eof \in BOOLEAN, NEW b \in Nat,
         StreamAt(c, 0, b, libssh), Eofs(c),
         \A i \in DOMAIN incoming : DataAt(c, i) => libssh[c].state = "listed"
  PROVE  StreamAt(c, n, b, After[n])
<1> DEFINE S == {i \in Nat : i <= Len(incoming) => StreamAt(c, i, b, After[i])}
<1>1. /\ After[0] = libssh
      /\ \A i \in 0 .. Len(incoming) - 1 : After[i + 1] = Handled(After[i], incoming[i + 1])
  BY AfterSteps DEF Packet
<1>2. 0 \in S
  BY <1>1
<1>3. ASSUME NEW i \in Nat, i \in S PROVE i + 1 \in S
  <2>1. CASE i + 1 <= Len(incoming)
    <3>1. i \in 0 .. Len(incoming) - 1 /\ i \in 0 .. Len(incoming)
      BY <2>1
    <3>2. StreamAt(c, i, b, After[i])
      BY <1>3, <3>1
    <3>3. After[i] \in Lib /\ After[i][c].state = libssh[c].state
      BY <3>1, AfterKeeps DEF Keeps
    <3>4. \A j \in DOMAIN incoming : DataAt(c, j) => After[i][c].state = "listed"
      BY <3>3
    <3>5. StreamAt(c, i + 1, b, Handled(After[i], incoming[i + 1]))
      BY <3>1, <3>2, <3>3, <3>4, HandledStream
    <3>6. QED
      BY <1>1, <3>1, <3>5
  <2>2. QED
    BY <2>1
<1>4. \A i \in Nat : i \in S
  <2> HIDE DEF S
  <2>1. QED
    BY <1>2, <1>3, Induction
<1>5. n \in S /\ n <= Len(incoming)
  BY <1>4
<1>6. QED
  BY <1>5

-----------------------------------------------------------------------------
(* What the steps do, each to the part of the state it changes.             *)

Load == /\ Sends \in [Channels -> Nat] /\ Payload \in [Channels -> Nat] /\ load \in Loads
LibsshOK == libssh \in Lib
ResultType == [kind : {"none", "ok", "again", "data", "wrote", "eof", "failed"},
               bytes : Seq(Bytes), count : Nat, polls : BOOLEAN]

\* The loads are what they are assumed to be.
LEMMA LoadType == ASSUME TypeOK PROVE Load
BY SshAssumption DEF TypeOK, Load, Sends, Payload

\* Operations have a reader's or a writer's side; each channel has both.
LEMMA OpsOf ==
  /\ \A w \in Ops : w[1] \in Channels /\ w[2] \in {"in", "out"} /\ w = <<w[1], w[2]>>
  /\ \A w \in Ops : (w[2] = "in" <=> w = Reader(w[1])) /\ (w[2] = "out" <=> w = Writer(w[1]))
  /\ \A c \in Channels : Reader(c) \in Ops /\ Writer(c) \in Ops /\ Reader(c) # Writer(c)
  /\ \A c \in Channels : Reader(c)[1] = c /\ Writer(c)[1] = c
  /\ \A c \in Channels : Reader(c)[2] = "in" /\ Writer(c)[2] = "out"
  /\ \A c, d \in Channels : c # d => Reader(c) # Reader(d) /\ Writer(c) # Writer(d)
  /\ \A c, d \in Channels : Reader(c) # Writer(d) /\ <<c, "close">> # Reader(d) /\ <<c, "close">> # Writer(d)
  /\ \A c \in Channels : <<c, "close">> \notin Ops
BY DEF Ops, Reader, Writer

\* The packets of a call are gone, what the kernel takes is on the wire; when it
\* took nothing, all that is pending is left.
LEMMA PumpDoes ==
  ASSUME TypeOK, NEW n \in 0 .. Len(incoming), NEW pending \in Seq(Channels), Pump(n, pending)
  PROVE  /\ incoming' = SubSeq(incoming, n + 1, Len(incoming))
         /\ connected' \in BOOLEAN /\ (connected' => connected)
         /\ n = 0 => connected' = connected
         /\ output' \in Seq(Channels) /\ wire' \in Seq(Channels) /\ Len(wire') <= Room
         /\ progress' \in BOOLEAN
         /\ progress \/ n > 0 \/ wire' # wire => progress'
         /\ wire' = wire => output' = pending
         /\ \A i \in DOMAIN output' : \E j \in DOMAIN pending : output'[i] = pending[j]
<1>1. /\ wire \in Seq(Channels) /\ Len(wire) <= Room /\ Room \in Nat /\ connected \in BOOLEAN
      /\ progress \in BOOLEAN /\ incoming \in Seq(Packet)
  BY SshAssumption DEF TypeOK, Packet
<1>2. /\ incoming' = SubSeq(incoming, n + 1, Len(incoming))
      /\ connected' \in BOOLEAN /\ (connected' => connected)
      /\ n = 0 => connected' = connected
      /\ progress' \in BOOLEAN
      /\ progress \/ n > 0 \/ wire' # wire => progress'
  <2>1. connected' = (connected /\ \A i \in 1 .. n : incoming[i] # <<"hangup">>)
        /\ progress' = (progress \/ n > 0 \/ wire' # wire)
        /\ incoming' = SubSeq(incoming, n + 1, Len(incoming))
    BY DEF Pump, Observed
  <2>2. n = 0 => 1 .. n = {}
    OBVIOUS
  <2>3. n = 0 => connected' = connected
    BY <1>1, <2>1, <2>2
  <2>4. QED
    BY <2>1, <2>3
<1>3. CASE connected'
  <2> DEFINE t == Least(Len(pending), Room - Len(wire))
  <2>1. wire' = wire \o SubSeq(pending, 1, t) /\ output' = SubSeq(pending, t + 1, Len(pending))
    BY <1>3 DEF Pump
  <2>2. t \in 0 .. Len(pending) /\ t <= Room - Len(wire)
    BY <1>1 DEF Least
  <2> HIDE DEF t
  <2>3. wire' \in Seq(Channels) /\ Len(wire') = Len(wire) + t /\ output' \in Seq(Channels)
    BY <1>1, <2>1, <2>2
  <2>4. wire' = wire => output' = pending
    <3>1. ASSUME wire' = wire PROVE t = 0
      BY <1>1, <2>2, <2>3, <3>1
    <3>2. t = 0 => output' = pending
      BY <2>1, <2>2
    <3>3. QED
      BY <3>1, <3>2
  <2>5. \A i \in DOMAIN output' : output'[i] = pending[i + t] /\ i + t \in DOMAIN pending
    BY <2>1, <2>2
  <2>6. QED
    BY <1>1, <1>2, <2>2, <2>3, <2>4, <2>5
<1>4. CASE ~connected'
  <2>1. output' = pending /\ wire' = wire
    BY <1>4 DEF Pump
  <2>2. QED
    BY <1>1, <1>2, <1>4, <2>1
<1>5. QED
  BY <1>3, <1>4

-----------------------------------------------------------------------------
(* Types.                                                                   *)

Commands == Ops \cup (Channels \X {"close"})
TypeClient ==
  /\ load \in Loads
  /\ conn \in [Channels -> {"new", "opening", "open", "closed"}]
  /\ pc \in [Ops -> {"idle", "queued", "ready", "waiting"}]
  /\ stage \in [Ops -> {"alloc", "request", "read", "write", "flush"}]
  /\ result \in [Ops -> ResultType]
  /\ cancelled \in [Ops -> BOOLEAN] /\ offset \in [Channels -> Nat]
  /\ got \in [Channels -> Seq(Bytes)]
  /\ wake \in [Ops -> BOOLEAN]
  /\ queue \in Seq(Commands) /\ running \subseteq Ops
  /\ worker \in {"take", "retire", "notify", "ended"} /\ stopping \in BOOLEAN
ServerType == [sent : Nat, eof : BOOLEAN, replied : BOOLEAN, received : Nat, hungup : BOOLEAN]
TypeSession ==
  /\ libssh \in Lib
  /\ output \in Seq(Channels) /\ connected \in BOOLEAN
  /\ incoming \in Seq(Packet)
  /\ wire \in Seq(Channels) /\ Len(wire) <= Room
  /\ server \in [Channels -> ServerType]
  /\ progress \in BOOLEAN

\* The two halves of the type invariant.
LEMMA TypeParts == /\ TypeOK <=> TypeClient /\ TypeSession
                   /\ TypeOK' <=> TypeClient' /\ TypeSession'
BY DEF TypeOK, TypeClient, TypeSession, Commands, ResultType, Lib, LibChannel, ServerType, Packet

\* An attempt keeps its types.
LEMMA AttemptType ==
  ASSUME TypeClient, NEW w \in Ops,
         NEW call \in {"alloc", "request", "read", "write", "flush"}, Attempt(w, call)
  PROVE  /\ wake' \in [Ops -> BOOLEAN] /\ queue' \in Seq(Commands)
         /\ pc' \in [Ops -> {"idle", "queued", "ready", "waiting"}]
         /\ stage' \in [Ops -> {"alloc", "request", "read", "write", "flush"}]
         /\ result' \in [Ops -> ResultType]
<1>1. Nothing \in ResultType
  BY DEF Nothing, ResultType
<1>2. w \in Commands
  BY DEF Commands
<1>3. result' \in [Ops -> ResultType]
  BY <1>1 DEF Attempt, TypeClient
<1>4. queue' \in Seq(Commands)
  BY <1>2 DEF Attempt, TypeClient
<1>5. QED
  BY <1>3, <1>4 DEF Attempt, TypeClient

\* The end of an operation keeps its types.
LEMMA FinishType ==
  ASSUME TypeClient, NEW w \in Ops, NEW c \in Channels, NEW failed, Finish(w, c, failed)
  PROVE  /\ wake' = wake /\ stage' = stage /\ result' = result
         /\ queue' \in Seq(Commands)
         /\ pc' \in [Ops -> {"idle", "queued", "ready", "waiting"}]
         /\ conn' \in [Channels -> {"new", "opening", "open", "closed"}]
<1>1. <<c, "close">> \in Commands
  BY DEF Commands
<1>2. queue' = queue \/ queue' = Append(queue, <<c, "close">>)
  BY DEF Finish
<1>3. queue \in Seq(Commands)
  BY DEF TypeClient
<1>4. queue' \in Seq(Commands)
  BY <1>1, <1>2, <1>3, AppendIn
<1>5. QED
  BY <1>4 DEF Finish, TypeClient

\* Sharing the transport is a Boolean.
LEMMA ShareType == ASSUME stopping \in BOOLEAN, Share PROVE stopping' \in BOOLEAN
BY DEF Share

\* What a coroutine does keeps the types.
LEMMA TypeResume ==
  ASSUME TypeClient, load' = load, NEW w \in Ops, Resume(w)
  PROVE  TypeClient'
<1>1. w[1] \in Channels
  BY OpsOf
<1>2. got' \in [Channels -> Seq(Bytes)]
  <2>1. result[w].bytes \in Seq(Bytes) /\ got[w[1]] \in Seq(Bytes)
    BY <1>1 DEF TypeClient, ResultType
  <2>2. got[w[1]] \o result[w].bytes \in Seq(Bytes)
    BY <2>1
  <2>3. got' = [got EXCEPT ![w[1]] = got[w[1]] \o result[w].bytes]
    BY DEF Resume
  <2>4. QED
    BY <1>1, <2>2, <2>3 DEF TypeClient
<1>3. offset' \in [Channels -> Nat]
  <2>1. result[w].count \in Nat /\ offset[w[1]] \in Nat
    BY <1>1 DEF TypeClient, ResultType
  <2>2. offset' = [offset EXCEPT ![w[1]] = offset[w[1]] + result[w].count]
    BY DEF Resume
  <2>3. QED
    BY <1>1, <2>1, <2>2 DEF TypeClient
<1>4. stopping' \in BOOLEAN
  BY ShareType DEF Resume, TypeClient
<1>5. UNCHANGED <<cancelled, worker, running>>
  BY DEF Resume
<1>6. ASSUME NEW call \in {"alloc", "request", "read", "write", "flush"},
             Attempt(w, call), UNCHANGED conn
      PROVE  TypeClient'
  BY <1>2, <1>3, <1>4, <1>5, <1>6, AttemptType DEF TypeClient
<1>7. CASE Finish(w, w[1], FALSE)
  BY <1>1, <1>2, <1>3, <1>4, <1>5, <1>7, FinishType DEF TypeClient
<1>8. CASE pc' = [pc EXCEPT ![w] = "waiting"] /\ UNCHANGED <<wake, queue, stage, conn, result>>
  BY <1>2, <1>3, <1>4, <1>5, <1>8 DEF TypeClient
<1>9. QED
  BY <1>6, <1>7, <1>8 DEF Resume

\* Whoever opens, reads, writes, waits, throws, cancels or closes keeps the types.
LEMMA TypeDispatch ==
  ASSUME TypeClient, load' = load,
         \/ \E w \in Ops : Resume(w) \/ Throw(w) \/ Wake(w) \/ Cancel(w)
         \/ \E c \in Channels : Open(c) \/ Read(c) \/ Write(c) \/ Close(c)
  PROVE  TypeClient' /\ UNCHANGED <<session, server>>
<1>1. ASSUME NEW w \in Ops, Resume(w) PROVE TypeClient' /\ UNCHANGED <<session, server>>
  <2>1. UNCHANGED <<session, server>>
    BY <1>1 DEF Resume
  <2>2. QED
    BY <1>1, <2>1, TypeResume
<1>2. ASSUME NEW w \in Ops, Throw(w) PROVE TypeClient' /\ UNCHANGED <<session, server>>
  <2>1. Finish(w, w[1], TRUE) /\ w[1] \in Channels
    BY <1>2, OpsOf DEF Throw
  <2>2. stopping' \in BOOLEAN
    BY <1>2, ShareType DEF Throw, TypeClient
  <2>3. QED
    BY <1>2, <2>1, <2>2, FinishType DEF Throw, TypeClient
<1>3. ASSUME NEW w \in Ops, Wake(w) PROVE TypeClient' /\ UNCHANGED <<session, server>>
  <2>1. Attempt(w, stage[w]) /\ stage[w] \in {"alloc", "request", "read", "write", "flush"}
    BY <1>3 DEF Wake, TypeClient
  <2>2. QED
    BY <1>3, <2>1, AttemptType DEF Wake, TypeClient
<1>4. ASSUME NEW w \in Ops, Cancel(w) PROVE TypeClient' /\ UNCHANGED <<session, server>>
  <2>1. w[1] \in Channels
    BY OpsOf
  <2>2. stopping' \in BOOLEAN
    BY <1>4, ShareType DEF Cancel, TypeClient
  <2>3. cancelled' \in [Ops -> BOOLEAN]
    BY <1>4 DEF Cancel, TypeClient
  <2>4. CASE Finish(w, w[1], TRUE)
    BY <1>4, <2>1, <2>2, <2>3, <2>4, FinishType DEF Cancel, TypeClient
  <2>5. CASE UNCHANGED <<pc, conn, queue, wake, stage, result>>
    BY <1>4, <2>2, <2>3, <2>5 DEF Cancel, TypeClient
  <2>6. QED
    BY <1>4, <2>4, <2>5 DEF Cancel
<1>5. ASSUME NEW c \in Channels, Open(c) PROVE TypeClient' /\ UNCHANGED <<session, server>>
  <2>1. Attempt(Reader(c), "alloc") /\ Reader(c) \in Ops
    BY <1>5, OpsOf DEF Open
  <2>2. conn' \in [Channels -> {"new", "opening", "open", "closed"}]
    BY <1>5 DEF Open, TypeClient
  <2>3. QED
    BY <1>5, <2>1, <2>2, AttemptType DEF Open, TypeClient
<1>6. ASSUME NEW c \in Channels, Read(c) PROVE TypeClient' /\ UNCHANGED <<session, server>>
  <2>1. Attempt(Reader(c), "read") /\ Reader(c) \in Ops
    BY <1>6, OpsOf DEF Read
  <2>2. cancelled' \in [Ops -> BOOLEAN]
    BY <1>6, <2>1 DEF Read, TypeClient
  <2>3. QED
    BY <1>6, <2>1, <2>2, AttemptType DEF Read, TypeClient
<1>7. ASSUME NEW c \in Channels, Write(c) PROVE TypeClient' /\ UNCHANGED <<session, server>>
  <2>1. Attempt(Writer(c), "write") /\ Writer(c) \in Ops
    BY <1>7, OpsOf DEF Write
  <2>2. QED
    BY <1>7, <2>1, AttemptType DEF Write, TypeClient
<1>8. ASSUME NEW c \in Channels, Close(c) PROVE TypeClient' /\ UNCHANGED <<session, server>>
  <2>1. <<c, "close">> \in Commands
    BY DEF Commands
  <2>2. queue' \in Seq(Commands) /\ conn' \in [Channels -> {"new", "opening", "open", "closed"}]
    BY <1>8, <2>1 DEF Close, TypeClient
  <2>3. stopping' \in BOOLEAN
    BY <1>8, ShareType DEF Close, TypeClient
  <2>4. QED
    BY <1>8, <2>2, <2>3 DEF Close, TypeClient
<1>9. QED
  BY <1>1, <1>2, <1>3, <1>4, <1>5, <1>6, <1>7, <1>8

\* What a call takes is no more than is left, nor than the window.
LEMMA FitsType ==
  ASSUME TypeOK, NEW w \in Ops, NEW l \in Lib,
         stage[w] = "write" => offset[w[1]] <= Payload[w[1]]
  PROVE  /\ Fits(w, l) \in Nat /\ Fits(w, l) <= l[w[1]].window
         /\ Fits(w, l) > 0 => stage[w] = "write" /\ Fits(w, l) <= Payload[w[1]] - offset[w[1]]
         /\ [i \in 1 .. Fits(w, l) |-> w[1]] \in Seq(Channels)
<1>1. w[1] \in Channels /\ offset[w[1]] \in Nat /\ Payload[w[1]] \in Nat
  BY OpsOf, LoadType DEF TypeOK, Load
<1>2. l[w[1]].window \in Nat
  BY <1>1 DEF Lib, LibChannel
<1>3. Fits(w, l) \in Nat /\ Fits(w, l) <= l[w[1]].window
      /\ (Fits(w, l) > 0 => stage[w] = "write" /\ Fits(w, l) <= Payload[w[1]] - offset[w[1]])
  BY <1>1, <1>2 DEF Fits, Least
<1>4. QED
  BY <1>1, <1>3

\* A write counts what it has taken at most up to the end of its payload.
Within == \A w \in Ops : stage[w] = "write" => offset[w[1]] <= Payload[w[1]]

\* A result of the worker is a result.
LEMMA ReturnType ==
  ASSUME TypeClient, NEW w \in Ops, output' \in Seq(Channels),
         NEW kind \in {"none", "ok", "again", "data", "wrote", "eof", "failed"},
         NEW bytes \in Seq(Bytes), NEW count \in Nat, Return(w, kind, bytes, count)
  PROVE  result' \in [Ops -> ResultType]
<1> DEFINE r == [kind |-> kind, bytes |-> bytes, count |-> count, polls |-> output' # <<>>]
<1>1. r \in ResultType
  BY DEF ResultType
<1>2. result' = [result EXCEPT ![w] = r]
  BY DEF Return
<1> HIDE DEF r
<1>3. QED
  BY <1>1, <1>2 DEF TypeClient

\* What a call makes of the channels, and what it returns.
LEMMA AnswerType ==
  ASSUME TypeOK, Within, NEW w \in Ops, NEW l \in Lib, output' \in Seq(Channels), Answer(w, l)
  PROVE  libssh' \in Lib /\ result' \in [Ops -> ResultType]
<1> DEFINE c == w[1]
           fits == Fits(w, l)
<1>1. c \in Channels /\ l[c] \in LibChannel /\ l[c].buffer \in Seq(Bytes)
  BY OpsOf DEF Lib, LibChannel
<1>2. TypeClient /\ <<>> \in Seq(Bytes) /\ 0 \in Nat
  BY TypeParts
<1>3. stage[w] = "write" => offset[c] <= Payload[c]
  BY DEF Within
<1>4. fits \in Nat /\ fits <= l[c].window
  BY <1>3, FitsType
<1> HIDE DEF c, fits
<1>5. CASE /\ stage[w] = "request"
           /\ libssh' = [l EXCEPT ![c].asked = TRUE]
           /\ Return(w, IF l[c].opened THEN "ok" ELSE IF connected' THEN "again" ELSE "failed", <<>>, 0)
  BY <1>1, <1>2, <1>5, ReturnType DEF Lib, LibChannel
<1>6. CASE /\ stage[w] = "read" /\ ReadReturns(l[c], connected') = "data"
           /\ libssh' = [l EXCEPT ![c].buffer = <<>>]
           /\ Return(w, "data", l[c].buffer, 0)
  BY <1>1, <1>2, <1>6, ReturnType DEF Lib, LibChannel
<1>7. CASE /\ stage[w] = "read"
           /\ libssh' = l
           /\ Return(w, ReadReturns(l[c], connected'), <<>>, 0)
  <2>1. ReadReturns(l[c], connected') \in {"none", "ok", "again", "data", "wrote", "eof", "failed"}
    BY DEF ReadReturns
  <2>2. QED
    BY <1>2, <1>7, <2>1, ReturnType
<1>8. CASE /\ stage[w] = "write"
           /\ libssh' = [l EXCEPT ![c].window = @ - fits, ![c].accepted = @ + fits]
           /\ Return(w, IF ~connected' THEN "failed" ELSE IF fits > 0 THEN "wrote" ELSE "again", <<>>, fits)
  <2>1. l[c].window - fits \in Nat /\ l[c].accepted + fits \in Nat
    BY <1>1, <1>4 DEF LibChannel
  <2>2. libssh' \in Lib
    BY <1>1, <1>8, <2>1 DEF Lib, LibChannel
  <2>3. QED
    BY <1>2, <1>4, <1>8, <2>2, ReturnType
<1>9. CASE /\ stage[w] = "flush"
           /\ libssh' = l
           /\ Return(w, IF ~connected' THEN "failed" ELSE IF output' = <<>> THEN "ok" ELSE "again", <<>>, 0)
  BY <1>2, <1>9, ReturnType
<1>10. QED
  BY <1>5, <1>6, <1>7, <1>8, <1>9 DEF Answer, c, fits

\* The run of packets a call handles, and what it leaves behind: what every
\* argument about a call starts from.
CallOf(w, n) ==
  /\ n \in 0 .. Len(incoming)
  /\ connected /\ incoming # <<>> => n > 0
  /\ After[n] \in Lib /\ Keeps(libssh, After[n]) /\ (n = 0 => After[n] = libssh)
  /\ Answer(w, After[n])
  /\ incoming' = SubSeq(incoming, n + 1, Len(incoming))
  /\ connected' \in BOOLEAN /\ (connected' => connected) /\ (n = 0 => connected' = connected)
  /\ output' \in Seq(Channels) /\ wire' \in Seq(Channels) /\ Len(wire') <= Room
  /\ progress' \in BOOLEAN /\ (progress \/ n > 0 \/ wire' # wire => progress')
  /\ Fits(w, After[n]) = 0 /\ wire' = wire => output' = output
  /\ Fits(w, After[n]) > 0 /\ wire' = wire => output' # <<>>
  /\ \A i \in DOMAIN output' : \/ \E j \in DOMAIN output : output'[i] = output[j]
                               \/ Fits(w, After[n]) > 0 /\ output'[i] = w[1]

\* The length of two sequences, one behind the other.
LEMMA ConcatLength ==
  ASSUME NEW D, NEW s \in Seq(D), NEW t \in Seq(D)
  PROVE  Len(s \o t) = Len(s) + Len(t)
OBVIOUS

\* Some bytes of a channel behind the others.
LEMMA Extended ==
  ASSUME NEW s \in Seq(Channels), NEW c \in Channels, NEW k \in Nat,
         NEW more \in Seq(Channels), Len(more) = k, \A i \in 1 .. k : more[i] = c,
         NEW e, e = s \o more
  PROVE  /\ e \in Seq(Channels) /\ (k = 0 => e = s) /\ (k > 0 => e # <<>>)
         /\ \A i \in DOMAIN e : (\E j \in DOMAIN s : e[i] = s[j]) \/ (k > 0 /\ e[i] = c)
<1>1. Len(more) = k /\ \A i \in 1 .. k : more[i] = c
  OBVIOUS
<1>2. k = 0 => more = <<>>
  OBVIOUS
<1>3. e = s \o more /\ e \in Seq(Channels) /\ Len(e) = Len(s) + k /\ Len(s) \in Nat
  <2>1. Len(s) \in Nat
    OBVIOUS
  <2>2. e \in Seq(Channels)
    OBVIOUS
  <2>3. Len(e) = Len(s) + Len(more)
    BY ConcatLength
  <2>4. QED
    BY <1>1, <2>1, <2>2, <2>3
<1>4. k = 0 => e = s
  BY <1>2, <1>3
<1>5. k > 0 => e # <<>>
  BY <1>3
<1>6. ASSUME NEW i \in 1 .. Len(s) + k
      PROVE  (\E j \in DOMAIN s : e[i] = s[j]) \/ (k > 0 /\ e[i] = c)
  <2>1. CASE i <= Len(s)
    <3>1. e[i] = s[i] /\ i \in DOMAIN s
      BY <1>1, <1>3, <2>1
    <3>2. QED
      BY <3>1
  <2>2. CASE i > Len(s)
    <3>1. e[i] = more[i - Len(s)] /\ i - Len(s) \in 1 .. k
      BY <1>1, <1>3, <2>2
    <3>2. QED
      BY <1>1, <3>1
  <2>3. QED
    BY <1>3, <2>1, <2>2
<1>7. DOMAIN e = 1 .. Len(s) + k
  BY <1>3
<1>8. QED
  BY <1>3, <1>4, <1>5, <1>6, <1>7

\* A call handles some packets and answers.
LEMMA CallDoes ==
  ASSUME TypeOK, Within, NEW w \in Ops, Call(w), stage[w] # "alloc"
  PROVE  \E n \in Nat : CallOf(w, n)
<1>1. PICK n \in 0 .. Len(incoming) :
        /\ connected /\ incoming # <<>> => n > 0
        /\ Pump(n, output \o [i \in 1 .. Fits(w, After[n]) |-> w[1]])
        /\ Answer(w, After[n])
  BY DEF Call
<1>2. incoming \in Seq(Packet) /\ libssh \in Lib /\ output \in Seq(Channels)
  BY TypeParts DEF TypeSession
<1>3. After[n] \in Lib /\ Keeps(libssh, After[n])
  BY <1>2, AfterKeeps
<1>4. n = 0 => After[n] = libssh
  BY <1>2, AfterSteps DEF Packet
<1>5. stage[w] = "write" => offset[w[1]] <= Payload[w[1]]
  BY DEF Within
<1>6. PICK fits \in Nat : fits = Fits(w, After[n])
  BY <1>3, <1>5, FitsType
<1>7. PICK pending : pending = output \o [i \in 1 .. fits |-> w[1]]
  OBVIOUS
<1>8. /\ pending \in Seq(Channels) /\ (fits = 0 => pending = output) /\ (fits > 0 => pending # <<>>)
      /\ \A i \in DOMAIN pending : \/ \E j \in DOMAIN output : pending[i] = output[j]
                                   \/ fits > 0 /\ pending[i] = w[1]
  <2>1. w[1] \in Channels
    BY OpsOf
  <2>2. PICK more : more = [i \in 1 .. fits |-> w[1]]
    OBVIOUS
  <2>3. more \in Seq(Channels) /\ Len(more) = fits /\ \A i \in 1 .. fits : more[i] = w[1]
    BY <2>1, <2>2
  <2>4. pending = output \o more
    BY <1>7, <2>2
  <2>5. QED
    BY <1>2, <2>1, <2>3, <2>4, Extended
<1>9. Pump(n, pending)
  BY <1>1, <1>6, <1>7
<1>10. /\ incoming' = SubSeq(incoming, n + 1, Len(incoming))
       /\ connected' \in BOOLEAN /\ (connected' => connected)
       /\ n = 0 => connected' = connected
       /\ output' \in Seq(Channels) /\ wire' \in Seq(Channels) /\ Len(wire') <= Room
       /\ progress' \in BOOLEAN
       /\ progress \/ n > 0 \/ wire' # wire => progress'
       /\ wire' = wire => output' = pending
       /\ \A i \in DOMAIN output' : \E j \in DOMAIN pending : output'[i] = pending[j]
  BY <1>8, <1>9, PumpDoes
<1>11. ASSUME NEW i \in DOMAIN output'
       PROVE  (\E j \in DOMAIN output : output'[i] = output[j]) \/ (fits > 0 /\ output'[i] = w[1])
  <2>1. PICK j \in DOMAIN pending : output'[i] = pending[j]
    BY <1>10
  <2>2. QED
    BY <1>8, <2>1
<1>12. fits = 0 /\ wire' = wire => output' = output
  BY <1>8, <1>10
<1>13. fits > 0 /\ wire' = wire => output' # <<>>
  BY <1>8, <1>10
<1>14. CallOf(w, n)
  BY <1>1, <1>3, <1>4, <1>6, <1>10, <1>11, <1>12, <1>13 DEF CallOf
<1>15. n \in Nat
  OBVIOUS
<1>16. QED
  BY <1>14, <1>15

\* The commands of the queue are commands.
LEMMA QueueHead ==
  ASSUME TypeClient, queue # <<>>
  PROVE  /\ Head(queue) \in Commands /\ Tail(queue) \in Seq(Commands)
         /\ Head(queue)[2] # "close" => Head(queue) \in Ops
         /\ Head(queue)[2] = "close" => Head(queue)[1] \in Channels /\ Head(queue) \notin Ops
<1>1. Head(queue) \in Commands /\ Tail(queue) \in Seq(Commands)
  BY DEF TypeClient
<1>2. QED
  BY <1>1 DEF Commands, Ops

\* What is left of the socket is packets.
LEMMA PacketsLeft ==
  ASSUME incoming \in Seq(Packet), NEW n \in 0 .. Len(incoming)
  PROVE  /\ SubSeq(incoming, n + 1, Len(incoming)) \in Seq(Packet)
         /\ Len(SubSeq(incoming, n + 1, Len(incoming))) = Len(incoming) - n
         /\ \A i \in 1 .. Len(incoming) - n :
              SubSeq(incoming, n + 1, Len(incoming))[i] = incoming[n + i]
<1>1. Len(incoming) \in Nat /\ n \in Nat
  OBVIOUS
<1>2. SubSeq(incoming, n + 1, Len(incoming)) \in Seq(Packet)
  OBVIOUS
<1>3. Len(SubSeq(incoming, n + 1, Len(incoming))) = Len(incoming) - n
  BY <1>1
<1>4. ASSUME NEW i \in 1 .. Len(incoming) - n
      PROVE  SubSeq(incoming, n + 1, Len(incoming))[i] = incoming[n + i]
  BY <1>1, <1>4
<1>5. QED
  BY <1>2, <1>3, <1>4

\* A closing command only frees its channel.
CloseCommand ==
  /\ worker = "take" /\ queue # <<>> /\ Head(queue)[2] = "close"
  /\ Head(queue)[1] \in Channels /\ Head(queue) \notin Ops
  /\ queue' = Tail(queue)
  /\ libssh' = [libssh EXCEPT ![Head(queue)[1]].state = "freed", ![Head(queue)[1]].buffer = <<>>]
  /\ worker' = "notify"
  /\ UNCHANGED <<client, wake, stopping, server, output, connected, incoming, wire, progress,
                 result, running>>
\* The command of an operation is a call.
CallCommand(w) ==
  /\ worker = "take" /\ queue # <<>> /\ Head(queue) = w
  /\ queue' = Tail(queue)
  /\ Call(w)
  /\ running' = {w} /\ worker' = "retire"
  /\ UNCHANGED <<client, wake, stopping, server>>

\* The worker executes one or the other.
LEMMA ExecuteCases ==
  ASSUME TypeClient, Execute
  PROVE  CloseCommand \/ \E w \in Ops : CallCommand(w)
<1>1. queue # <<>>
  BY DEF Execute
<1>2. CASE Head(queue)[2] = "close"
  BY <1>1, <1>2, QueueHead DEF Execute, CloseCommand
<1>3. CASE Head(queue)[2] # "close"
  <2>1. Head(queue) \in Ops
    BY <1>1, <1>3, QueueHead
  <2>2. CallCommand(Head(queue))
    BY <1>3 DEF Execute, CallCommand
  <2>3. QED
    BY <2>1, <2>2
<1>4. QED
  BY <1>2, <1>3

\* Every field of a channel that is freed stays, its buffer and its state but.
LEMMA FreedType ==
  ASSUME libssh \in Lib, NEW c \in Channels,
         libssh' = [libssh EXCEPT ![c].state = "freed", ![c].buffer = <<>>]
  PROVE  /\ libssh' \in Lib
         /\ \A d \in Channels : d # c => libssh'[d] = libssh[d]
         /\ libssh'[c] = [libssh[c] EXCEPT !.state = "freed", !.buffer = <<>>]
<1>1. <<>> \in Seq(Bytes) /\ libssh[c] \in LibChannel
  BY DEF Lib
<1>2. [libssh[c] EXCEPT !.state = "freed", !.buffer = <<>>] \in LibChannel
  BY <1>1 DEF LibChannel
<1>3. libssh' = [libssh EXCEPT ![c] = [libssh[c] EXCEPT !.state = "freed", !.buffer = <<>>]]
  OBVIOUS
<1>4. QED
  BY <1>2, <1>3 DEF Lib

\* What the worker does keeps the types.
LEMMA TypeWorker ==
  ASSUME TypeOK, Within, load' = load, Worker
  PROVE  TypeOK'
<1>1. TypeClient /\ TypeSession
  BY TypeParts
<1>2. CASE CloseCommand
  <2>1. queue' \in Seq(Commands)
    BY <1>1, <1>2, QueueHead DEF CloseCommand
  <2>2. libssh' \in Lib
    BY <1>1, <1>2, FreedType DEF CloseCommand, TypeSession
  <2>3. TypeClient' /\ TypeSession'
    BY <1>1, <1>2, <2>1, <2>2 DEF CloseCommand, client, TypeClient, TypeSession
  <2>4. QED
    BY <2>3, TypeParts
<1>3. ASSUME NEW w \in Ops, CallCommand(w) PROVE TypeOK'
  <2>1. queue' \in Seq(Commands) /\ running' \subseteq Ops
    BY <1>1, <1>3, QueueHead DEF CallCommand
  <2>2. CASE stage[w] = "alloc"
    <3>1. Alloc(w)
      BY <1>3, <2>2 DEF CallCommand, Call
    <3>2. libssh' \in Lib
      <4>1. [libssh[w[1]] EXCEPT !.state = "listed"] \in LibChannel /\ w[1] \in Channels
        <5>1. libssh[w[1]] \in LibChannel /\ w[1] \in Channels
          BY <1>1, OpsOf DEF TypeSession, Lib
        <5>2. QED
          BY <5>1 DEF LibChannel
      <4>2. libssh' = [libssh EXCEPT ![w[1]] = [libssh[w[1]] EXCEPT !.state = "listed"]]
        BY <3>1 DEF Alloc
      <4>3. QED
        BY <1>1, <4>1, <4>2 DEF TypeSession, Lib
    <3>3. result' \in [Ops -> ResultType]
      <4>1. [kind |-> "ok", bytes |-> <<>>, count |-> 0, polls |-> FALSE] \in ResultType
        BY DEF ResultType
      <4>2. QED
        BY <1>1, <3>1, <4>1 DEF Alloc, TypeClient
    <3>4. TypeClient' /\ TypeSession'
      BY <1>1, <1>3, <2>1, <3>1, <3>2, <3>3 DEF CallCommand, Alloc, client, TypeClient, TypeSession
    <3>5. QED
      BY <3>4, TypeParts
  <2>3. CASE stage[w] # "alloc"
    <3>1. PICK n \in Nat : CallOf(w, n)
      BY <1>3, <2>3, CallDoes DEF CallCommand
    <3>2. libssh' \in Lib /\ result' \in [Ops -> ResultType]
      BY <3>1, AnswerType DEF CallOf
    <3>3. incoming' \in Seq(Packet)
      BY <1>1, <3>1, PacketsLeft DEF CallOf, TypeSession
    <3>4. TypeClient'
      BY <1>1, <1>3, <2>1, <3>2 DEF CallCommand, client, TypeClient
    <3>5. TypeSession'
      BY <1>1, <1>3, <3>1, <3>2, <3>3 DEF CallCommand, CallOf, TypeSession
    <3>6. QED
      BY <3>4, <3>5, TypeParts
  <2>4. QED
    BY <2>2, <2>3
<1>4. CASE Retire
  <2>1. stopping' \in BOOLEAN
    BY <1>1, <1>4, ShareType DEF Retire, TypeClient
  <2>2. pc' \in [Ops -> {"idle", "queued", "ready", "waiting"}] /\ running' \subseteq Ops
    BY <1>1, <1>4 DEF Retire, TypeClient
  <2>3. TypeClient' /\ TypeSession'
    BY <1>1, <1>4, <2>1, <2>2 DEF Retire, session, TypeClient, TypeSession
  <2>4. QED
    BY <2>3, TypeParts
<1>5. CASE NotifyProgress
  <2>1. wake' \in [Ops -> BOOLEAN]
    BY <1>1, <1>5 DEF NotifyProgress, TypeClient
  <2>2. TypeClient' /\ TypeSession'
    BY <1>1, <1>5, <2>1 DEF NotifyProgress, client, TypeClient, TypeSession
  <2>3. QED
    BY <2>2, TypeParts
<1>6. CASE Stop
  <2>1. libssh' \in Lib
    <3>1. ASSUME NEW c \in Channels
          PROVE  [libssh[c] EXCEPT !.buffer = <<>>, !.state = IF @ = "listed" THEN "freed" ELSE @]
                   \in LibChannel
      <4>1. libssh[c] \in LibChannel
        BY <1>1 DEF TypeSession, Lib
      <4>2. PICK s : s = IF libssh[c].state = "listed" THEN "freed" ELSE libssh[c].state
        OBVIOUS
      <4>3. s \in {"none", "listed", "freed"} /\ <<>> \in Seq(Bytes)
        BY <4>1, <4>2 DEF LibChannel
      <4>4. [libssh[c] EXCEPT !.buffer = <<>>, !.state = s] \in LibChannel
        BY <4>1, <4>3 DEF LibChannel
      <4>5. QED
        BY <4>2, <4>4
    <3>2. QED
      BY <1>6, <3>1 DEF Stop, Lib
  <2>2. TypeClient' /\ TypeSession'
    BY <1>1, <1>6, <2>1 DEF Stop, client, TypeClient, TypeSession
  <2>3. QED
    BY <2>2, TypeParts
<1>7. QED
  BY <1>1, <1>2, <1>3, <1>4, <1>5, <1>6, ExecuteCases DEF Worker

\* What the server does keeps the types.
LEMMA TypeServer ==
  ASSUME TypeOK, load' = load, Network \/ HangsUp
  PROVE  /\ TypeOK' /\ UNCHANGED <<client, result, wake, queue, worker, running, stopping, libssh,
                                   output, connected, progress>>
         /\ incoming' = incoming \/ \E p \in Packet : incoming' = Append(incoming, p)
         /\ wire' = wire \/ (wire # <<>> /\ wire' = Tail(wire))
<1>1. TypeClient /\ TypeSession
  BY TypeParts
<1> DEFINE Same == UNCHANGED <<client, result, wake, queue, worker, running, stopping, libssh,
                               output, connected, progress>>
<1>2. ASSUME Same, server' \in [Channels -> ServerType], UNCHANGED wire,
             NEW p \in Packet, incoming' = Append(incoming, p)
      PROVE  TypeOK'
  <2>1. incoming' \in Seq(Packet)
    BY <1>1, <1>2 DEF TypeSession
  <2>2. TypeClient' /\ TypeSession'
    BY <1>1, <1>2, <2>1 DEF client, TypeClient, TypeSession
  <2>3. QED
    BY <2>2, TypeParts
<1>3. ASSUME NEW c \in Channels, Replies(c) \/ SendsData(c) \/ SendsEof(c)
      PROVE  /\ Same /\ TypeOK' /\ UNCHANGED wire
             /\ \E p \in Packet : incoming' = Append(incoming, p)
  <2>1. server[c] \in ServerType
    BY <1>1 DEF TypeSession
  <2>2. PICK r, p : Server(c, r, p) /\ r \in ServerType /\ p \in Packet
    <3>1. CASE Replies(c)
      <4>1. [server[c] EXCEPT !.replied = TRUE] \in ServerType /\ <<"reply", c>> \in Packet
        BY <2>1 DEF ServerType, Packet, Packets
      <4>2. QED
        BY <3>1, <4>1 DEF Replies
    <3>2. CASE SendsData(c)
      <4>1. [server[c] EXCEPT !.sent = @ + 1] \in ServerType
        BY <2>1 DEF ServerType
      <4>2. server[c].sent + 1 \in Bytes
        BY <2>1 DEF ServerType, Bytes
      <4>3. <<"data", c, server[c].sent + 1>> \in Packet
        BY <4>2 DEF Packet, Packets
      <4>4. QED
        BY <3>2, <4>1, <4>3 DEF SendsData
    <3>3. CASE SendsEof(c)
      <4>1. [server[c] EXCEPT !.eof = TRUE] \in ServerType /\ <<"eof", c>> \in Packet
        BY <2>1 DEF ServerType, Packet, Packets
      <4>2. QED
        BY <3>3, <4>1 DEF SendsEof
    <3>4. QED
      BY <1>3, <3>1, <3>2, <3>3
  <2>3. server' \in [Channels -> ServerType] /\ Same /\ UNCHANGED wire /\ incoming' = Append(incoming, p)
    BY <1>1, <2>2 DEF Server, TypeSession
  <2>4. QED
    BY <1>2, <2>2, <2>3
<1>4. ASSUME NEW c \in Channels, Receives(c)
      PROVE  /\ Same /\ TypeOK' /\ wire # <<>> /\ wire' = Tail(wire)
             /\ incoming' = incoming \/ \E p \in Packet : incoming' = Append(incoming, p)
  <2>1. server[c] \in ServerType
    BY <1>1 DEF TypeSession
  <2>2. server' \in [Channels -> ServerType]
    <3>1. [server[c] EXCEPT !.received = @ + 1] \in ServerType
      BY <2>1 DEF ServerType
    <3>2. server' = [server EXCEPT ![c] = [server[c] EXCEPT !.received = @ + 1]]
      BY <1>4 DEF Receives
    <3>3. QED
      BY <1>1, <3>1, <3>2 DEF TypeSession
  <2>3. Same /\ wire # <<>> /\ wire' = Tail(wire)
    BY <1>4 DEF Receives
  <2>4. wire' \in Seq(Channels) /\ Len(wire') <= Room
    BY <1>1, <2>3, SshAssumption DEF TypeSession
  <2>5. <<"adjust", c>> \in Packet
    BY DEF Packet, Packets
  <2>6. incoming' = incoming \/ incoming' = Append(incoming, <<"adjust", c>>)
    BY <1>4 DEF Receives
  <2>7. incoming' \in Seq(Packet)
    <3>1. incoming \in Seq(Packet)
      BY <1>1 DEF TypeSession
    <3>2. QED
      BY <2>5, <2>6, <3>1, AppendIn
  <2>8. TypeClient' /\ TypeSession'
    BY <1>1, <2>2, <2>3, <2>4, <2>7 DEF client, TypeClient, TypeSession
  <2>9. QED
    BY <2>3, <2>5, <2>6, <2>8, TypeParts
<1>5. ASSUME HangsUp
      PROVE  /\ Same /\ TypeOK' /\ UNCHANGED wire
             /\ \E p \in Packet : incoming' = Append(incoming, p)
  <2>1. ASSUME NEW c \in Channels PROVE [server[c] EXCEPT !.hungup = TRUE] \in ServerType
    BY <1>1 DEF TypeSession, ServerType
  <2>2. server' \in [Channels -> ServerType]
    BY <1>5, <2>1 DEF HangsUp
  <2>3. <<"hangup">> \in Packet
    BY DEF Packet
  <2>4. QED
    BY <1>2, <1>5, <2>2, <2>3 DEF HangsUp
<1>6. QED
  BY <1>3, <1>4, <1>5 DEF Network

-----------------------------------------------------------------------------
(* Turns: the queue and the worker's hand.                                  *)

\* A command joins the queue.
LEMMA Joins ==
  ASSUME TypeClient, NEW x \in Commands, queue' = Append(queue, x)
  PROVE  /\ \A y \in Commands : Queued(y)' <=> Queued(y) \/ y = x
         /\ Once /\ (x \in Ops => ~Queued(x)) => Once'
<1>1. queue \in Seq(Commands) /\ Len(queue) \in Nat
  BY DEF TypeClient
<1>2. /\ Len(queue') = Len(queue) + 1 /\ DOMAIN queue' = 1 .. Len(queue) + 1
      /\ DOMAIN queue = 1 .. Len(queue)
      /\ queue'[Len(queue) + 1] = x /\ \A i \in 1 .. Len(queue) : queue'[i] = queue[i]
  BY <1>1
<1>3. ASSUME NEW y \in Commands PROVE Queued(y)' <=> Queued(y) \/ y = x
  <2>1. ASSUME Queued(y)' PROVE Queued(y) \/ y = x
    <3>1. PICK i \in DOMAIN queue' : queue'[i] = y
      BY <2>1 DEF Queued
    <3>2. i \in 1 .. Len(queue) \/ i = Len(queue) + 1
      BY <1>1, <1>2
    <3>3. QED
      BY <1>2, <3>1, <3>2 DEF Queued
  <2>2. ASSUME Queued(y) PROVE Queued(y)'
    <3>1. PICK i \in DOMAIN queue : queue[i] = y
      BY <2>2 DEF Queued
    <3>2. i \in DOMAIN queue' /\ queue'[i] = y
      BY <1>1, <1>2, <3>1
    <3>3. QED
      BY <3>2 DEF Queued
  <2>3. ASSUME y = x PROVE Queued(y)'
    <3>1. Len(queue) + 1 \in DOMAIN queue' /\ queue'[Len(queue) + 1] = y
      BY <1>1, <1>2, <2>3
    <3>2. QED
      BY <3>1 DEF Queued
  <2>4. QED
    BY <2>1, <2>2, <2>3
<1>4. ASSUME Once, x \in Ops => ~Queued(x) PROVE Once'
  <2>1. ASSUME NEW i \in 1 .. Len(queue) + 1, NEW j \in 1 .. Len(queue) + 1,
               queue'[i] = queue'[j], queue'[i] \in Ops
        PROVE  i = j
    <3>1. CASE i \in 1 .. Len(queue) /\ j \in 1 .. Len(queue)
      BY <1>2, <1>4, <2>1, <3>1 DEF Once
    <3>2. CASE i \in 1 .. Len(queue) /\ j = Len(queue) + 1
      BY <1>2, <1>4, <2>1, <3>2 DEF Queued
    <3>3. CASE j \in 1 .. Len(queue) /\ i = Len(queue) + 1
      BY <1>2, <1>4, <2>1, <3>3 DEF Queued
    <3>4. QED
      BY <1>1, <2>1, <3>1, <3>2, <3>3
  <2>2. QED
    BY <1>2, <2>1 DEF Once
<1>5. QED
  BY <1>3, <1>4

\* The first command leaves the queue.
LEMMA Leaves ==
  ASSUME TypeClient, queue # <<>>, queue' = Tail(queue), NEW h, h = Head(queue)
  PROVE  /\ \A y \in Commands : Queued(y)' => Queued(y)
         /\ Queued(h)
         /\ Once => Once' /\ (h \in Ops => ~Queued(h)')
<1>1. queue \in Seq(Commands) /\ Len(queue) \in Nat /\ Len(queue) > 0
  BY DEF TypeClient
<1>2. /\ Len(queue') = Len(queue) - 1 /\ DOMAIN queue' = 1 .. Len(queue) - 1
      /\ DOMAIN queue = 1 .. Len(queue) /\ Head(queue) = queue[1]
      /\ \A i \in 1 .. Len(queue) - 1 : queue'[i] = queue[i + 1]
  BY <1>1
<1>3. \A i \in 1 .. Len(queue) - 1 : i + 1 \in 1 .. Len(queue) /\ i + 1 # 1
  BY <1>1
<1>4. 1 \in 1 .. Len(queue)
  BY <1>1
<1>5. \A y \in Commands : Queued(y)' => Queued(y)
  BY <1>2, <1>3 DEF Queued
<1>6. Queued(h)
  BY <1>2, <1>4 DEF Queued
<1>7. ASSUME Once PROVE Once'
  <2>1. ASSUME NEW i \in 1 .. Len(queue) - 1, NEW j \in 1 .. Len(queue) - 1,
               queue'[i] = queue'[j], queue'[i] \in Ops
        PROVE  i = j
    <3>1. queue[i + 1] = queue[j + 1] /\ queue[i + 1] \in Ops
      BY <1>2, <2>1
    <3>2. i + 1 = j + 1
      BY <1>2, <1>3, <1>7, <3>1 DEF Once
    <3>3. QED
      BY <1>1, <3>2
  <2>2. QED
    BY <1>2, <2>1 DEF Once
<1>8. ASSUME Once, h \in Ops, Queued(h)' PROVE FALSE
  <2>1. PICK i \in 1 .. Len(queue) - 1 : queue'[i] = h
    BY <1>2, <1>8 DEF Queued
  <2>2. queue[i + 1] = queue[1] /\ queue[1] \in Ops
    BY <1>2, <1>8, <2>1
  <2>3. i + 1 = 1
    BY <1>2, <1>3, <1>4, <1>8, <2>2 DEF Once
  <2>4. QED
    BY <1>3, <2>3
<1>9. QED
  BY <1>5, <1>6, <1>7, <1>8

\* An attempt of an operation that waits for nobody gives it its turn.
LEMMA TurnsAttempt ==
  ASSUME TypeClient, Turns, NEW w \in Ops, NEW call, Attempt(w, call), pc[w] # "queued",
         UNCHANGED <<worker, running>>
  PROVE  Turns'
<1>1. queue' = Append(queue, w) /\ pc' = [pc EXCEPT ![w] = "queued"] /\ w \in Commands
  BY DEF Attempt, Commands
<1>2. ~Queued(w) /\ Once
  BY DEF Turns
<1>3. Once' /\ \A y \in Commands : Queued(y)' <=> Queued(y) \/ y = w
  BY <1>1, <1>2, Joins
<1>4. \A x \in Ops : pc'[x] = (IF x = w THEN "queued" ELSE pc[x])
  BY <1>1 DEF TypeClient
<1>5. \A x \in Ops : Queued(x)' => pc'[x] = "queued"
  BY <1>3, <1>4 DEF Turns, Commands
<1>6. ASSUME worker = "retire"
      PROVE  \E x \in Ops : running' = {x} /\ pc'[x] = "queued" /\ ~Queued(x)'
  <2>1. PICK x \in Ops : running = {x} /\ pc[x] = "queued" /\ ~Queued(x)
    BY <1>6 DEF Turns
  <2>2. x # w
    BY <2>1
  <2>3. QED
    BY <1>3, <1>4, <2>1, <2>2 DEF Commands
<1>7. QED
  BY <1>3, <1>5, <1>6 DEF Turns

\* An operation that leaves the queue alone, but for the closing of its channel,
\* takes nobody's turn.
LEMMA TurnsLeft ==
  ASSUME TypeClient, Turns, UNCHANGED <<worker, running>>,
         \A x \in Ops : pc[x] = "queued" => pc'[x] = "queued",
         queue' = queue \/ \E c \in Channels : queue' = Append(queue, <<c, "close">>)
  PROVE  Turns'
<1>1. Once' /\ \A y \in Ops : Queued(y)' <=> Queued(y)
  <2>1. CASE queue' = queue
    BY <2>1 DEF Once, Queued, Turns
  <2>2. ASSUME NEW c \in Channels, queue' = Append(queue, <<c, "close">>)
        PROVE  Once' /\ \A y \in Ops : Queued(y)' <=> Queued(y)
    <3>1. <<c, "close">> \in Commands /\ <<c, "close">> \notin Ops
      BY OpsOf DEF Commands
    <3>2. QED
      BY <2>2, <3>1, Joins DEF Turns, Commands
  <2>3. QED
    BY <2>1, <2>2
<1>2. \A x \in Ops : Queued(x)' => pc'[x] = "queued"
  BY <1>1 DEF Turns
<1>3. ASSUME worker = "retire"
      PROVE  \E x \in Ops : running' = {x} /\ pc'[x] = "queued" /\ ~Queued(x)'
  BY <1>1, <1>3 DEF Turns
<1>4. QED
  BY <1>1, <1>2, <1>3 DEF Turns

\* A coroutine that goes on is resumed, woken or ended when it is not in the queue.
LEMMA TurnsDispatch ==
  ASSUME TypeClient, Turns,
         \/ \E w \in Ops : Resume(w) \/ Throw(w) \/ Wake(w) \/ Cancel(w)
         \/ \E c \in Channels : Open(c) \/ Read(c) \/ Write(c) \/ Close(c),
         \A c \in Channels : conn[c] = "new" => pc[Reader(c)] = "idle"
  PROVE  Turns'
<1>1. ASSUME NEW w \in Ops, Finish(w, w[1], TRUE) \/ Finish(w, w[1], FALSE), pc[w] # "queued",
             UNCHANGED <<worker, running>>
      PROVE  Turns'
  <2>1. pc' = [pc EXCEPT ![w] = "idle"] /\ w[1] \in Channels
    BY <1>1, OpsOf DEF Finish
  <2>2. queue' = queue \/ queue' = Append(queue, <<w[1], "close">>)
    BY <1>1 DEF Finish
  <2>3. \A x \in Ops : pc[x] = "queued" => pc'[x] = "queued"
    BY <1>1, <2>1 DEF TypeClient
  <2>4. QED
    BY <1>1, <2>1, <2>2, <2>3, TurnsLeft
<1>2. ASSUME NEW w \in Ops, Resume(w) PROVE Turns'
  <2>1. pc[w] = "ready" /\ UNCHANGED <<worker, running>>
    BY <1>2 DEF Resume
  <2>2. CASE \E call : Attempt(w, call)
    BY <2>1, <2>2, TurnsAttempt
  <2>3. CASE Finish(w, w[1], FALSE)
    BY <1>1, <2>1, <2>3
  <2>4. CASE pc' = [pc EXCEPT ![w] = "waiting"] /\ queue' = queue
    <3>1. \A x \in Ops : pc[x] = "queued" => pc'[x] = "queued"
      BY <2>1, <2>4 DEF TypeClient
    <3>2. QED
      BY <2>1, <2>4, <3>1, TurnsLeft
  <2>5. QED
    BY <1>2, <2>2, <2>3, <2>4 DEF Resume
<1>3. ASSUME NEW w \in Ops, Throw(w) PROVE Turns'
  BY <1>1, <1>3 DEF Throw
<1>4. ASSUME NEW w \in Ops, Wake(w) PROVE Turns'
  BY <1>4, TurnsAttempt DEF Wake
<1>5. ASSUME NEW w \in Ops, Cancel(w) PROVE Turns'
  <2>1. CASE pc[w] = "waiting"
    BY <1>1, <1>5, <2>1 DEF Cancel
  <2>2. CASE pc[w] # "waiting"
    <3>1. UNCHANGED <<pc, queue, worker, running>>
      BY <1>5, <2>2 DEF Cancel
    <3>2. QED
      BY <3>1, TurnsLeft
  <2>3. QED
    BY <2>1, <2>2
<1>6. ASSUME NEW c \in Channels, Open(c) \/ Read(c) \/ Write(c) PROVE Turns'
  <2>1. \E w \in Ops : \E call : Attempt(w, call) /\ pc[w] # "queued" /\ UNCHANGED <<worker, running>>
    BY <1>6, OpsOf DEF Open, Read, Write
  <2>2. QED
    BY <2>1, TurnsAttempt
<1>7. ASSUME NEW c \in Channels, Close(c) PROVE Turns'
  <2>1. queue' = Append(queue, <<c, "close">>) /\ UNCHANGED <<pc, worker, running>>
    BY <1>7 DEF Close
  <2>2. QED
    BY <2>1, TurnsLeft
<1>8. QED
  BY <1>2, <1>3, <1>4, <1>5, <1>6, <1>7

\* The worker takes one command in its hand and gives it back before the next.
LEMMA TurnsWorker ==
  ASSUME TypeClient, Turns, Worker
  PROVE  Turns'
<1>1. CASE CloseCommand
  <2>1. queue # <<>> /\ queue' = Tail(queue) /\ UNCHANGED <<pc, running>>
        /\ worker = "take" /\ worker' = "notify"
    BY <1>1 DEF CloseCommand, client
  <2>2. Once' /\ \A y \in Commands : Queued(y)' => Queued(y)
    BY <2>1, Leaves DEF Turns
  <2>3. QED
    BY <2>1, <2>2 DEF Turns, Commands
<1>2. ASSUME NEW w \in Ops, CallCommand(w) PROVE Turns'
  <2>1. queue # <<>> /\ queue' = Tail(queue) /\ UNCHANGED pc /\ running' = {w}
        /\ worker' = "retire" /\ w = Head(queue)
    BY <1>2 DEF CallCommand, client
  <2>2. Once' /\ Queued(w) /\ ~Queued(w)' /\ \A y \in Commands : Queued(y)' => Queued(y)
    BY <2>1, Leaves DEF Turns
  <2>3. pc[w] = "queued"
    BY <2>2 DEF Turns
  <2>4. QED
    BY <2>1, <2>2, <2>3 DEF Turns, Commands
<1>3. CASE Retire
  <2>1. PICK w \in Ops : running = {w} /\ ~Queued(w)
    BY <1>3 DEF Retire, Turns
  <2>2. queue' = queue /\ running' = {} /\ worker' = "notify"
        /\ \A x \in Ops : pc'[x] = IF x = w THEN "ready" ELSE pc[x]
    BY <1>3, <2>1 DEF Retire
  <2>3. Once' /\ \A y \in Ops : Queued(y)' <=> Queued(y)
    BY <2>2 DEF Once, Queued, Turns
  <2>4. QED
    BY <2>1, <2>2, <2>3 DEF Turns
<1>4. CASE NotifyProgress
  <2>1. UNCHANGED <<pc, queue>> /\ worker' = "take" /\ running' = {}
    BY <1>4 DEF NotifyProgress, client
  <2>2. QED
    BY <2>1 DEF Turns, Once, Queued
<1>5. CASE Stop
  <2>1. UNCHANGED <<pc, queue, running>> /\ worker' = "ended" /\ worker = "take"
    BY <1>5 DEF Stop, Drained, client
  <2>2. QED
    BY <2>1 DEF Turns, Once, Queued
<1>6. QED
  BY <1>1, <1>2, <1>3, <1>4, <1>5, ExecuteCases DEF Worker

-----------------------------------------------------------------------------
(* Shared: the transport and its owners.                                    *)

\* Nobody who goes on is left when the transport stops.
LEMMA SharedDispatch ==
  ASSUME TypeClient, Shared,
         \/ \E w \in Ops : Resume(w) \/ Throw(w) \/ Wake(w) \/ Cancel(w)
         \/ \E c \in Channels : Open(c) \/ Read(c) \/ Write(c) \/ Close(c)
  PROVE  Shared'
<1>1. UNCHANGED worker
  BY DEF Resume, Throw, Wake, Cancel, Open, Read, Write, Close
<1>2. Owners # {}
  <2>1. ASSUME NEW w \in Ops, pc[w] # "idle" PROVE w \in Owners
    BY <2>1 DEF Owners
  <2>2. ASSUME NEW c \in Channels, conn[c] # "closed" PROVE c \in Owners
    BY <2>2 DEF Owners
  <2>3. (\E w \in Ops : pc[w] # "idle") \/ (\E c \in Channels : conn[c] # "closed")
    BY DEF Resume, Throw, Wake, Cancel, Open, Read, Write, Close
  <2>4. QED
    BY <2>1, <2>2, <2>3
<1>3. ~stopping /\ worker # "ended"
  BY <1>2 DEF Shared
<1>4. Share \/ stopping' = stopping
  BY DEF Resume, Throw, Wake, Cancel, Open, Read, Write, Close
<1>5. stopping' => Owners' = {}
  BY <1>3, <1>4 DEF Share, TypeClient
<1>6. QED
  BY <1>1, <1>3, <1>5 DEF Shared

\* The worker ends when nobody shares the transport and nothing is queued.
LEMMA SharedWorker ==
  ASSUME TypeClient, Turns, Shared, Worker
  PROVE  Shared'
<1>1. CASE CloseCommand
  <2>1. UNCHANGED <<conn, pc, running, stopping>> /\ worker' = "notify"
    BY <1>1 DEF CloseCommand, client
  <2>2. Owners' = Owners
    BY <2>1 DEF Owners
  <2>3. QED
    BY <2>1, <2>2 DEF Shared
<1>2. ASSUME NEW w \in Ops, CallCommand(w) PROVE Shared'
  <2>1. UNCHANGED stopping /\ worker' = "retire" /\ queue # <<>> /\ queue' = Tail(queue)
        /\ w = Head(queue)
    BY <1>2 DEF CallCommand
  <2>2. Queued(w)
    BY <2>1, Leaves
  <2>3. w \in Owners
    BY <2>2 DEF Turns, Owners
  <2>4. QED
    BY <2>1, <2>3 DEF Shared
<1>3. CASE Retire
  <2>1. PICK w \in Ops : running = {w}
    BY <1>3 DEF Retire, Turns
  <2>2. ~stopping
    BY <2>1 DEF Shared, Owners
  <2>3. stopping' => Owners' = {}
    BY <1>3, <2>2 DEF Retire, Share, TypeClient
  <2>4. worker' = "notify"
    BY <1>3 DEF Retire
  <2>5. QED
    BY <2>3, <2>4 DEF Shared
<1>4. CASE NotifyProgress
  <2>1. UNCHANGED <<conn, pc, stopping>> /\ worker' = "take" /\ running' = {} /\ running = {}
    BY <1>4 DEF NotifyProgress, client, Turns
  <2>2. Owners' = Owners
    BY <2>1 DEF Owners
  <2>3. QED
    BY <2>1, <2>2 DEF Shared
<1>5. CASE Stop
  <2>1. UNCHANGED <<conn, pc, running, stopping, queue>> /\ stopping /\ queue = <<>>
    BY <1>5 DEF Stop, Drained, client
  <2>2. Owners' = Owners
    BY <2>1 DEF Owners
  <2>3. \A c \in Channels : libssh'[c].state # "listed"
    <3>1. ASSUME NEW c \in Channels PROVE libssh'[c].state # "listed"
      <4>1. libssh'[c] = [libssh[c] EXCEPT !.buffer = <<>>,
                                           !.state = IF @ = "listed" THEN "freed" ELSE @]
        BY <1>5 DEF Stop
      <4>2. QED
        BY <4>1
    <3>2. QED
      BY <3>1
  <2>4. QED
    BY <2>1, <2>2, <2>3 DEF Shared
<1>6. QED
  BY <1>1, <1>2, <1>3, <1>4, <1>5, ExecuteCases DEF Worker

-----------------------------------------------------------------------------
(* Results.                                                                 *)

\* An attempt changes the operation that makes it, and queues it.
LEMMA AttemptDoes ==
  ASSUME TypeClient, NEW w \in Ops, NEW call, Attempt(w, call)
  PROVE  /\ pc'[w] = "queued" /\ stage'[w] = call /\ result'[w] = Nothing /\ wake'[w] = FALSE
         /\ \A x \in Ops : x # w => /\ pc'[x] = pc[x] /\ stage'[x] = stage[x]
                                    /\ result'[x] = result[x] /\ wake'[x] = wake[x]
         /\ \A y \in Commands : Queued(y)' <=> Queued(y) \/ y = w
<1>1. queue' = Append(queue, w) /\ w \in Commands
  BY DEF Attempt, Commands
<1>2. \A y \in Commands : Queued(y)' <=> Queued(y) \/ y = w
  BY <1>1, Joins
<1>3. QED
  BY <1>2 DEF Attempt, TypeClient

\* An operation that ends is idle; only the connection it was to open changes, and
\* only the failed opening has its channel closed.
LEMMA FinishDoes ==
  ASSUME TypeClient, NEW w \in Ops, NEW failed \in BOOLEAN, Finish(w, w[1], failed)
  PROVE  /\ pc'[w] = "idle" /\ \A x \in Ops : x # w => pc'[x] = pc[x]
         /\ conn'[w[1]] = IF conn[w[1]] # "opening" THEN conn[w[1]]
                          ELSE IF failed THEN "closed" ELSE "open"
         /\ \A c \in Channels : c # w[1] => conn'[c] = conn[c]
         /\ UNCHANGED <<wake, stage, result>>
         /\ \A y \in Commands : Queued(y)' =>
              Queued(y) \/ (failed /\ stage[w] = "request" /\ y = <<w[1], "close">>)
<1>1. w[1] \in Channels
  BY OpsOf
<1>2. <<w[1], "close">> \in Commands
  BY <1>1 DEF Commands
<1>3. \A y \in Commands : Queued(y)' =>
         Queued(y) \/ (failed /\ stage[w] = "request" /\ y = <<w[1], "close">>)
  <2>1. CASE failed /\ stage[w] = "request"
    <3>1. queue' = Append(queue, <<w[1], "close">>)
      BY <2>1 DEF Finish
    <3>2. QED
      BY <1>2, <2>1, <3>1, Joins
  <2>2. CASE ~(failed /\ stage[w] = "request")
    <3>1. queue' = queue
      BY <2>2 DEF Finish
    <3>2. QED
      BY <3>1 DEF Queued
  <2>3. QED
    BY <2>1, <2>2
<1>4. QED
  BY <1>1, <1>3 DEF Finish, TypeClient

\* A result is there from the call to the next attempt.
LEMMA ReturnsAttempt ==
  ASSUME TypeClient, Returns, Turns, NEW w \in Ops, NEW call, Attempt(w, call), pc[w] # "queued",
         UNCHANGED running,
         w[2] = "in" => call \in {"alloc", "request", "read"},
         w[2] = "out" => call \in {"write", "flush"}
  PROVE  Returns'
<1>1. w \notin running
  BY DEF Turns
<1>2. Returned(w)'
  <2>1. pc'[w] = "queued" /\ stage'[w] = call /\ result'[w] = Nothing
    BY AttemptDoes
  <2>2. Nothing.kind = "none" /\ Nothing.bytes = <<>> /\ Nothing.count = 0
    BY DEF Nothing
  <2>3. Nothing' = Nothing
    BY DEF Nothing
  <2>4. QED
    BY <1>1, <2>1, <2>2, <2>3 DEF Returned, KindOK
<1>3. ASSUME NEW x \in Ops, x # w PROVE Returned(x)'
  <2>1. pc'[x] = pc[x] /\ stage'[x] = stage[x] /\ result'[x] = result[x] /\ running' = running
    BY <1>3, AttemptDoes
  <2>2. Returned(x) /\ Nothing' = Nothing
    BY DEF Returns, Nothing
  <2>3. QED
    BY <2>1, <2>2 DEF Returned
<1>4. QED
  BY <1>2, <1>3 DEF Returns

\* An operation that ends or waits leaves its result.
LEMMA ReturnsLeft ==
  ASSUME TypeClient, Returns, UNCHANGED <<stage, result, running>>,
         \A x \in Ops : pc'[x] = pc[x] \/ pc'[x] = "idle"
                        \/ (pc'[x] = "waiting" /\ result[x].kind = "again")
  PROVE  Returns'
<1>1. ASSUME NEW x \in Ops PROVE Returned(x)'
  <2>1. Returned(x) /\ Nothing' = Nothing
    BY DEF Returns, Nothing
  <2>2. x \in running => result[x].kind # "none"
    BY <2>1 DEF Returned
  <2>3. QED
    BY <2>1, <2>2 DEF Returned
<1>2. QED
  BY <1>1 DEF Returns

\* Whoever goes on uses a result as the call that made it meant it.
LEMMA ReturnsDispatch ==
  ASSUME TypeClient, Returns, Turns,
         \/ \E w \in Ops : Resume(w) \/ Throw(w) \/ Wake(w) \/ Cancel(w)
         \/ \E c \in Channels : Open(c) \/ Read(c) \/ Write(c) \/ Close(c),
         \A c \in Channels : conn[c] = "new" => pc[Reader(c)] = "idle"
  PROVE  Returns'
<1>1. ASSUME NEW w \in Ops, NEW failed \in BOOLEAN, Finish(w, w[1], failed), UNCHANGED running
      PROVE  Returns'
  BY <1>1, FinishDoes, ReturnsLeft
<1>2. ASSUME NEW w \in Ops, Resume(w) PROVE Returns'
  <2>1. pc[w] = "ready" /\ UNCHANGED <<worker, running>> /\ Returned(w)
    BY <1>2 DEF Resume, Returns
  <2>2. w[2] \in {"in", "out"}
    BY OpsOf
  <2>3. CASE result[w].kind = "wrote" /\ \E call \in {"write", "flush"} : Attempt(w, call)
    <3>1. w[2] = "out"
      BY <2>1, <2>2, <2>3 DEF Returned, KindOK
    <3>2. QED
      BY <2>1, <2>3, <3>1, ReturnsAttempt
  <2>4. CASE stage[w] = "alloc" /\ Attempt(w, "request")
    <3>1. w[2] = "in"
      BY <2>1, <2>2, <2>4 DEF Returned
    <3>2. QED
      BY <2>1, <2>4, <3>1, ReturnsAttempt
  <2>5. CASE Finish(w, w[1], FALSE)
    BY <1>1, <2>1, <2>5
  <2>6. CASE /\ pc' = [pc EXCEPT ![w] = "waiting"] /\ result[w].kind = "again"
             /\ UNCHANGED <<stage, result>>
    <3>1. \A x \in Ops : pc'[x] = IF x = w THEN "waiting" ELSE pc[x]
      BY <2>6 DEF TypeClient
    <3>2. QED
      BY <2>1, <2>6, <3>1, ReturnsLeft
  <2>7. QED
    BY <1>2, <2>3, <2>4, <2>5, <2>6 DEF Resume
<1>3. ASSUME NEW w \in Ops, Throw(w) PROVE Returns'
  BY <1>1, <1>3 DEF Throw
<1>4. ASSUME NEW w \in Ops, Wake(w) PROVE Returns'
  <2>1. Attempt(w, stage[w]) /\ pc[w] = "waiting" /\ UNCHANGED running /\ Returned(w)
    BY <1>4 DEF Wake, Returns
  <2>2. QED
    BY <2>1, ReturnsAttempt DEF Returned
<1>5. ASSUME NEW w \in Ops, Cancel(w) PROVE Returns'
  <2>1. CASE pc[w] = "waiting"
    BY <1>1, <1>5, <2>1 DEF Cancel
  <2>2. CASE pc[w] # "waiting"
    <3>1. UNCHANGED <<pc, stage, result, running>>
      BY <1>5, <2>2 DEF Cancel
    <3>2. QED
      BY <3>1, ReturnsLeft
  <2>3. QED
    BY <2>1, <2>2
<1>6. ASSUME NEW c \in Channels, Open(c) PROVE Returns'
  BY <1>6, OpsOf, ReturnsAttempt DEF Open
<1>7. ASSUME NEW c \in Channels, Read(c) PROVE Returns'
  BY <1>7, OpsOf, ReturnsAttempt DEF Read
<1>8. ASSUME NEW c \in Channels, Write(c) PROVE Returns'
  BY <1>8, OpsOf, ReturnsAttempt DEF Write
<1>9. ASSUME NEW c \in Channels, Close(c) PROVE Returns'
  <2>1. UNCHANGED <<pc, stage, result, running>>
    BY <1>9 DEF Close
  <2>2. QED
    BY <2>1, ReturnsLeft
<1>10. QED
  BY <1>2, <1>3, <1>4, <1>5, <1>6, <1>7, <1>8, <1>9

\* What a call returns.
LEMMA AnswerReturns ==
  ASSUME TypeClient, NEW w \in Ops, NEW l \in Lib, Answer(w, l), stage[w] # "alloc",
         Fits(w, l) \in Nat
  PROVE  /\ \A x \in Ops : x # w => result'[x] = result[x]
         /\ result'[w].kind # "none" /\ KindOK(stage[w], result'[w].kind)
         /\ result'[w].kind # "data" => result'[w].bytes = <<>>
         /\ result'[w].kind \notin {"wrote", "failed"} => result'[w].count = 0
         /\ result'[w].polls = (output' # <<>>)
<1> DEFINE r == result'[w]
<1>1. ASSUME NEW kind, NEW bytes, NEW count, Return(w, kind, bytes, count)
      PROVE  /\ r.kind = kind /\ r.bytes = bytes /\ r.count = count /\ r.polls = (output' # <<>>)
             /\ \A x \in Ops : x # w => result'[x] = result[x]
  <2> DEFINE v == [kind |-> kind, bytes |-> bytes, count |-> count, polls |-> output' # <<>>]
  <2>1. result' = [result EXCEPT ![w] = v]
    BY <1>1 DEF Return
  <2>2. v.kind = kind /\ v.bytes = bytes /\ v.count = count /\ v.polls = (output' # <<>>)
    OBVIOUS
  <2> HIDE DEF v
  <2>3. r = v /\ \A x \in Ops : x # w => result'[x] = result[x]
    BY <2>1 DEF TypeClient
  <2>4. QED
    BY <2>2, <2>3
<1> HIDE DEF r
<1>2. CASE stage[w] = "request"
  <2>1. Return(w, IF l[w[1]].opened THEN "ok" ELSE IF connected' THEN "again" ELSE "failed", <<>>, 0)
    BY <1>2 DEF Answer
  <2>2. QED
    BY <1>1, <1>2, <2>1 DEF KindOK, r
<1>3. CASE stage[w] = "read" /\ ReadReturns(l[w[1]], connected') = "data"
  <2>1. Return(w, "data", l[w[1]].buffer, 0)
    BY <1>3 DEF Answer
  <2>2. QED
    BY <1>1, <1>3, <2>1 DEF KindOK, r
<1>4. CASE stage[w] = "read" /\ ReadReturns(l[w[1]], connected') # "data"
  <2>1. Return(w, ReadReturns(l[w[1]], connected'), <<>>, 0)
    BY <1>4 DEF Answer
  <2>2. ReadReturns(l[w[1]], connected') \in {"eof", "again"}
    BY <1>4 DEF ReadReturns
  <2>3. QED
    BY <1>1, <1>4, <2>1, <2>2 DEF KindOK, r
<1>5. CASE stage[w] = "write"
  <2>1. Return(w, IF ~connected' THEN "failed" ELSE IF Fits(w, l) > 0 THEN "wrote" ELSE "again",
               <<>>, Fits(w, l))
    BY <1>5 DEF Answer
  <2>2. QED
    BY <1>1, <1>5, <2>1 DEF KindOK, r
<1>6. CASE stage[w] = "flush"
  <2>1. Return(w, IF ~connected' THEN "failed" ELSE IF output' = <<>> THEN "ok" ELSE "again", <<>>, 0)
    BY <1>6 DEF Answer
  <2>2. QED
    BY <1>1, <1>6, <2>1 DEF KindOK, r
<1>7. QED
  BY <1>2, <1>3, <1>4, <1>5, <1>6 DEF TypeClient

\* The same of the whole call.
LEMMA CallReturns ==
  ASSUME TypeOK, Within, NEW w \in Ops, Call(w)
  PROVE  /\ \A x \in Ops : x # w => result'[x] = result[x]
         /\ result'[w].kind # "none" /\ KindOK(stage[w], result'[w].kind)
         /\ result'[w].kind # "data" => result'[w].bytes = <<>>
         /\ result'[w].kind \notin {"wrote", "failed"} => result'[w].count = 0
<1>1. TypeClient
  BY TypeParts
<1>2. CASE stage[w] = "alloc"
  <2>1. result' = [result EXCEPT ![w] = [kind |-> "ok", bytes |-> <<>>, count |-> 0, polls |-> FALSE]]
    BY <1>2 DEF Call, Alloc
  <2>2. QED
    BY <1>1, <1>2, <2>1 DEF TypeClient, KindOK
<1>3. CASE stage[w] # "alloc"
  <2>1. PICK n \in Nat : CallOf(w, n)
    BY <1>3, CallDoes
  <2>2. Answer(w, After[n]) /\ After[n] \in Lib
    BY <2>1 DEF CallOf
  <2>3. Fits(w, After[n]) \in Nat
    BY <2>2, FitsType DEF Within
  <2>4. QED
    BY <1>1, <1>3, <2>2, <2>3, AnswerReturns
<1>4. QED
  BY <1>2, <1>3

\* The worker keeps the results of the others.
LEMMA ReturnsWorker ==
  ASSUME TypeOK, Within, Returns, Turns, Worker
  PROVE  Returns'
<1>1. TypeClient /\ Nothing' = Nothing
  BY TypeParts DEF Nothing
<1>2. CASE CloseCommand
  <2>1. UNCHANGED <<pc, stage, result, running>>
    BY <1>2 DEF CloseCommand, client
  <2>2. QED
    BY <1>1, <2>1, ReturnsLeft
<1>3. ASSUME NEW w \in Ops, CallCommand(w) PROVE Returns'
  <2>1. UNCHANGED <<pc, stage>> /\ running' = {w} /\ running = {} /\ Call(w)
    BY <1>3 DEF CallCommand, client, Turns
  <2>2. pc[w] = "queued"
    <3>1. queue # <<>> /\ queue' = Tail(queue) /\ w = Head(queue)
      BY <1>3 DEF CallCommand
    <3>2. Queued(w)
      BY <1>1, <3>1, Leaves
    <3>3. QED
      BY <3>2 DEF Turns
  <2>3. /\ \A x \in Ops : x # w => result'[x] = result[x]
        /\ result'[w].kind # "none" /\ KindOK(stage[w], result'[w].kind)
        /\ result'[w].kind # "data" => result'[w].bytes = <<>>
        /\ result'[w].kind \notin {"wrote", "failed"} => result'[w].count = 0
    BY <2>1, CallReturns
  <2>4. Returned(w)'
    BY <2>1, <2>2, <2>3 DEF Returns, Returned
  <2>5. ASSUME NEW x \in Ops, x # w PROVE Returned(x)'
    BY <1>1, <2>1, <2>3, <2>5 DEF Returns, Returned
  <2>6. QED
    BY <2>4, <2>5 DEF Returns
<1>4. CASE Retire
  <2>1. PICK w \in Ops : running = {w}
    BY <1>4 DEF Retire, Turns
  <2>2. UNCHANGED <<stage, result>> /\ running' = {}
        /\ \A x \in Ops : pc'[x] = IF x = w THEN "ready" ELSE pc[x]
    BY <1>4, <2>1 DEF Retire
  <2>3. ASSUME NEW x \in Ops PROVE Returned(x)'
    BY <1>1, <2>1, <2>2 DEF Returns, Returned
  <2>4. QED
    BY <2>3 DEF Returns
<1>5. CASE NotifyProgress \/ Stop
  <2>1. UNCHANGED <<pc, stage, result, running>>
    BY <1>5 DEF NotifyProgress, Stop, client, Turns
  <2>2. QED
    BY <1>1, <2>1, ReturnsLeft
<1>6. QED
  BY <1>1, <1>2, <1>3, <1>4, <1>5, ExecuteCases DEF Worker

-----------------------------------------------------------------------------
(* The life of a connection.                                                *)

\* A channel whose connection, operations and packets are as they were.
LEMMA LifeFrame ==
  ASSUME NEW d \in Channels, Life(d), conn'[d] = conn[d],
         pc'[Reader(d)] = "idle" <=> pc[Reader(d)] = "idle",
         pc'[Writer(d)] = "idle" <=> pc[Writer(d)] = "idle",
         stage'[Reader(d)] = stage[Reader(d)],
         result'[Reader(d)].kind = result[Reader(d)].kind,
         result'[Writer(d)].kind = result[Writer(d)].kind,
         libssh'[d].state = libssh[d].state, libssh'[d].asked = libssh[d].asked,
         Queued(<<d, "close">>)' => Queued(<<d, "close">>),
         server'[d].replied => libssh[d].asked, server'[d].sent > 0 => server'[d].replied
  PROVE  Life(d)'
<1>1. Reader(d)' = Reader(d) /\ Writer(d)' = Writer(d)
  BY DEF Reader, Writer
<1>2. QED
  BY <1>1 DEF Life

\* An operation of one channel leaves the life of the others.
LEMMA LivesOthers ==
  ASSUME TypeClient, Lives, NEW c \in Channels,
         \A x \in Ops : x[1] # c => /\ pc'[x] = pc[x] /\ stage'[x] = stage[x]
                                    /\ result'[x] = result[x],
         \A d \in Channels : d # c => conn'[d] = conn[d],
         \A d \in Channels : d # c => (Queued(<<d, "close">>)' => Queued(<<d, "close">>)),
         UNCHANGED <<libssh, server>>, Life(c)'
  PROVE  Lives'
<1>1. ASSUME NEW d \in Channels, d # c PROVE Life(d)'
  <2>1. /\ Reader(d) \in Ops /\ Writer(d) \in Ops /\ Reader(d)[1] = d /\ Writer(d)[1] = d
    BY OpsOf
  <2>2. Life(d) /\ conn'[d] = conn[d] /\ (Queued(<<d, "close">>)' => Queued(<<d, "close">>))
    BY <1>1 DEF Lives
  <2>3. /\ pc'[Reader(d)] = pc[Reader(d)] /\ pc'[Writer(d)] = pc[Writer(d)]
        /\ stage'[Reader(d)] = stage[Reader(d)] /\ result'[Reader(d)] = result[Reader(d)]
        /\ result'[Writer(d)] = result[Writer(d)]
    BY <1>1, <2>1
  <2>4. server'[d].replied => libssh[d].asked
    BY <2>2 DEF Life
  <2>5. server'[d].sent > 0 => server'[d].replied
    BY <2>2 DEF Life
  <2>6. QED
    BY <2>2, <2>3, <2>4, <2>5, LifeFrame
<1>2. QED
  BY <1>1 DEF Lives

\* A channel's closing is not one of its operations.
LEMMA CloseNotOp ==
  \A c, d \in Channels, w \in Ops : /\ <<c, "close">> \in Commands /\ <<c, "close">> # w
                                    /\ w \in Commands
                                    /\ (<<c, "close">> = <<d, "close">> <=> c = d)
BY OpsOf DEF Commands, Ops

\* An attempt of the reader opens its connection or reads an open one; one of the
\* writer writes to an open one.
Proceeds(w, call) ==
  /\ w[2] = "in" => \/ /\ conn'[w[1]] = "opening" /\ call \in {"alloc", "request"}
                       /\ conn[w[1]] \in {"new", "opening"} /\ pc[Writer(w[1])] = "idle"
                       /\ result[Writer(w[1])].kind = "none"
                       /\ libssh[w[1]].state = IF call = "alloc" THEN "none" ELSE "listed"
                    \/ conn[w[1]] = "open" /\ conn'[w[1]] = "open" /\ call = "read"
  /\ w[2] = "out" => conn[w[1]] = "open" /\ conn'[w[1]] = "open"

\* An attempt of an operation of channel c.
LEMMA LivesAttempt ==
  ASSUME TypeClient, Lives, NEW w \in Ops, NEW call, Attempt(w, call), UNCHANGED <<libssh, server>>,
         \A d \in Channels : d # w[1] => conn'[d] = conn[d], Proceeds(w, call)
  PROVE  Lives'
<1>1. PICK c \in Channels : c = w[1]
  BY OpsOf
<1>2. /\ pc'[w] = "queued" /\ stage'[w] = call /\ result'[w] = Nothing
      /\ \A x \in Ops : x # w => /\ pc'[x] = pc[x] /\ stage'[x] = stage[x] /\ result'[x] = result[x]
      /\ \A y \in Commands : Queued(y)' <=> Queued(y) \/ y = w
  <2>1. pc'[w] = "queued" /\ stage'[w] = call /\ result'[w] = Nothing
    BY AttemptDoes
  <2>2. ASSUME NEW x \in Ops, x # w
        PROVE  pc'[x] = pc[x] /\ stage'[x] = stage[x] /\ result'[x] = result[x]
    BY <2>2, AttemptDoes
  <2>3. \A y \in Commands : Queued(y)' <=> Queued(y) \/ y = w
    BY AttemptDoes
  <2>4. QED
    BY <2>1, <2>2, <2>3
<1>3. \A d \in Channels : Queued(<<d, "close">>)' => Queued(<<d, "close">>)
  BY <1>2, CloseNotOp
<1>4. Nothing.kind = "none"
  BY DEF Nothing
<1>5. Life(c) /\ Reader(c)' = Reader(c) /\ Writer(c)' = Writer(c)
  BY DEF Lives, Reader, Writer
<1>6. Reader(c) \in Ops /\ Writer(c) \in Ops /\ Reader(c) # Writer(c)
  BY OpsOf
<1>7. Life(c)'
  <2>1. CASE w[2] = "in"
    <3>1. w = Reader(c)
      BY <1>1, <2>1, OpsOf
    <3>2. pc'[Writer(c)] = pc[Writer(c)] /\ result'[Writer(c)] = result[Writer(c)]
      BY <1>2, <1>6, <3>1
    <3>3. QED
      BY <1>1, <1>2, <1>3, <1>4, <1>5, <2>1, <3>1, <3>2 DEF Life, Proceeds
  <2>2. CASE w[2] = "out"
    <3>1. w = Writer(c)
      BY <1>1, <2>2, OpsOf
    <3>2. /\ pc'[Reader(c)] = pc[Reader(c)] /\ result'[Reader(c)] = result[Reader(c)]
          /\ stage'[Reader(c)] = stage[Reader(c)]
      BY <1>2, <1>6, <3>1
    <3>3. QED
      BY <1>1, <1>2, <1>3, <1>5, <2>2, <3>1, <3>2 DEF Life, Proceeds
  <2>3. QED
    BY <2>1, <2>2, OpsOf
<1>8. \A x \in Ops : x[1] # c => x # w
  BY <1>1
<1>9. QED
  BY <1>1, <1>2, <1>3, <1>7, <1>8, LivesOthers

\* The end of an operation of channel c.
LEMMA LivesFinish ==
  ASSUME TypeClient, Lives, Returns, NEW w \in Ops, NEW failed \in BOOLEAN, Finish(w, w[1], failed),
         pc[w] # "idle", failed \/ stage[w] # "alloc", UNCHANGED <<libssh, server>>
  PROVE  Lives'
<1>1. PICK c \in Channels : c = w[1]
  BY OpsOf
<1>2. /\ pc'[w] = "idle" /\ \A x \in Ops : x # w => pc'[x] = pc[x]
      /\ conn'[c] = IF conn[c] # "opening" THEN conn[c] ELSE IF failed THEN "closed" ELSE "open"
      /\ \A d \in Channels : d # c => conn'[d] = conn[d]
      /\ UNCHANGED <<wake, stage, result>>
      /\ \A y \in Commands : Queued(y)' =>
            Queued(y) \/ (failed /\ stage[w] = "request" /\ y = <<c, "close">>)
  BY <1>1, FinishDoes
<1>3. Life(c) /\ Reader(c)' = Reader(c) /\ Writer(c)' = Writer(c) /\ Returned(w)
  BY DEF Lives, Reader, Writer, Returns
<1>4. Reader(c) \in Ops /\ Writer(c) \in Ops /\ Reader(c) # Writer(c)
  BY OpsOf
<1>5. w = Reader(c) \/ w = Writer(c)
  BY <1>1, OpsOf
<1>6. \A d \in Channels : d # c => (Queued(<<d, "close">>)' => Queued(<<d, "close">>))
  <2>1. ASSUME NEW d \in Channels, d # c, Queued(<<d, "close">>)'
        PROVE  Queued(<<d, "close">>)
    <3>1. <<d, "close">> \in Commands /\ <<d, "close">> # <<c, "close">>
      BY <2>1, CloseNotOp
    <3>2. QED
      BY <1>2, <2>1, <3>1
  <2>2. QED
    BY <2>1
<1>7. Queued(<<c, "close">>)' => Queued(<<c, "close">>) \/ (failed /\ stage[w] = "request")
  BY <1>2, CloseNotOp
<1>8. Life(c)'
  <2>1. CASE conn[c] = "opening"
    <3>1. w = Reader(c) /\ pc'[Writer(c)] = "idle"
      BY <1>2, <1>3, <1>4, <1>5, <2>1 DEF Life
    <3>2. QED
      BY <1>2, <1>3, <1>7, <2>1, <3>1 DEF Life
  <2>2. CASE conn[c] = "open"
    <3>1. stage[w] # "request"
      <4>1. w = Writer(c) => w[2] = "out"
        BY OpsOf
      <4>2. QED
        BY <1>3, <1>5, <2>2, <4>1 DEF Life, Returned
    <3>2. pc'[Reader(c)] = pc[Reader(c)] \/ pc'[Reader(c)] = "idle"
      BY <1>2, <1>4
    <3>3. QED
      BY <1>2, <1>3, <1>7, <2>2, <3>1, <3>2 DEF Life
  <2>3. conn[c] \in {"opening", "open"}
    BY <1>3, <1>5 DEF Life, TypeClient
  <2>4. QED
    BY <2>1, <2>2, <2>3
<1>9. \A x \in Ops : x[1] # c => x # w
  BY <1>1
<1>10. QED
  BY <1>2, <1>6, <1>8, <1>9, LivesOthers

\* A connection lives as its operations go on.
LEMMA LivesDispatch ==
  ASSUME TypeClient, Lives, Returns, UNCHANGED <<session, server>>,
         \/ \E w \in Ops : Resume(w) \/ Throw(w) \/ Wake(w) \/ Cancel(w)
         \/ \E c \in Channels : Open(c) \/ Read(c) \/ Write(c) \/ Close(c)
  PROVE  Lives'
<1>1. UNCHANGED <<libssh, server>>
  BY DEF session
<1>2. ASSUME \A x \in Ops : pc'[x] = "idle" <=> pc[x] = "idle",
             UNCHANGED <<stage, result, conn, queue>>
      PROVE  Lives'
  <2>1. ASSUME NEW d \in Channels PROVE Life(d)'
    <3>1. Life(d) /\ Reader(d) \in Ops /\ Writer(d) \in Ops
      BY OpsOf DEF Lives
    <3>2. Queued(<<d, "close">>)' => Queued(<<d, "close">>)
      BY <1>2 DEF Queued
    <3>3. server'[d].replied => libssh[d].asked
      BY <1>1, <3>1 DEF Life
    <3>4. server'[d].sent > 0 => server'[d].replied
      BY <1>1, <3>1 DEF Life
    <3>5. QED
      BY <1>1, <1>2, <3>1, <3>2, <3>3, <3>4, LifeFrame
  <2>2. QED
    BY <2>1 DEF Lives
<1>3. ASSUME NEW w \in Ops, pc[w] # "idle" PROVE /\ Life(w[1]) /\ Returned(w) /\ w[1] \in Channels
                                                 /\ w = Reader(w[1]) \/ w = Writer(w[1])
  BY OpsOf DEF Lives, Returns
<1>4. ASSUME NEW w \in Ops, pc[w] # "idle", w[2] = "out" PROVE conn[w[1]] = "open"
  <2>1. w = Writer(w[1]) /\ Life(w[1]) /\ conn[w[1]] \in {"new", "opening", "open", "closed"}
    BY <1>3, <1>4, OpsOf DEF TypeClient
  <2>2. QED
    BY <1>4, <2>1 DEF Life
<1>5. ASSUME NEW w \in Ops, Resume(w) PROVE Lives'
  <2>1. pc[w] = "ready" /\ Life(w[1]) /\ Returned(w) /\ w[1] \in Channels /\ w[2] \in {"in", "out"}
    BY <1>3, <1>5, OpsOf DEF Resume
  <2>2. CASE result[w].kind = "wrote" /\ UNCHANGED conn /\ \E call \in {"write", "flush"} : Attempt(w, call)
    <3>1. w[2] = "out"
      BY <2>1, <2>2 DEF Returned, KindOK
    <3>2. conn[w[1]] = "open"
      BY <1>4, <2>1, <3>1
    <3>3. QED
      BY <1>1, <2>2, <3>1, <3>2, LivesAttempt DEF Proceeds
  <2>3. CASE result[w].kind = "ok" /\ stage[w] = "alloc" /\ Attempt(w, "request") /\ UNCHANGED conn
    <3>1. w[2] = "in" /\ w = Reader(w[1])
      BY <2>1, <2>3, OpsOf DEF Returned
    <3>2. conn[w[1]] = "opening"
      <4>1. conn[w[1]] \in {"new", "opening", "open", "closed"}
        BY <2>1 DEF TypeClient
      <4>2. QED
        BY <2>1, <2>3, <3>1, <4>1 DEF Life
    <3>3. /\ pc[Writer(w[1])] = "idle" /\ result[Writer(w[1])].kind = "none"
          /\ libssh[w[1]].state = "listed"
      BY <2>1, <2>3, <3>1, <3>2 DEF Life
    <3>4. QED
      BY <1>1, <2>3, <3>1, <3>2, <3>3, LivesAttempt DEF Proceeds
  <2>4. CASE Finish(w, w[1], FALSE) /\ stage[w] # "alloc"
    BY <1>1, <2>1, <2>4, LivesFinish
  <2>5. CASE pc' = [pc EXCEPT ![w] = "waiting"] /\ UNCHANGED <<queue, stage, conn, result>>
    <3>1. \A x \in Ops : pc'[x] = "idle" <=> pc[x] = "idle"
      BY <2>1, <2>5 DEF TypeClient
    <3>2. QED
      BY <1>2, <2>5, <3>1
  <2>6. result[w].kind = "wrote" => stage[w] # "alloc"
    BY <2>1 DEF Returned, KindOK
  <2>7. QED
    BY <1>5, <2>2, <2>3, <2>4, <2>5, <2>6 DEF Resume
<1>6. ASSUME NEW w \in Ops, Throw(w) PROVE Lives'
  BY <1>1, <1>6, LivesFinish DEF Throw
<1>7. ASSUME NEW w \in Ops, Wake(w) PROVE Lives'
  <2>1. /\ pc[w] = "waiting" /\ Life(w[1]) /\ Returned(w) /\ w[1] \in Channels /\ w[2] \in {"in", "out"}
        /\ Attempt(w, stage[w]) /\ UNCHANGED conn
    BY <1>3, <1>7, OpsOf DEF Wake
  <2>2. CASE w[2] = "out"
    <3>1. conn[w[1]] = "open"
      BY <1>4, <2>1, <2>2
    <3>2. QED
      BY <1>1, <2>1, <2>2, <3>1, LivesAttempt DEF Proceeds
  <2>3. CASE w[2] = "in"
    <3>1. w = Reader(w[1]) /\ stage[w] # "alloc" /\ result[w].kind = "again"
      BY <2>1, <2>3, OpsOf DEF Returned, KindOK
    <3>2. conn[w[1]] \in {"new", "opening", "open", "closed"}
      BY <2>1 DEF TypeClient
    <3>3. \/ /\ conn[w[1]] = "opening" /\ stage[w] = "request" /\ pc[Writer(w[1])] = "idle"
             /\ result[Writer(w[1])].kind = "none" /\ libssh[w[1]].state = "listed"
          \/ conn[w[1]] = "open" /\ stage[w] = "read"
      BY <2>1, <3>1, <3>2 DEF Life
    <3>4. QED
      BY <1>1, <2>1, <2>3, <3>3, LivesAttempt DEF Proceeds
  <2>4. QED
    BY <2>1, <2>2, <2>3
<1>8. ASSUME NEW w \in Ops, Cancel(w) PROVE Lives'
  <2>1. CASE pc[w] = "waiting"
    BY <1>1, <1>8, <2>1, LivesFinish DEF Cancel
  <2>2. CASE pc[w] # "waiting"
    <3>1. UNCHANGED <<pc, stage, result, conn, queue>>
      BY <1>8, <2>2 DEF Cancel
    <3>2. QED
      BY <1>2, <3>1
  <2>3. QED
    BY <2>1, <2>2
<1>9. ASSUME NEW c \in Channels, Open(c) PROVE Lives'
  <2>1. /\ Attempt(Reader(c), "alloc") /\ conn[c] = "new" /\ conn' = [conn EXCEPT ![c] = "opening"]
        /\ Reader(c) \in Ops /\ Reader(c)[1] = c /\ Reader(c)[2] = "in"
    BY <1>9, OpsOf DEF Open
  <2>2. conn'[c] = "opening" /\ \A d \in Channels : d # c => conn'[d] = conn[d]
    BY <2>1 DEF TypeClient
  <2>3. pc[Writer(c)] = "idle" /\ result[Writer(c)].kind = "none" /\ libssh[c].state = "none"
    BY <2>1 DEF Lives, Life
  <2>4. QED
    BY <1>1, <2>1, <2>2, <2>3, LivesAttempt DEF Proceeds
<1>10. ASSUME NEW c \in Channels, Read(c) PROVE Lives'
  BY <1>1, <1>10, OpsOf, LivesAttempt DEF Proceeds, Read
<1>11. ASSUME NEW c \in Channels, Write(c) PROVE Lives'
  BY <1>1, <1>11, OpsOf, LivesAttempt DEF Proceeds, Write
<1>12. ASSUME NEW c \in Channels, Close(c) PROVE Lives'
  <2>1. /\ conn[c] = "open" /\ conn' = [conn EXCEPT ![c] = "closed"]
        /\ queue' = Append(queue, <<c, "close">>) /\ pc[Reader(c)] = "idle" /\ pc[Writer(c)] = "idle"
        /\ UNCHANGED <<pc, stage, result>>
    BY <1>12 DEF Close
  <2>2. conn'[c] = "closed" /\ \A d \in Channels : d # c => conn'[d] = conn[d]
    BY <2>1 DEF TypeClient
  <2>3. \A y \in Commands : Queued(y)' <=> Queued(y) \/ y = <<c, "close">>
    BY <2>1, Joins DEF Commands
  <2>4. \A d \in Channels : d # c => (Queued(<<d, "close">>)' => Queued(<<d, "close">>))
    BY <2>3 DEF Commands
  <2>5. Life(c) /\ Reader(c)' = Reader(c) /\ Writer(c)' = Writer(c)
    BY DEF Lives, Reader, Writer
  <2>6. Life(c)'
    BY <1>1, <2>1, <2>2, <2>5 DEF Life
  <2>7. QED
    BY <1>1, <2>1, <2>2, <2>4, <2>6, LivesOthers
<1>13. QED
  BY <1>5, <1>6, <1>7, <1>8, <1>9, <1>10, <1>11, <1>12

-----------------------------------------------------------------------------
(* What a call changes.                                                     *)

\* What an answer leaves of the channel it is for, and of the others.
AnswerOn(w, l, c, f) ==
  /\ \A d \in Channels : d # c => libssh'[d] = l[d]
  /\ libssh'[c].state = l[c].state /\ libssh'[c].opened = l[c].opened /\ libssh'[c].eof = l[c].eof
  /\ l[c].asked => libssh'[c].asked
  /\ libssh'[c].asked => l[c].asked \/ stage[w] = "request"
  /\ libssh'[c].window = l[c].window - f /\ libssh'[c].accepted = l[c].accepted + f
  /\ result'[w].count = f
  /\ result'[w].kind = "data" => /\ stage[w] = "read"
                                 /\ result'[w].bytes = l[c].buffer /\ libssh'[c].buffer = <<>>
  /\ result'[w].kind # "data" => libssh'[c].buffer = l[c].buffer
  /\ stage[w] = "request" => result'[w].kind = IF l[c].opened THEN "ok"
                                               ELSE IF connected' THEN "again" ELSE "failed"
  /\ stage[w] = "read" => result'[w].kind = ReadReturns(l[c], connected')
  /\ stage[w] = "write" => result'[w].kind = IF ~connected' THEN "failed"
                                             ELSE IF f > 0 THEN "wrote" ELSE "again"
  /\ stage[w] = "flush" => result'[w].kind = IF ~connected' THEN "failed"
                                             ELSE IF output' = <<>> THEN "ok" ELSE "again"

\* An answer changes the channel it is for as its call says.
LEMMA AnswerDoes ==
  ASSUME TypeClient, NEW w \in Ops, NEW l \in Lib, Answer(w, l), stage[w] # "alloc",
         NEW c \in Channels, c = w[1], NEW f \in Nat, f = Fits(w, l), stage[w] # "write" => f = 0
  PROVE  AnswerOn(w, l, c, f)
<1>1. ASSUME NEW kind, NEW bytes, NEW count, Return(w, kind, bytes, count)
      PROVE  result'[w].kind = kind /\ result'[w].bytes = bytes /\ result'[w].count = count
  <2> DEFINE v == [kind |-> kind, bytes |-> bytes, count |-> count, polls |-> output' # <<>>]
  <2>1. result' = [result EXCEPT ![w] = v]
    BY <1>1 DEF Return
  <2>2. v.kind = kind /\ v.bytes = bytes /\ v.count = count
    OBVIOUS
  <2> HIDE DEF v
  <2>3. result'[w] = v
    BY <2>1 DEF TypeClient
  <2>4. QED
    BY <2>2, <2>3
<1>2. l[c] \in LibChannel /\ l[c].window \in Nat /\ l[c].accepted \in Nat
  BY DEF Lib, LibChannel
<1>3. CASE stage[w] = "request"
  <2>1. /\ libssh' = [l EXCEPT ![c].asked = TRUE]
        /\ Return(w, IF l[c].opened THEN "ok" ELSE IF connected' THEN "again" ELSE "failed", <<>>, 0)
    BY <1>3 DEF Answer
  <2>2. PICK r : r = [l[c] EXCEPT !.asked = TRUE]
    OBVIOUS
  <2>3. /\ r.state = l[c].state /\ r.opened = l[c].opened /\ r.eof = l[c].eof /\ r.asked
        /\ r.window = l[c].window /\ r.accepted = l[c].accepted /\ r.buffer = l[c].buffer
    BY <1>2, <2>2 DEF LibChannel
  <2>4. libssh'[c] = r /\ \A d \in Channels : d # c => libssh'[d] = l[d]
    BY <2>1, <2>2 DEF Lib
  <2>5. /\ result'[w].kind = IF l[c].opened THEN "ok" ELSE IF connected' THEN "again" ELSE "failed"
        /\ result'[w].count = 0
    BY <1>1, <2>1
  <2>6. QED
    BY <1>2, <1>3, <2>3, <2>4, <2>5 DEF AnswerOn
<1>4. CASE stage[w] = "read" /\ ReadReturns(l[c], connected') = "data"
  <2>1. /\ libssh' = [l EXCEPT ![c].buffer = <<>>]
        /\ Return(w, "data", l[c].buffer, 0)
    BY <1>4 DEF Answer
  <2>2. PICK r : r = [l[c] EXCEPT !.buffer = <<>>]
    OBVIOUS
  <2>3. /\ r.state = l[c].state /\ r.opened = l[c].opened /\ r.eof = l[c].eof /\ r.asked = l[c].asked
        /\ r.window = l[c].window /\ r.accepted = l[c].accepted /\ r.buffer = <<>>
    BY <1>2, <2>2 DEF LibChannel
  <2>4. libssh'[c] = r /\ \A d \in Channels : d # c => libssh'[d] = l[d]
    BY <2>1, <2>2 DEF Lib
  <2>5. result'[w].kind = "data" /\ result'[w].bytes = l[c].buffer /\ result'[w].count = 0
    BY <1>1, <2>1
  <2>6. QED
    BY <1>2, <1>4, <2>3, <2>4, <2>5 DEF AnswerOn
<1>5. CASE stage[w] = "read" /\ ReadReturns(l[c], connected') # "data"
  <2>1. /\ libssh' = l
        /\ Return(w, ReadReturns(l[c], connected'), <<>>, 0)
    BY <1>5 DEF Answer
  <2>2. result'[w].kind = ReadReturns(l[c], connected') /\ result'[w].count = 0
    BY <1>1, <2>1
  <2>3. QED
    BY <1>2, <1>5, <2>1, <2>2 DEF AnswerOn
<1>6. CASE stage[w] = "write"
  <2>1. /\ libssh' = [l EXCEPT ![c].window = @ - f, ![c].accepted = @ + f]
        /\ Return(w, IF ~connected' THEN "failed" ELSE IF f > 0 THEN "wrote" ELSE "again", <<>>, f)
    BY <1>6 DEF Answer
  <2>2. PICK r : r = [l[c] EXCEPT !.window = l[c].window - f, !.accepted = l[c].accepted + f]
    OBVIOUS
  <2>3. /\ r.state = l[c].state /\ r.opened = l[c].opened /\ r.eof = l[c].eof /\ r.asked = l[c].asked
        /\ r.window = l[c].window - f /\ r.accepted = l[c].accepted + f /\ r.buffer = l[c].buffer
    BY <1>2, <2>2 DEF LibChannel
  <2>4. libssh'[c] = r /\ \A d \in Channels : d # c => libssh'[d] = l[d]
    BY <1>2, <2>1, <2>2 DEF Lib, LibChannel
  <2>5. /\ result'[w].kind = IF ~connected' THEN "failed" ELSE IF f > 0 THEN "wrote" ELSE "again"
        /\ result'[w].count = f
    BY <1>1, <2>1
  <2>6. QED
    BY <1>2, <1>6, <2>3, <2>4, <2>5 DEF AnswerOn
<1>7. CASE stage[w] = "flush"
  <2>1. /\ libssh' = l
        /\ Return(w, IF ~connected' THEN "failed" ELSE IF output' = <<>> THEN "ok" ELSE "again", <<>>, 0)
    BY <1>7 DEF Answer
  <2>2. /\ result'[w].kind = IF ~connected' THEN "failed" ELSE IF output' = <<>> THEN "ok" ELSE "again"
        /\ result'[w].count = 0
    BY <1>1, <2>1
  <2>3. QED
    BY <1>2, <1>7, <2>1, <2>2 DEF AnswerOn
<1>8. QED
  BY <1>3, <1>4, <1>5, <1>6, <1>7 DEF TypeClient

\* A call changes the state of no channel but one that it allocates.
LEMMA CallStates ==
  ASSUME TypeOK, Within, NEW w \in Ops, Call(w), NEW c \in Channels, c = w[1]
  PROVE  /\ \A d \in Channels : d # c => /\ libssh'[d].state = libssh[d].state
                                         /\ libssh'[d].asked = libssh[d].asked
         /\ stage[w] = "alloc" => /\ libssh'[c].state = "listed" /\ result'[w].kind = "ok"
                                  /\ libssh'[c].asked = libssh[c].asked
         /\ stage[w] # "alloc" => /\ libssh'[c].state = libssh[c].state
                                  /\ libssh[c].asked => libssh'[c].asked
                                  /\ libssh'[c].asked => libssh[c].asked \/ stage[w] = "request"
<1>1. TypeClient /\ libssh \in Lib
  BY TypeParts DEF TypeSession
<1>2. CASE stage[w] = "alloc"
  <2>1. /\ libssh' = [libssh EXCEPT ![c].state = "listed"]
        /\ result' = [result EXCEPT ![w] = [kind |-> "ok", bytes |-> <<>>, count |-> 0, polls |-> FALSE]]
    BY <1>2 DEF Call, Alloc
  <2>2. PICK r : r = [libssh[c] EXCEPT !.state = "listed"]
    OBVIOUS
  <2>3. libssh[c] \in LibChannel
    BY <1>1 DEF Lib
  <2>4. r.state = "listed" /\ r.asked = libssh[c].asked
    BY <2>2, <2>3 DEF LibChannel
  <2>5. libssh'[c] = r /\ \A d \in Channels : d # c => libssh'[d] = libssh[d]
    BY <1>1, <2>1, <2>2 DEF Lib
  <2>6. result'[w].kind = "ok"
    BY <1>1, <2>1 DEF TypeClient
  <2>7. QED
    BY <1>2, <2>4, <2>5, <2>6
<1>3. CASE stage[w] # "alloc"
  <2>1. PICK n \in Nat : CallOf(w, n)
    BY <1>3, CallDoes
  <2>2. PICK l \in Lib : l = After[n]
    BY <2>1 DEF CallOf
  <2>3. Answer(w, l) /\ Keeps(libssh, l)
    BY <2>1, <2>2 DEF CallOf
  <2>4. PICK f \in Nat : f = Fits(w, l) /\ (stage[w] # "write" => f = 0)
    <3>1. Fits(w, l) \in Nat
      BY FitsType DEF Within
    <3>2. stage[w] # "write" => Fits(w, l) = 0
      BY DEF Fits
    <3>3. QED
      BY <3>1, <3>2
  <2>5. AnswerOn(w, l, c, f)
    BY <1>1, <1>3, <2>3, <2>4, AnswerDoes
  <2>6. QED
    BY <1>3, <2>3, <2>5 DEF AnswerOn, Keeps
<1>4. QED
  BY <1>2, <1>3

\* A connection lives as the worker goes on.
LEMMA LivesWorker ==
  ASSUME TypeOK, Within, Turns, Shared, Returns, Lives, Worker
  PROVE  Lives'
<1>1. TypeClient /\ libssh \in Lib
  BY TypeParts DEF TypeSession
<1>2. \A d \in Channels : /\ Life(d) /\ Reader(d) \in Ops /\ Writer(d) \in Ops
                          /\ Reader(d)' = Reader(d) /\ Writer(d)' = Writer(d)
  BY OpsOf DEF Lives, Reader, Writer
<1>3. ASSUME NEW d \in Channels, conn' = conn, stage' = stage, server' = server,
             pc'[Reader(d)] = "idle" <=> pc[Reader(d)] = "idle",
             pc'[Writer(d)] = "idle" <=> pc[Writer(d)] = "idle",
             result'[Reader(d)].kind = result[Reader(d)].kind,
             result'[Writer(d)].kind = result[Writer(d)].kind,
             libssh'[d].state = libssh[d].state, libssh'[d].asked = libssh[d].asked,
             Queued(<<d, "close">>)' => Queued(<<d, "close">>)
      PROVE  Life(d)'
  <2>1. server'[d].replied => libssh[d].asked
    BY <1>2, <1>3 DEF Life
  <2>2. server'[d].sent > 0 => server'[d].replied
    BY <1>2, <1>3 DEF Life
  <2>3. QED
    BY <1>2, <1>3, <2>1, <2>2, LifeFrame
<1>4. CASE CloseCommand
  <2>1. PICK c \in Channels : Head(queue) = <<c, "close">>
    BY <1>1, <1>4, QueueHead DEF CloseCommand, Commands, Ops
  <2>2. /\ queue # <<>> /\ queue' = Tail(queue) /\ UNCHANGED <<conn, pc, stage, result, server>>
        /\ libssh' = [libssh EXCEPT ![c].state = "freed", ![c].buffer = <<>>]
    <3>1. Head(queue)[1] = c
      BY <2>1
    <3>2. libssh' = [libssh EXCEPT ![c].state = "freed", ![c].buffer = <<>>]
      BY <1>4, <3>1 DEF CloseCommand
    <3>3. QED
      BY <1>4, <3>2 DEF CloseCommand, client
  <2>3. Queued(<<c, "close">>) /\ \A y \in Commands : Queued(y)' => Queued(y)
    BY <1>1, <2>1, <2>2, Leaves
  <2>4. conn[c] = "closed"
    BY <1>2, <2>3 DEF Life
  <2>5. /\ \A d \in Channels : d # c => libssh'[d] = libssh[d]
        /\ libssh'[c].state = "freed" /\ libssh'[c].asked = libssh[c].asked
    <3>1. libssh'[c] = [libssh[c] EXCEPT !.state = "freed", !.buffer = <<>>] /\ libssh[c] \in LibChannel
          /\ \A d \in Channels : d # c => libssh'[d] = libssh[d]
      BY <1>1, <2>2, FreedType DEF Lib
    <3>2. QED
      BY <3>1 DEF LibChannel
  <2>6. Life(c)'
    BY <1>2, <2>2, <2>4, <2>5 DEF Life
  <2>7. ASSUME NEW d \in Channels, d # c PROVE Life(d)'
    <3>1. Queued(<<d, "close">>)' => Queued(<<d, "close">>)
      BY <2>3 DEF Commands
    <3>2. QED
      BY <1>3, <2>2, <2>5, <2>7, <3>1
  <2>8. QED
    BY <2>6, <2>7 DEF Lives
<1>5. ASSUME NEW w \in Ops, CallCommand(w) PROVE Lives'
  <2>1. PICK c \in Channels : c = w[1]
    BY OpsOf
  <2>2. /\ queue # <<>> /\ queue' = Tail(queue) /\ UNCHANGED <<conn, pc, stage, server>>
        /\ Head(queue) = w /\ Call(w) /\ running = {}
    BY <1>5 DEF CallCommand, client, Turns
  <2>3. Queued(w) /\ \A y \in Commands : Queued(y)' => Queued(y)
    BY <1>1, <2>2, Leaves
  <2>4. pc[w] = "queued" /\ result[w].kind = "none"
    BY <2>2, <2>3 DEF Turns, Returns, Returned
  <2>5. /\ \A d \in Channels : d # c => /\ libssh'[d].state = libssh[d].state
                                        /\ libssh'[d].asked = libssh[d].asked
        /\ stage[w] = "alloc" => /\ libssh'[c].state = "listed" /\ result'[w].kind = "ok"
                                 /\ libssh'[c].asked = libssh[c].asked
        /\ stage[w] # "alloc" => /\ libssh'[c].state = libssh[c].state
                                 /\ libssh[c].asked => libssh'[c].asked
                                 /\ libssh'[c].asked => libssh[c].asked \/ stage[w] = "request"
    BY <2>1, <2>2, CallStates
  <2>6. \A x \in Ops : x # w => result'[x] = result[x]
    BY <2>2, CallReturns
  <2>7. \A d \in Channels : Queued(<<d, "close">>)' => Queued(<<d, "close">>)
    BY <2>3 DEF Commands
  <2>8. /\ conn[c] \in {"new", "opening", "open", "closed"} /\ Life(c)
        /\ Reader(c) # Writer(c) /\ Reader(c) \in Ops /\ Writer(c) \in Ops
        /\ Reader(c)' = Reader(c) /\ Writer(c)' = Writer(c)
    BY <1>1, <1>2, OpsOf DEF TypeClient
  <2>9. CASE w = Reader(c)
    <3>1. result'[Writer(c)] = result[Writer(c)]
      BY <2>6, <2>8, <2>9
    <3>2. stage[w] \in {"alloc", "request", "read"}
      BY <2>9, OpsOf DEF Returns, Returned
    <3>3. conn[c] = "opening" \/ conn[c] = "open"
      BY <2>4, <2>8, <2>9 DEF Life
    <3>4. ASSUME conn[c] = "opening" PROVE Life(c)'
      BY <2>2, <2>4, <2>5, <2>7, <2>8, <2>9, <3>1, <3>2, <3>4 DEF Life
    <3>5. ASSUME conn[c] = "open" PROVE Life(c)'
      BY <2>2, <2>4, <2>5, <2>7, <2>8, <2>9, <3>1, <3>2, <3>5 DEF Life
    <3>6. Life(c)'
      BY <3>3, <3>4, <3>5
    <3>7. QED
      <4>1. ASSUME NEW d \in Channels, d # c PROVE Life(d)'
        <5>1. Reader(d) # w /\ Writer(d) # w /\ Reader(d) \in Ops /\ Writer(d) \in Ops
          BY <2>9, <4>1, OpsOf
        <5>2. result'[Reader(d)] = result[Reader(d)] /\ result'[Writer(d)] = result[Writer(d)]
          BY <2>6, <5>1
        <5>3. QED
          BY <1>3, <2>2, <2>5, <2>7, <4>1, <5>2
      <4>2. QED
        BY <3>6, <4>1 DEF Lives
  <2>10. CASE w = Writer(c)
    <3>1. result'[Reader(c)] = result[Reader(c)]
      BY <2>6, <2>8, <2>10
    <3>2. stage[w] \in {"write", "flush"}
      BY <2>10, OpsOf DEF Returns, Returned
    <3>3. conn[c] = "open"
      BY <2>4, <2>8, <2>10 DEF Life
    <3>4. Life(c)'
      BY <2>2, <2>4, <2>5, <2>7, <2>8, <2>10, <3>1, <3>2, <3>3 DEF Life
    <3>5. ASSUME NEW d \in Channels, d # c PROVE Life(d)'
      <4>1. Reader(d) # w /\ Writer(d) # w /\ Reader(d) \in Ops /\ Writer(d) \in Ops
        BY <2>10, <3>5, OpsOf
      <4>2. result'[Reader(d)] = result[Reader(d)] /\ result'[Writer(d)] = result[Writer(d)]
        BY <2>6, <4>1
      <4>3. QED
        BY <1>3, <2>2, <2>5, <2>7, <3>5, <4>2
    <3>6. QED
      BY <3>4, <3>5 DEF Lives
  <2>11. QED
    BY <2>1, <2>9, <2>10, OpsOf
<1>6. CASE Retire
  <2>1. PICK w \in Ops : running = {w} /\ pc[w] = "queued"
    BY <1>6 DEF Retire, Turns
  <2>2. /\ UNCHANGED <<conn, stage, result, queue, libssh, server>>
        /\ \A x \in Ops : pc'[x] = IF x = w THEN "ready" ELSE pc[x]
    BY <1>6, <2>1 DEF Retire, session
  <2>3. ASSUME NEW d \in Channels PROVE Life(d)'
    <3>1. Queued(<<d, "close">>)' => Queued(<<d, "close">>)
      BY <2>2 DEF Queued
    <3>2. /\ pc'[Reader(d)] = "idle" <=> pc[Reader(d)] = "idle"
          /\ pc'[Writer(d)] = "idle" <=> pc[Writer(d)] = "idle"
      BY <1>2, <2>1, <2>2
    <3>3. QED
      BY <1>3, <2>2, <3>1, <3>2
  <2>4. QED
    BY <2>3 DEF Lives
<1>7. CASE NotifyProgress
  <2>1. UNCHANGED <<conn, pc, stage, result, queue, libssh, server>>
    BY <1>7 DEF NotifyProgress, client
  <2>2. ASSUME NEW d \in Channels PROVE Life(d)'
    <3>1. Queued(<<d, "close">>)' => Queued(<<d, "close">>)
      BY <2>1 DEF Queued
    <3>2. QED
      BY <1>3, <2>1, <3>1
  <2>3. QED
    BY <2>2 DEF Lives
<1>8. CASE Stop
  <2>1. stopping /\ queue = <<>> /\ UNCHANGED <<conn, pc, stage, result, queue, server>>
    BY <1>8 DEF Stop, Drained, client
  <2>2. \A d \in Channels : conn[d] = "closed"
    BY <2>1 DEF Shared, Owners
  <2>3. ASSUME NEW d \in Channels PROVE Life(d)'
    <3>1. PICK r : r = [libssh[d] EXCEPT !.buffer = <<>>,
                                         !.state = IF @ = "listed" THEN "freed" ELSE @]
      OBVIOUS
    <3>2. libssh'[d] = r /\ libssh[d] \in LibChannel
      BY <1>1, <1>8, <3>1 DEF Stop, Lib
    <3>3. libssh'[d].asked = libssh[d].asked /\ (libssh[d].state # "none" => libssh'[d].state # "none")
      BY <3>1, <3>2 DEF LibChannel
    <3>4. QED
      BY <1>2, <2>1, <2>2, <3>3 DEF Life
  <2>4. QED
    BY <2>3 DEF Lives
<1>9. QED
  BY <1>1, <1>4, <1>5, <1>6, <1>7, <1>8, ExecuteCases DEF Worker

\* What the server tells the client of channel c stays as it is.
Silent(c) == /\ server'[c].sent = server[c].sent /\ server'[c].eof = server[c].eof
             /\ server[c].replied => server'[c].replied
             /\ server'[c].replied => server[c].replied \/ libssh[c].asked

\* The server sends a byte of a channel that it has opened, the end of one whose
\* bytes are sent, or nothing that a reader is to hear of.
LEMMA ServerDoes ==
  ASSUME TypeOK, Network \/ HangsUp
  PROVE  \/ /\ \A d \in Channels : Silent(d)
            /\ incoming' = incoming \/ \E p \in Packet : /\ incoming' = Append(incoming, p)
                                                         /\ p[1] # "data" /\ p[1] # "eof"
         \/ \E c \in Channels :
              /\ server[c].replied /\ server[c].sent < Sends[c]
              /\ server'[c].sent = server[c].sent + 1 /\ server'[c].eof = server[c].eof
              /\ server'[c].replied = server[c].replied
              /\ \A d \in Channels : d # c => Silent(d)
              /\ incoming' = Append(incoming, <<"data", c, server[c].sent + 1>>)
         \/ \E c \in Channels :
              /\ server[c].replied /\ server[c].sent = Sends[c] /\ ~server[c].eof
              /\ server'[c].sent = server[c].sent /\ server'[c].eof = TRUE
              /\ server'[c].replied = server[c].replied
              /\ \A d \in Channels : d # c => Silent(d)
              /\ incoming' = Append(incoming, <<"eof", c>>)
<1>1. server \in [Channels -> ServerType]
  BY TypeParts DEF TypeSession
<1>2. ASSUME NEW c \in Channels, NEW r, server' = [server EXCEPT ![c] = r]
      PROVE  server'[c] = r /\ \A d \in Channels : d # c => server'[d] = server[d] /\ Silent(d)
  BY <1>1, <1>2 DEF Silent
<1>3. ASSUME NEW c \in Channels PROVE server[c] \in ServerType
  BY <1>1
<1>4. \A c \in Channels : /\ <<"reply", c>> \in Packet /\ <<"adjust", c>> \in Packet
                          /\ <<"reply", c>>[1] = "reply" /\ <<"adjust", c>>[1] = "adjust"
  BY DEF Packet, Packets
<1>5. ASSUME NEW c \in Channels, Replies(c)
      PROVE  /\ \A d \in Channels : Silent(d)
             /\ \E p \in Packet : incoming' = Append(incoming, p) /\ p[1] # "data" /\ p[1] # "eof"
  <2>1. PICK r : r = [server[c] EXCEPT !.replied = TRUE]
    OBVIOUS
  <2>2. r.sent = server[c].sent /\ r.eof = server[c].eof /\ r.replied
    BY <1>3, <2>1 DEF ServerType
  <2>3. /\ libssh[c].asked /\ server' = [server EXCEPT ![c] = r]
        /\ incoming' = Append(incoming, <<"reply", c>>)
    BY <1>5, <2>1 DEF Replies, Server
  <2>4. server'[c] = r /\ \A d \in Channels : d # c => Silent(d)
    BY <1>2, <2>3
  <2>5. Silent(c)
    BY <2>2, <2>3, <2>4 DEF Silent
  <2>6. QED
    BY <1>4, <2>3, <2>4, <2>5
<1>6. ASSUME NEW c \in Channels, SendsData(c)
      PROVE  /\ server[c].replied /\ server[c].sent < Sends[c]
             /\ server'[c].sent = server[c].sent + 1 /\ server'[c].eof = server[c].eof
             /\ server'[c].replied = server[c].replied
             /\ \A d \in Channels : d # c => Silent(d)
             /\ incoming' = Append(incoming, <<"data", c, server[c].sent + 1>>)
  <2>1. PICK r : r = [server[c] EXCEPT !.sent = @ + 1]
    OBVIOUS
  <2>2. r.sent = server[c].sent + 1 /\ r.eof = server[c].eof /\ r.replied = server[c].replied
    BY <1>3, <2>1 DEF ServerType
  <2>3. /\ server[c].replied /\ server[c].sent < Sends[c] /\ server' = [server EXCEPT ![c] = r]
        /\ incoming' = Append(incoming, <<"data", c, server[c].sent + 1>>)
    BY <1>6, <2>1 DEF SendsData, Server
  <2>4. server'[c] = r /\ \A d \in Channels : d # c => Silent(d)
    BY <1>2, <2>3
  <2>5. QED
    BY <2>2, <2>3, <2>4
<1>7. ASSUME NEW c \in Channels, SendsEof(c)
      PROVE  /\ server[c].replied /\ server[c].sent = Sends[c] /\ ~server[c].eof
             /\ server'[c].sent = server[c].sent /\ server'[c].eof = TRUE
             /\ server'[c].replied = server[c].replied
             /\ \A d \in Channels : d # c => Silent(d)
             /\ incoming' = Append(incoming, <<"eof", c>>)
  <2>1. PICK r : r = [server[c] EXCEPT !.eof = TRUE]
    OBVIOUS
  <2>2. r.sent = server[c].sent /\ r.eof = TRUE /\ r.replied = server[c].replied
    BY <1>3, <2>1 DEF ServerType
  <2>3. /\ server[c].replied /\ server[c].sent = Sends[c] /\ ~server[c].eof
        /\ server' = [server EXCEPT ![c] = r]
        /\ incoming' = Append(incoming, <<"eof", c>>)
    BY <1>7, <2>1 DEF SendsEof, Server
  <2>4. server'[c] = r /\ \A d \in Channels : d # c => Silent(d)
    BY <1>2, <2>3
  <2>5. QED
    BY <2>2, <2>3, <2>4
<1>8. ASSUME NEW c \in Channels, Receives(c)
      PROVE  /\ \A d \in Channels : Silent(d)
             /\ incoming' = incoming \/ \E p \in Packet : /\ incoming' = Append(incoming, p)
                                                          /\ p[1] # "data" /\ p[1] # "eof"
  <2>1. PICK r : r = [server[c] EXCEPT !.received = @ + 1]
    OBVIOUS
  <2>2. r.sent = server[c].sent /\ r.eof = server[c].eof /\ r.replied = server[c].replied
    BY <1>3, <2>1 DEF ServerType
  <2>3. /\ server' = [server EXCEPT ![c] = r]
        /\ incoming' = incoming \/ incoming' = Append(incoming, <<"adjust", c>>)
    BY <1>8, <2>1 DEF Receives
  <2>4. server'[c] = r /\ \A d \in Channels : d # c => Silent(d)
    BY <1>2, <2>3
  <2>5. Silent(c)
    BY <2>2, <2>4 DEF Silent
  <2>6. QED
    BY <1>4, <2>3, <2>4, <2>5
<1>9. ASSUME HangsUp
      PROVE  /\ \A d \in Channels : Silent(d)
             /\ \E p \in Packet : incoming' = Append(incoming, p) /\ p[1] # "data" /\ p[1] # "eof"
  <2>1. ASSUME NEW d \in Channels PROVE Silent(d)
    <3>1. PICK r : r = [server[d] EXCEPT !.hungup = TRUE]
      OBVIOUS
    <3>2. r.sent = server[d].sent /\ r.eof = server[d].eof /\ r.replied = server[d].replied
      BY <1>3, <3>1 DEF ServerType
    <3>3. server'[d] = r
      BY <1>9, <3>1 DEF HangsUp
    <3>4. QED
      BY <3>2, <3>3 DEF Silent
  <2>2. incoming' = Append(incoming, <<"hangup">>) /\ <<"hangup">> \in Packet /\ <<"hangup">>[1] = "hangup"
    BY <1>9 DEF HangsUp, Packet
  <2>3. QED
    BY <2>1, <2>2
<1>10. QED
  BY <1>5, <1>6, <1>7, <1>8, <1>9 DEF Network

\* The server answers what it was asked, and sends on a channel that it has opened.
LEMMA LivesServer ==
  ASSUME TypeOK, load' = load, Lives, Network \/ HangsUp
  PROVE  Lives'
<1>1. UNCHANGED <<client, result, wake, queue, worker, running, stopping, libssh,
                  output, connected, progress>>
  BY TypeServer
<1>2. UNCHANGED <<conn, pc, stage, result, queue, libssh>>
  BY <1>1 DEF client
<1>3. server \in [Channels -> ServerType]
  BY TypeParts DEF TypeSession
<1>4. ASSUME NEW d \in Channels
      PROVE  Life(d) /\ (server'[d].replied => libssh[d].asked) /\ (server'[d].sent > 0 => server'[d].replied)
  <2>1. Life(d)
    BY DEF Lives
  <2>2. (server[d].replied => libssh[d].asked) /\ (server[d].sent > 0 => server[d].replied)
    BY <2>1 DEF Life
  <2>3. CASE Silent(d)
    BY <2>1, <2>2, <2>3 DEF Silent
  <2>4. CASE ~Silent(d)
    BY <2>1, <2>2, <2>4, ServerDoes
  <2>5. QED
    BY <2>3, <2>4
<1>5. ASSUME NEW d \in Channels PROVE Life(d)'
  <2>1. Queued(<<d, "close">>)' => Queued(<<d, "close">>)
    BY <1>2 DEF Queued
  <2>2. QED
    BY <1>2, <1>4, <2>1, LifeFrame
<1>6. QED
  BY <1>5 DEF Lives

-----------------------------------------------------------------------------
(* Hearing of what has arrived.                                             *)

\* A writer has never taken more than its payload.
LEMMA CountsWithin ==
  ASSUME TypeOK, Returns, Counts
  PROVE  Within
<1>1. ASSUME NEW w \in Ops, stage[w] = "write" PROVE offset[w[1]] <= Payload[w[1]]
  <2>1. PICK c \in Channels : c = w[1]
    BY OpsOf
  <2>2. w = Writer(c)
    BY <1>1, <2>1, OpsOf DEF Returns, Returned
  <2>3. offset[c] \in Nat /\ Payload[c] \in Nat
    BY LoadType, TypeParts DEF TypeClient, Load
  <2>4. Owed(c) \in Nat
    BY <2>1, <2>2, TypeParts DEF Owed, TypeClient, ResultType
  <2>5. offset[c] + Owed(c) <= Payload[c]
    BY DEF Counts, Counted
  <2>6. QED
    BY <2>1, <2>3, <2>4, <2>5
<1>2. QED
  BY <1>1 DEF Within

\* Whoever goes on, waits or ends hears of what there is.
LEMMA HearsDispatch ==
  ASSUME TypeClient, Hears, UNCHANGED session,
         \/ \E w \in Ops : Resume(w) \/ Throw(w) \/ Wake(w) \/ Cancel(w)
         \/ \E c \in Channels : Open(c) \/ Read(c) \/ Write(c) \/ Close(c)
  PROVE  Hears'
<1>1. UNCHANGED worker
  BY DEF Resume, Throw, Wake, Cancel, Open, Read, Write, Close
<1>2. UNCHANGED <<libssh, output, connected, incoming, wire, progress>>
  BY DEF session
<1>3. ASSUME NEW x \in Ops, pc'[x] # "idle" => pc[x] # "idle", result'[x] = result[x],
             stage'[x] = stage[x], wake'[x] = wake[x]
      PROVE  Hearing(x)'
  BY <1>1, <1>2, <1>3 DEF Hears, Hearing, Answered, SocketReady
<1>4. ASSUME NEW w \in Ops, NEW call, Attempt(w, call) PROVE Hears'
  <2>1. /\ result'[w] = Nothing
        /\ \A x \in Ops : x # w => /\ pc'[x] = pc[x] /\ stage'[x] = stage[x]
                                   /\ result'[x] = result[x] /\ wake'[x] = wake[x]
    BY <1>4, AttemptDoes
  <2>2. Hearing(w)'
    BY <2>1 DEF Hearing, Nothing
  <2>3. ASSUME NEW x \in Ops, x # w PROVE Hearing(x)'
    BY <1>3, <2>1, <2>3
  <2>4. QED
    BY <2>2, <2>3 DEF Hears
<1>5. ASSUME UNCHANGED <<wake, stage, result>>, \A x \in Ops : pc'[x] # "idle" => pc[x] # "idle"
      PROVE  Hears'
  <2>1. ASSUME NEW x \in Ops PROVE Hearing(x)'
    BY <1>3, <1>5
  <2>2. QED
    BY <2>1 DEF Hears
<1>6. ASSUME NEW w \in Ops, NEW failed \in BOOLEAN, Finish(w, w[1], failed) PROVE Hears'
  <2>1. /\ pc'[w] = "idle" /\ \A x \in Ops : x # w => pc'[x] = pc[x]
        /\ UNCHANGED <<wake, stage, result>>
    BY <1>6, FinishDoes
  <2>2. QED
    BY <1>5, <2>1
<1>7. ASSUME NEW w \in Ops, Resume(w) PROVE Hears'
  <2>1. CASE pc' = [pc EXCEPT ![w] = "waiting"] /\ UNCHANGED <<wake, queue, stage, conn, result>>
    <3>1. \A x \in Ops : pc'[x] # "idle" => pc[x] # "idle"
      BY <1>7, <2>1 DEF Resume, TypeClient
    <3>2. QED
      BY <1>5, <2>1, <3>1
  <2>2. CASE \E call : Attempt(w, call)
    BY <1>4, <2>2
  <2>3. CASE Finish(w, w[1], FALSE)
    BY <1>6, <2>3
  <2>4. QED
    BY <1>7, <2>1, <2>2, <2>3 DEF Resume
<1>8. ASSUME NEW w \in Ops, Throw(w) PROVE Hears'
  BY <1>6, <1>8 DEF Throw
<1>9. ASSUME NEW w \in Ops, Wake(w) PROVE Hears'
  BY <1>4, <1>9 DEF Wake
<1>10. ASSUME NEW w \in Ops, Cancel(w) PROVE Hears'
  BY <1>5, <1>6, <1>10 DEF Cancel
<1>11. ASSUME NEW c \in Channels, Open(c) \/ Read(c) \/ Write(c) PROVE Hears'
  BY <1>4, <1>11, OpsOf DEF Open, Read, Write
<1>12. ASSUME NEW c \in Channels, Close(c) PROVE Hears'
  BY <1>5, <1>12 DEF Close
<1>13. QED
  BY <1>7, <1>8, <1>9, <1>10, <1>11, <1>12

\* An operation that is told to come again has not been answered.
LEMMA AgainUnanswered ==
  ASSUME TypeOK, Within, Counts, NEW w \in Ops, pc[w] # "idle", NEW n \in Nat, CallOf(w, n),
         stage[w] # "alloc", stage[w] = "write" => w = Writer(w[1]),
         stage' = stage, result'[w].kind = "again"
  PROVE  ~Answered(w)'
<1>1. TypeClient
  BY TypeParts
<1>2. PICK c \in Channels : c = w[1]
  BY OpsOf
<1>3. PICK l \in Lib : l = After[n]
  BY DEF CallOf
<1>4. PICK f \in Nat : f = Fits(w, l) /\ (stage[w] # "write" => f = 0)
  <2>1. Fits(w, l) \in Nat
    BY FitsType DEF Within
  <2>2. stage[w] # "write" => Fits(w, l) = 0
    BY DEF Fits
  <2>3. QED
    BY <2>1, <2>2
<1>5. AnswerOn(w, l, c, f)
  BY <1>1, <1>2, <1>3, <1>4, AnswerDoes DEF CallOf
<1>6. stage[w] \in {"request", "read", "write", "flush"}
  BY <1>1 DEF TypeClient
<1>7. connected' /\ connected
  BY <1>5, <1>6 DEF AnswerOn, ReadReturns, CallOf
<1>8. CASE stage[w] = "request"
  BY <1>2, <1>5, <1>7, <1>8 DEF AnswerOn, Answered
<1>9. CASE stage[w] = "read"
  <2>1. l[c].buffer = <<>> /\ ~l[c].eof
    BY <1>5, <1>7, <1>9 DEF AnswerOn, ReadReturns
  <2>2. libssh'[c].buffer = <<>> /\ libssh'[c].eof = l[c].eof
    BY <1>5, <2>1 DEF AnswerOn
  <2>3. QED
    BY <1>2, <1>7, <1>9, <2>1, <2>2 DEF Answered
<1>10. CASE stage[w] = "write"
  <2>1. f = 0
    BY <1>4, <1>5, <1>7, <1>10 DEF AnswerOn
  <2>2. w = Writer(c)
    BY <1>2, <1>10
  <2>3. offset[c] < Payload[c]
    BY <1>10, <2>2 DEF Counts, Counted
  <2>4. offset[c] \in Nat /\ Payload[c] \in Nat /\ l[c].window \in Nat
    BY <1>1, LoadType DEF TypeClient, Load, Lib, LibChannel
  <2>5. f = Least(Payload[c] - offset[c], l[c].window)
    BY <1>2, <1>4, <1>7, <1>10 DEF Fits
  <2>6. l[c].window = 0
    BY <2>1, <2>3, <2>4, <2>5 DEF Least
  <2>7. libssh'[c].window = 0
    BY <1>5, <2>1, <2>6 DEF AnswerOn
  <2>8. QED
    BY <1>2, <1>7, <1>10, <2>7 DEF Answered
<1>11. CASE stage[w] = "flush"
  BY <1>5, <1>7, <1>11 DEF AnswerOn, Answered
<1>12. QED
  BY <1>6, <1>8, <1>9, <1>10, <1>11

\* The worker leaves nobody unaware of what it took from the socket.
LEMMA HearsCall ==
  ASSUME TypeOK, Within, Counts, Returns, Turns, Hears, NEW w \in Ops, CallCommand(w)
  PROVE  Hears'
<1>1. TypeClient /\ TypeSession
  BY TypeParts
<1>2. PICK c \in Channels : c = w[1]
  BY OpsOf
<1>3. /\ queue # <<>> /\ queue' = Tail(queue) /\ UNCHANGED <<conn, pc, stage, wake>>
      /\ Head(queue) = w /\ Call(w) /\ running = {} /\ worker = "take" /\ worker' = "retire"
  BY DEF CallCommand, client, Turns
<1>4. Queued(w)
  BY <1>1, <1>3, Leaves
<1>5. pc[w] = "queued"
  BY <1>4 DEF Turns
<1>6. CASE stage[w] = "alloc"
  <2>1. /\ libssh' = [libssh EXCEPT ![c].state = "listed"]
        /\ result' = [result EXCEPT ![w] = [kind |-> "ok", bytes |-> <<>>, count |-> 0, polls |-> FALSE]]
        /\ UNCHANGED <<output, connected, incoming, wire, progress>>
    BY <1>2, <1>3, <1>6 DEF Call, Alloc
  <2>2. \A d \in Channels : /\ libssh'[d].opened = libssh[d].opened /\ libssh'[d].eof = libssh[d].eof
                            /\ libssh'[d].buffer = libssh[d].buffer
                            /\ libssh'[d].window = libssh[d].window
    <3>1. PICK r : r = [libssh[c] EXCEPT !.state = "listed"]
      OBVIOUS
    <3>2. libssh[c] \in LibChannel /\ libssh \in Lib
      BY <1>1 DEF TypeSession, Lib
    <3>3. /\ r.opened = libssh[c].opened /\ r.eof = libssh[c].eof /\ r.buffer = libssh[c].buffer
          /\ r.window = libssh[c].window
      BY <3>1, <3>2 DEF LibChannel
    <3>4. libssh'[c] = r /\ \A d \in Channels : d # c => libssh'[d] = libssh[d]
      BY <2>1, <3>1, <3>2 DEF Lib
    <3>5. QED
      BY <3>3, <3>4
  <2>3. result'[w].kind = "ok" /\ \A x \in Ops : x # w => result'[x] = result[x]
    BY <1>1, <2>1 DEF TypeClient
  <2>4. ASSUME NEW x \in Ops, x # w PROVE Hearing(x)'
    <3>1. x[1] \in Channels /\ result'[x] = result[x] /\ Hearing(x)
      BY <2>3, <2>4, OpsOf DEF Hears
    <3>2. Answered(x)' => Answered(x)
      BY <1>3, <2>1, <2>2, <3>1 DEF Answered
    <3>3. SocketReady(x)' <=> SocketReady(x)
      BY <2>1, <3>1 DEF SocketReady
    <3>4. QED
      BY <1>3, <2>1, <3>1, <3>2, <3>3 DEF Hearing
  <2>5. Hearing(w)'
    BY <2>3 DEF Hearing
  <2>6. QED
    BY <2>4, <2>5 DEF Hears
<1>7. CASE stage[w] # "alloc"
  <2>1. PICK n \in Nat : CallOf(w, n)
    BY <1>3, <1>7, CallDoes
  <2>2. PICK l \in Lib : l = After[n]
    BY <2>1 DEF CallOf
  <2>3. PICK f \in Nat : f = Fits(w, l) /\ (stage[w] # "write" => f = 0)
    <3>1. Fits(w, l) \in Nat
      BY FitsType DEF Within
    <3>2. stage[w] # "write" => Fits(w, l) = 0
      BY DEF Fits
    <3>3. QED
      BY <3>1, <3>2
  <2>4. AnswerOn(w, l, c, f)
    BY <1>1, <1>2, <1>7, <2>1, <2>2, <2>3, AnswerDoes DEF CallOf
  <2>5. \A x \in Ops : x # w => result'[x] = result[x]
    BY <1>3, CallReturns
  <2>6. Hearing(w)'
    <3>1. stage[w] = "write" => w = Writer(w[1])
      BY OpsOf DEF Returns, Returned
    <3>2. result'[w].kind = "again" => ~Answered(w)'
      BY <1>3, <1>5, <1>7, <2>1, <3>1, AgainUnanswered
    <3>3. QED
      BY <3>2 DEF Hearing
  <2>7. CASE progress'
    BY <1>3, <2>7 DEF Hears, Hearing
  <2>8. CASE ~progress'
    <3>1. n = 0 /\ wire' = wire /\ ~progress
      BY <2>1, <2>8 DEF CallOf
    <3>2. l = libssh /\ connected' = connected /\ incoming' = incoming
      <4>1. incoming' = SubSeq(incoming, 1, Len(incoming))
        BY <2>1, <3>1 DEF CallOf
      <4>2. incoming \in Seq(Packet)
        BY <1>1 DEF TypeSession
      <4>3. incoming' = incoming
        BY <4>1, <4>2
      <4>4. QED
        BY <2>1, <2>2, <3>1, <4>3 DEF CallOf
    <3>3. output' = <<>> => output = <<>>
      <4>1. f = 0 => output' = output
        BY <2>1, <2>2, <2>3, <3>1 DEF CallOf
      <4>2. f > 0 => output' # <<>>
        BY <2>1, <2>2, <2>3, <3>1 DEF CallOf
      <4>3. QED
        BY <4>1, <4>2
    <3>4. \A d \in Channels : /\ libssh'[d].opened = libssh[d].opened /\ libssh'[d].eof = libssh[d].eof
                              /\ libssh'[d].buffer # <<>> => libssh[d].buffer # <<>>
                              /\ libssh'[d].window > 0 => libssh[d].window > 0
      <4>1. libssh[c].window \in Nat
        BY <2>2, <3>2 DEF Lib, LibChannel
      <4>2. QED
        BY <2>4, <3>2, <4>1 DEF AnswerOn
    <3>5. ASSUME NEW x \in Ops, x # w PROVE Hearing(x)'
      <4>1. x[1] \in Channels /\ result'[x] = result[x] /\ Hearing(x)
        BY <2>5, <3>5, OpsOf DEF Hears
      <4>2. Answered(x)' => Answered(x)
        BY <1>3, <3>2, <3>3, <3>4, <4>1 DEF Answered
      <4>3. SocketReady(x) => SocketReady(x)'
        BY <3>1, <3>2, <4>1 DEF SocketReady
      <4>4. QED
        BY <1>3, <4>1, <4>2, <4>3 DEF Hearing
    <3>6. QED
      BY <2>6, <3>5 DEF Hears
  <2>9. QED
    BY <2>7, <2>8
<1>8. QED
  BY <1>6, <1>7

\* The worker wakes whoever its calls may concern.
LEMMA HearsWorker ==
  ASSUME TypeOK, Within, Counts, Returns, Turns, Shared, Hears, Worker
  PROVE  Hears'
<1>1. TypeClient /\ TypeSession
  BY TypeParts
<1>2. CASE CloseCommand
  <2>1. PICK c \in Channels : c = Head(queue)[1]
    BY <1>2 DEF CloseCommand
  <2>2. /\ libssh' = [libssh EXCEPT ![c].state = "freed", ![c].buffer = <<>>]
        /\ UNCHANGED <<pc, stage, wake, output, connected, incoming, wire, progress, result>>
        /\ worker = "take"
    BY <1>2, <2>1 DEF CloseCommand, client
  <2>3. \A d \in Channels : /\ libssh'[d].opened = libssh[d].opened /\ libssh'[d].eof = libssh[d].eof
                            /\ libssh'[d].buffer # <<>> => libssh[d].buffer # <<>>
                            /\ libssh'[d].window = libssh[d].window
    <3>1. /\ libssh'[c] = [libssh[c] EXCEPT !.state = "freed", !.buffer = <<>>]
          /\ libssh[c] \in LibChannel
          /\ \A d \in Channels : d # c => libssh'[d] = libssh[d]
      BY <1>1, <2>2, FreedType DEF TypeSession, Lib
    <3>2. /\ libssh'[c].opened = libssh[c].opened /\ libssh'[c].eof = libssh[c].eof
          /\ libssh'[c].buffer = <<>> /\ libssh'[c].window = libssh[c].window
      BY <3>1 DEF LibChannel
    <3>3. QED
      BY <3>1, <3>2
  <2>4. ASSUME NEW x \in Ops PROVE Hearing(x)'
    <3>1. x[1] \in Channels /\ Hearing(x)
      BY OpsOf DEF Hears
    <3>2. Answered(x)' => Answered(x)
      BY <2>2, <2>3, <3>1 DEF Answered
    <3>3. SocketReady(x)' <=> SocketReady(x)
      BY <2>2 DEF SocketReady
    <3>4. QED
      BY <2>2, <3>1, <3>2, <3>3 DEF Hearing
  <2>5. QED
    BY <2>4 DEF Hears
<1>3. ASSUME NEW w \in Ops, CallCommand(w) PROVE Hears'
  BY <1>3, HearsCall
<1>4. ASSUME NEW x \in Ops, UNCHANGED <<stage, result, libssh, output, connected, incoming, wire>>,
             pc'[x] # "idle" => pc[x] # "idle", wake[x] => wake'[x],
             pc[x] # "idle" /\ progress /\ worker \in {"retire", "notify"} =>
                wake'[x] \/ (progress' /\ worker' \in {"retire", "notify"})
      PROVE  Hearing(x)'
  <2>1. Hearing(x)
    BY DEF Hears
  <2>2. (Answered(x)' <=> Answered(x)) /\ (SocketReady(x)' <=> SocketReady(x))
    BY <1>4 DEF Answered, SocketReady
  <2>3. QED
    BY <1>4, <2>1, <2>2 DEF Hearing
<1>5. CASE Retire
  <2>1. PICK w \in Ops : running = {w} /\ pc[w] = "queued"
    BY <1>5 DEF Retire, Turns
  <2>2. /\ UNCHANGED <<stage, result, wake, libssh, output, connected, incoming, wire, progress>>
        /\ worker' = "notify"
    BY <1>5 DEF Retire, session
  <2>3. \A x \in Ops : pc'[x] # "idle" => pc[x] # "idle"
    BY <1>5, <2>1 DEF Retire
  <2>4. \A x \in Ops : Hearing(x)'
    BY <1>4, <2>2, <2>3
  <2>5. QED
    BY <2>4 DEF Hears
<1>6. CASE NotifyProgress
  <2>1. /\ UNCHANGED <<pc, stage, result, libssh, output, connected, incoming, wire>>
        /\ \A x \in Ops : wake'[x] = (wake[x] \/ (progress /\ pc[x] # "idle"))
    BY <1>6 DEF NotifyProgress, client
  <2>2. \A x \in Ops : (wake[x] => wake'[x]) /\ (pc[x] # "idle" /\ progress => wake'[x])
    BY <2>1
  <2>3. \A x \in Ops : Hearing(x)'
    BY <1>4, <2>1, <2>2
  <2>4. QED
    BY <2>3 DEF Hears
<1>7. CASE Stop
  <2>1. \A x \in Ops : pc'[x] = "idle"
    BY <1>7 DEF Stop, Drained, Shared, Owners, client
  <2>2. QED
    BY <2>1 DEF Hears, Hearing
<1>8. QED
  BY <1>1, <1>2, <1>3, <1>5, <1>6, <1>7, ExecuteCases DEF Worker

\* What the server sends makes the socket ready, and what it takes leaves room.
LEMMA HearsServer ==
  ASSUME TypeOK, load' = load, Hears, Network \/ HangsUp
  PROVE  Hears'
<1>1. /\ UNCHANGED <<client, result, wake, queue, worker, running, stopping, libssh,
                     output, connected, progress>>
      /\ incoming' = incoming \/ \E p \in Packet : incoming' = Append(incoming, p)
      /\ wire' = wire \/ (wire # <<>> /\ wire' = Tail(wire))
  BY TypeServer
<1>2. UNCHANGED <<pc, stage, result, wake, worker, libssh, output, connected, progress>>
  BY <1>1 DEF client
<1>3. incoming \in Seq(Packet) /\ wire \in Seq(Channels) /\ Room \in Nat
  BY TypeParts, SshAssumption DEF TypeSession
<1>4. incoming # <<>> => incoming' # <<>>
  BY <1>1, <1>3
<1>5. Len(wire) < Room => Len(wire') < Room
  BY <1>1, <1>3
<1>6. ASSUME NEW x \in Ops PROVE Hearing(x)'
  <2>1. Hearing(x)
    BY DEF Hears
  <2>2. Answered(x)' <=> Answered(x)
    BY <1>2 DEF Answered
  <2>3. SocketReady(x) => SocketReady(x)'
    BY <1>2, <1>4, <1>5 DEF SocketReady
  <2>4. QED
    BY <1>2, <2>1, <2>2, <2>3 DEF Hearing
<1>7. QED
  BY <1>6 DEF Hears

-----------------------------------------------------------------------------
(* Counting what is written.                                                *)

\* What a writer counts stays what libssh has accepted while neither changes.
LEMMA CountedFrame ==
  ASSUME NEW c \in Channels, Counted(c), load' = load, offset'[c] = offset[c],
         pc'[Writer(c)] = "idle" <=> pc[Writer(c)] = "idle",
         stage'[Writer(c)] = stage[Writer(c)], result'[Writer(c)] = result[Writer(c)],
         cancelled'[Writer(c)] = cancelled[Writer(c)],
         libssh'[c].accepted = libssh[c].accepted, Unsent(c)' => Unsent(c)
  PROVE  Counted(c)'
<1>1. Writer(c)' = Writer(c) /\ Payload'[c] = Payload[c]
  BY DEF Writer, Payload
<1>2. Owed(c)' = Owed(c)
  BY <1>1 DEF Owed
<1>3. QED
  BY <1>1, <1>2 DEF Counted

\* An operation changes what its own channel's writer counts, if it is the writer.
LEMMA CountsOthers ==
  ASSUME TypeClient, Counts, load' = load, UNCHANGED <<libssh, output>>, NEW w \in Ops,
         \A x \in Ops : x # w => /\ pc'[x] = pc[x] /\ stage'[x] = stage[x] /\ result'[x] = result[x]
                                 /\ cancelled'[x] = cancelled[x],
         \A d \in Channels : w # Writer(d) => offset'[d] = offset[d],
         w[2] = "out" => Counted(w[1])'
  PROVE  Counts'
<1>1. ASSUME NEW d \in Channels, w # Writer(d) PROVE Counted(d)'
  <2>1. /\ Writer(d) \in Ops /\ Counted(d)
    BY OpsOf DEF Counts
  <2>2. Unsent(d)' => Unsent(d)
    BY DEF Unsent
  <2>3. QED
    BY <1>1, <2>1, <2>2, CountedFrame
<1>2. ASSUME NEW d \in Channels, w = Writer(d) PROVE Counted(d)'
  BY <1>2, OpsOf
<1>3. QED
  BY <1>1, <1>2 DEF Counts

\* What a writer owes is a number, and none but after a call that took bytes.
LEMMA OwedType ==
  ASSUME TypeClient, Returns, NEW c \in Channels
  PROVE  /\ Owed(c) \in Nat /\ offset[c] \in Nat /\ Payload[c] \in Nat
         /\ result[Writer(c)].count \in Nat
         /\ result[Writer(c)].kind \notin {"wrote", "failed"} => result[Writer(c)].count = 0
         /\ stage[Writer(c)] \in {"write", "flush"}
<1>1. Writer(c) \in Ops /\ Writer(c)[2] = "out"
  BY OpsOf
<1>2. result[Writer(c)].count \in Nat /\ offset[c] \in Nat
  BY <1>1 DEF TypeClient, ResultType
<1>3. Payload[c] \in Nat
  BY SshAssumption DEF TypeClient, Payload
<1>4. QED
  BY <1>1, <1>2, <1>3 DEF Owed, Returns, Returned

\* A writer that goes on has counted what its last call took.
LEMMA CountsResume ==
  ASSUME TypeClient, Returns, Counts, load' = load, UNCHANGED <<libssh, output>>,
         NEW w \in Ops, Resume(w)
  PROVE  Counts'
<1>1. PICK c \in Channels : c = w[1]
  BY OpsOf
<1>2. /\ pc[w] = "ready" /\ ~cancelled[w] /\ result[w].kind # "failed"
      /\ offset' = [offset EXCEPT ![c] = offset[c] + result[w].count]
      /\ UNCHANGED cancelled /\ result[w].kind # "none" /\ result[w].count \in Nat
  BY <1>1 DEF Resume, Returns, Returned, TypeClient, ResultType
<1>3. /\ offset'[c] = offset[c] + result[w].count
      /\ \A d \in Channels : d # c => offset'[d] = offset[d]
  BY <1>2 DEF TypeClient
<1>4. \A d \in Channels : w # Writer(d) => offset'[d] = offset[d]
  <2>1. CASE w = Reader(c)
    <3>1. result[w].kind \notin {"wrote", "failed"}
      BY <1>2, <2>1, OpsOf DEF Returns, Returned, KindOK
    <3>2. result[w].count = 0
      BY <3>1 DEF Returns, Returned
    <3>3. offset[c] \in Nat
      BY DEF TypeClient
    <3>4. QED
      BY <1>3, <3>2, <3>3
  <2>2. CASE w = Writer(c)
    BY <1>3, <2>2
  <2>3. QED
    BY <1>1, <2>1, <2>2, OpsOf
<1>5. \A x \in Ops : x # w => /\ pc'[x] = pc[x] /\ stage'[x] = stage[x] /\ result'[x] = result[x]
  <2>1. CASE \E call : Attempt(w, call)
    BY <2>1, AttemptDoes
  <2>2. CASE Finish(w, w[1], FALSE)
    BY <2>2, FinishDoes
  <2>3. CASE pc' = [pc EXCEPT ![w] = "waiting"] /\ UNCHANGED <<stage, result>>
    BY <2>3 DEF TypeClient
  <2>4. QED
    BY <2>1, <2>2, <2>3 DEF Resume
<1>6. ASSUME w[2] = "out" PROVE Counted(c)'
  <2>1. /\ w = Writer(c) /\ Writer(c)' = Writer(c) /\ Payload'[c] = Payload[c] /\ Counted(c)
    BY <1>1, <1>6, OpsOf DEF Writer, Payload, Counts
  <2>2. /\ stage[w] \in {"write", "flush"} /\ offset[c] \in Nat /\ Payload[c] \in Nat
        /\ Owed(c) = result[w].count /\ offset'[c] = offset[c] + Owed(c)
        /\ result[w].kind \notin {"wrote", "failed"} => result[w].count = 0
    BY <1>2, <1>3, <2>1, OwedType DEF Owed
  <2>3. /\ offset'[c] <= Payload[c] /\ libssh[c].accepted = offset'[c]
        /\ stage[w] = "flush" => offset[c] = Payload[c]
        /\ stage[w] = "write" => offset[c] < Payload[c]
    BY <1>2, <2>1, <2>2 DEF Counted
  <2>4. libssh'[c].accepted = offset'[c] /\ offset'[c] \in Nat /\ (Unsent(c)' <=> Unsent(c))
    BY <1>2, <2>2, <2>3 DEF Unsent
  <2>5. ASSUME NEW call, Attempt(w, call), call = "write" => offset'[c] < Payload[c],
               call = "flush" => offset'[c] = Payload[c]
        PROVE  Counted(c)'
    <3>1. pc'[w] = "queued" /\ stage'[w] = call /\ result'[w] = Nothing
      BY <2>5, AttemptDoes
    <3>2. result'[w].kind = "none" /\ result'[w].count = 0
      BY <3>1 DEF Nothing
    <3>3. Owed(c)' = 0
      BY <2>1, <3>1, <3>2 DEF Owed
    <3>4. QED
      BY <2>1, <2>2, <2>3, <2>4, <2>5, <3>1, <3>2, <3>3 DEF Counted
  <2>6. ASSUME Finish(w, w[1], FALSE), offset'[c] = Payload[c], ~Unsent(c) PROVE Counted(c)'
    <3>1. pc'[w] = "idle" /\ result'[w] = result[w] /\ stage' = stage
      BY <2>6, FinishDoes
    <3>2. Owed(c)' = 0
      BY <2>1, <3>1 DEF Owed
    <3>3. QED
      BY <1>2, <2>1, <2>2, <2>3, <2>4, <2>6, <3>1, <3>2 DEF Counted
  <2>7. CASE result[w].kind = "again"
    <3>1. pc' = [pc EXCEPT ![w] = "waiting"] /\ UNCHANGED <<stage, result>>
      BY <2>7 DEF Resume
    <3>2. pc'[w] = "waiting"
      BY <3>1 DEF TypeClient
    <3>3. offset'[c] = offset[c]
      BY <2>2, <2>7
    <3>4. QED
      BY <1>2, <2>1, <2>4, <3>1, <3>2, <3>3, CountedFrame
  <2>8. CASE result[w].kind = "wrote"
    <3>1. offset'[c] < Payload[c] \/ offset'[c] = Payload[c]
      BY <2>2, <2>3, <2>4
    <3>2. IF offset'[c] < Payload[c] THEN Attempt(w, "write")
          ELSE IF result[w].polls THEN Attempt(w, "flush") ELSE Finish(w, w[1], FALSE)
      BY <1>1, <1>3, <2>8 DEF Resume, Continues
    <3>3. ~result[w].polls => ~Unsent(c)
      BY <2>1, <2>8 DEF Counted
    <3>4. CASE offset'[c] < Payload[c]
      BY <2>2, <2>4, <2>5, <3>2, <3>4
    <3>5. CASE ~(offset'[c] < Payload[c]) /\ result[w].polls
      BY <2>5, <3>1, <3>2, <3>5
    <3>6. CASE ~(offset'[c] < Payload[c]) /\ ~result[w].polls
      BY <2>6, <3>1, <3>2, <3>3, <3>6
    <3>7. QED
      BY <3>4, <3>5, <3>6
  <2>9. CASE result[w].kind \in {"ok", "data", "eof"}
    <3>1. result[w].kind = "ok" /\ stage[w] = "flush"
      BY <2>2, <2>9 DEF Returns, Returned, KindOK
    <3>2. Finish(w, w[1], FALSE)
      BY <3>1 DEF Resume
    <3>3. offset'[c] = Payload[c] /\ ~Unsent(c)
      BY <2>1, <2>2, <2>3, <3>1 DEF Counted
    <3>4. QED
      BY <2>6, <3>2, <3>3
  <2>10. QED
    BY <2>7, <2>8, <2>9 DEF Resume
<1>7. QED
  BY <1>1, <1>2, <1>4, <1>5, <1>6, CountsOthers

\* A writer that ends early, is woken or begins counts what it has written.
LEMMA CountsDispatch ==
  ASSUME TypeClient, Returns, Counts, Lives, load' = load, UNCHANGED session,
         \/ \E w \in Ops : Resume(w) \/ Throw(w) \/ Wake(w) \/ Cancel(w)
         \/ \E c \in Channels : Open(c) \/ Read(c) \/ Write(c) \/ Close(c)
  PROVE  Counts'
<1>1. UNCHANGED <<libssh, output>>
  BY DEF session
<1>2. \A c \in Channels : /\ Counted(c) /\ Writer(c) \in Ops /\ Writer(c)' = Writer(c)
                          /\ Payload'[c] = Payload[c] /\ (Unsent(c)' <=> Unsent(c))
                          /\ libssh'[c].accepted = libssh[c].accepted
  BY <1>1, OpsOf DEF Counts, Writer, Payload, Unsent
<1>3. ASSUME NEW w \in Ops, Resume(w) PROVE Counts'
  BY <1>1, <1>3, CountsResume
<1>4. ASSUME NEW w \in Ops, NEW failed \in BOOLEAN, Finish(w, w[1], failed), UNCHANGED offset,
             pc[w] \in {"ready", "waiting"}, cancelled'[w] \/ result[w].kind = "failed",
             cancelled[w] => cancelled'[w], \A x \in Ops : x # w => cancelled'[x] = cancelled[x]
      PROVE  Counts'
  <2>1. /\ pc'[w] = "idle" /\ \A x \in Ops : x # w => pc'[x] = pc[x]
        /\ UNCHANGED <<stage, result>>
    BY <1>4, FinishDoes
  <2>2. ASSUME w[2] = "out" PROVE Counted(w[1])'
    <3>1. PICK c \in Channels : c = w[1]
      BY OpsOf
    <3>2. w = Writer(c) /\ result[w].kind # "none" /\ pc[w] # "idle"
      BY <1>4, <2>2, <3>1, OpsOf DEF Returns, Returned
    <3>3. Owed(c)' = 0 /\ Owed(c) \in Nat /\ offset[c] \in Nat /\ Payload[c] \in Nat
      BY <1>2, <2>1, <3>2, OwedType DEF Owed
    <3>4. Counted(c)'
      BY <1>2, <1>4, <2>1, <3>2, <3>3 DEF Counted
    <3>5. QED
      BY <3>1, <3>4
  <2>3. QED
    BY <1>1, <1>4, <2>1, <2>2, CountsOthers
<1>5. ASSUME NEW w \in Ops, Throw(w) PROVE Counts'
  <2>1. Finish(w, w[1], TRUE) /\ UNCHANGED <<cancelled, offset>> /\ pc[w] = "ready"
        /\ (cancelled[w] \/ result[w].kind = "failed")
    BY <1>5 DEF Throw
  <2>2. QED
    BY <1>4, <2>1
<1>6. ASSUME NEW w \in Ops, Cancel(w) PROVE Counts'
  <2>1. /\ cancelled'[w] = TRUE /\ \A x \in Ops : x # w => cancelled'[x] = cancelled[x]
        /\ UNCHANGED offset
    BY <1>6 DEF Cancel, TypeClient
  <2>2. CASE pc[w] = "waiting"
    BY <1>4, <1>6, <2>1, <2>2 DEF Cancel
  <2>3. CASE pc[w] # "waiting"
    <3>1. UNCHANGED <<pc, stage, result>> /\ pc[w] # "idle"
      BY <1>6, <2>3 DEF Cancel
    <3>2. ASSUME w[2] = "out" PROVE Counted(w[1])'
      <4>1. PICK c \in Channels : c = w[1]
        BY OpsOf
      <4>2. w = Writer(c)
        BY <3>2, <4>1, OpsOf
      <4>3. Owed(c)' = Owed(c)
        BY <1>2, <3>1 DEF Owed
      <4>4. Counted(c)'
        BY <1>2, <2>1, <3>1, <4>2, <4>3 DEF Counted
      <4>5. QED
        BY <4>1, <4>4
    <3>3. QED
      BY <1>1, <2>1, <3>1, <3>2, CountsOthers
  <2>4. QED
    BY <2>2, <2>3
<1>7. ASSUME NEW w \in Ops, NEW call, Attempt(w, call), UNCHANGED offset,
             \A x \in Ops : (x = w => w[2] = "out") => cancelled'[x] = cancelled[x],
             pc[w] \in {"idle", "waiting"},
             w[2] = "out" => result[w].kind \in {"none", "again"},
             w[2] = "out" /\ pc[w] = "waiting" => call = stage[w],
             w[2] = "out" /\ pc[w] = "idle" => /\ call = "write" /\ Payload[w[1]] > 0
                                               /\ result[w].kind = "none"
      PROVE  Counts'
  <2>1. /\ pc'[w] = "queued" /\ stage'[w] = call /\ result'[w] = Nothing
        /\ \A x \in Ops : x # w => /\ pc'[x] = pc[x] /\ stage'[x] = stage[x] /\ result'[x] = result[x]
    BY <1>7, AttemptDoes
  <2>2. ASSUME w[2] = "out" PROVE Counted(w[1])'
    <3>1. PICK c \in Channels : c = w[1]
      BY OpsOf
    <3>2. w = Writer(c) /\ cancelled'[w] = cancelled[w]
      BY <1>7, <2>2, <3>1, OpsOf
    <3>3. Nothing.kind = "none" /\ Nothing.count = 0
      BY DEF Nothing
    <3>4. result[w].count = 0 /\ Owed(c)' = 0
      BY <1>2, <1>7, <2>1, <2>2, <3>2, <3>3, OwedType DEF Owed
    <3>5. Owed(c) = 0 /\ offset[c] \in Nat /\ Payload[c] \in Nat /\ stage[w] \in {"write", "flush"}
      BY <3>2, <3>4, OwedType DEF Owed
    <3>6. /\ offset[c] <= Payload[c]
          /\ call = "write" => offset[c] < Payload[c]
          /\ call = "flush" => offset[c] = Payload[c]
      BY <1>2, <1>7, <2>2, <3>1, <3>2, <3>5 DEF Counted
    <3>7. ~cancelled[w] => libssh[c].accepted = offset[c]
      BY <1>2, <1>7, <2>2, <3>2, <3>5 DEF Counted
    <3>8. Counted(c)'
      BY <1>2, <1>7, <2>1, <3>2, <3>3, <3>4, <3>5, <3>6, <3>7 DEF Counted
    <3>9. QED
      BY <3>1, <3>8
  <2>3. \A x \in Ops : x # w => cancelled'[x] = cancelled[x]
    BY <1>7
  <2>4. QED
    BY <1>1, <1>7, <2>1, <2>2, <2>3, CountsOthers
<1>8. ASSUME NEW w \in Ops, Wake(w) PROVE Counts'
  <2>1. /\ Attempt(w, stage[w]) /\ UNCHANGED <<cancelled, offset>> /\ pc[w] = "waiting"
        /\ result[w].kind = "again"
    BY <1>8 DEF Wake, Returns, Returned
  <2>2. QED
    BY <1>7, <2>1
<1>9. ASSUME NEW c \in Channels, Open(c) PROVE Counts'
  <2>1. /\ Attempt(Reader(c), "alloc") /\ UNCHANGED <<cancelled, offset>> /\ Reader(c) \in Ops
        /\ Reader(c)[2] = "in"
    BY <1>9, OpsOf DEF Open
  <2>2. pc[Reader(c)] = "idle"
    BY <1>9 DEF Open, Lives, Life
  <2>3. QED
    BY <1>7, <2>1, <2>2
<1>10. ASSUME NEW c \in Channels, Read(c) PROVE Counts'
  <2>1. /\ Attempt(Reader(c), "read") /\ UNCHANGED offset /\ Reader(c) \in Ops
        /\ Reader(c)[2] = "in" /\ pc[Reader(c)] = "idle"
        /\ cancelled' = [cancelled EXCEPT ![Reader(c)] = FALSE]
    BY <1>10, OpsOf DEF Read
  <2>2. \A x \in Ops : x # Reader(c) => cancelled'[x] = cancelled[x]
    BY <2>1 DEF TypeClient
  <2>3. QED
    BY <1>7, <2>1, <2>2
<1>11. ASSUME NEW c \in Channels, Write(c) PROVE Counts'
  <2>1. /\ Attempt(Writer(c), "write") /\ UNCHANGED <<cancelled, offset>> /\ Writer(c) \in Ops
        /\ Writer(c)[1] = c /\ pc[Writer(c)] = "idle" /\ Payload[c] > 0
        /\ result[Writer(c)].kind = "none"
    BY <1>11, OpsOf DEF Write, Nothing
  <2>2. QED
    BY <1>7, <2>1
<1>12. ASSUME NEW c \in Channels, Close(c) PROVE Counts'
  <2>1. UNCHANGED <<pc, stage, result, cancelled, offset>>
    BY <1>12 DEF Close
  <2>2. \A d \in Channels : Counted(d)'
    BY <1>2, <2>1, CountedFrame
  <2>3. QED
    BY <2>2 DEF Counts
<1>13. QED
  BY <1>3, <1>5, <1>6, <1>8, <1>9, <1>10, <1>11, <1>12

\* What a call takes of a writer, it counts.
LEMMA CountsCall ==
  ASSUME TypeOK, Within, Returns, Turns, Counts, load' = load, NEW w \in Ops, CallCommand(w)
  PROVE  Counts'
<1>1. TypeClient /\ TypeSession
  BY TypeParts
<1>2. PICK c \in Channels : c = w[1]
  BY OpsOf
<1>3. /\ queue # <<>> /\ queue' = Tail(queue) /\ UNCHANGED <<conn, pc, stage, cancelled, offset>>
      /\ Head(queue) = w /\ Call(w) /\ running = {}
  BY DEF CallCommand, client, Turns
<1>4. Queued(w)
  BY <1>1, <1>3, Leaves
<1>5. pc[w] = "queued" /\ result[w] = Nothing
  BY <1>3, <1>4 DEF Turns, Returns, Returned
<1>6. \A x \in Ops : x # w => result'[x] = result[x]
  BY <1>3, CallReturns
<1>7. ASSUME NEW d \in Channels, w # Writer(d), libssh'[d].accepted = libssh[d].accepted,
             Unsent(d)' => Unsent(d)
      PROVE  Counted(d)'
  <2>1. Counted(d) /\ result'[Writer(d)] = result[Writer(d)]
    BY <1>6, <1>7, OpsOf DEF Counts
  <2>2. QED
    BY <1>3, <1>7, <2>1, CountedFrame
<1>8. CASE stage[w] = "alloc"
  <2>1. libssh' = [libssh EXCEPT ![c].state = "listed"] /\ UNCHANGED output
    BY <1>2, <1>3, <1>8 DEF Call, Alloc
  <2>2. \A d \in Channels : libssh'[d].accepted = libssh[d].accepted
    <3>1. PICK r : r = [libssh[c] EXCEPT !.state = "listed"]
      OBVIOUS
    <3>2. libssh[c] \in LibChannel /\ libssh \in Lib
      BY <1>1 DEF TypeSession, Lib
    <3>3. r.accepted = libssh[c].accepted
      BY <3>1, <3>2 DEF LibChannel
    <3>4. libssh'[c] = r /\ \A d \in Channels : d # c => libssh'[d] = libssh[d]
      BY <2>1, <3>1, <3>2 DEF Lib
    <3>5. QED
      BY <3>3, <3>4
  <2>3. \A d \in Channels : w # Writer(d)
    BY <1>8, OpsOf DEF Returns, Returned
  <2>4. \A d \in Channels : Unsent(d)' => Unsent(d)
    BY <2>1 DEF Unsent
  <2>5. \A d \in Channels : Counted(d)'
    BY <1>7, <2>2, <2>3, <2>4
  <2>6. QED
    BY <2>5 DEF Counts
<1>9. CASE stage[w] # "alloc"
  <2>1. PICK n \in Nat : CallOf(w, n)
    BY <1>3, <1>9, CallDoes
  <2>2. PICK l \in Lib : l = After[n]
    BY <2>1 DEF CallOf
  <2>3. PICK f \in Nat : /\ f = Fits(w, l) /\ (stage[w] # "write" => f = 0)
                         /\ f > 0 => stage[w] = "write" /\ f <= Payload[c] - offset[c]
    <3>1. /\ Fits(w, l) \in Nat
          /\ Fits(w, l) > 0 => stage[w] = "write" /\ Fits(w, l) <= Payload[c] - offset[c]
      BY <1>2, FitsType DEF Within
    <3>2. stage[w] # "write" => Fits(w, l) = 0
      BY DEF Fits
    <3>3. QED
      BY <3>1, <3>2
  <2>4. AnswerOn(w, l, c, f)
    BY <1>1, <1>2, <1>9, <2>1, <2>2, <2>3, AnswerDoes DEF CallOf
  <2>5. /\ libssh'[c].accepted = libssh[c].accepted + f
        /\ \A d \in Channels : d # c => libssh'[d].accepted = libssh[d].accepted
    BY <2>1, <2>2, <2>4 DEF CallOf, Keeps, AnswerOn
  <2>6. ASSUME NEW d \in Channels, Unsent(d)' PROVE Unsent(d) \/ (f > 0 /\ d = c)
    <3>1. PICK i \in DOMAIN output' : output'[i] = d
      BY <2>6 DEF Unsent
    <3>2. (\E j \in DOMAIN output : output'[i] = output[j]) \/ (f > 0 /\ output'[i] = c)
      BY <1>2, <2>1, <2>2, <2>3 DEF CallOf
    <3>3. QED
      BY <3>1, <3>2 DEF Unsent
  <2>7. ASSUME NEW d \in Channels, w # Writer(d) PROVE Counted(d)'
    <3>1. CASE d # c
      BY <1>7, <2>5, <2>6, <2>7, <3>1
    <3>2. CASE d = c
      <4>1. stage[w] # "write"
        BY <1>2, <2>7, <3>2, OpsOf DEF Returns, Returned
      <4>2. f = 0 /\ libssh[c].accepted \in Nat
        BY <1>1, <2>3, <4>1 DEF TypeSession, Lib, LibChannel
      <4>3. QED
        BY <1>7, <2>5, <2>6, <2>7, <3>2, <4>2
    <3>3. QED
      BY <3>1, <3>2
  <2>8. ASSUME w = Writer(c) PROVE Counted(c)'
    <3>1. /\ Counted(c) /\ Writer(c)' = Writer(c) /\ Payload'[c] = Payload[c]
          /\ offset[c] \in Nat /\ Payload[c] \in Nat /\ stage[w] \in {"write", "flush"}
      BY <1>1, <2>8, OwedType DEF Counts, Writer, Payload
    <3>2. Owed(c) = 0 /\ Owed(c)' = f
      BY <1>3, <1>5, <2>4, <2>8, <3>1 DEF Owed, Nothing, AnswerOn
    <3>3. offset[c] + f <= Payload[c]
      BY <1>5, <2>3, <2>8, <3>1 DEF Counted
    <3>4. ~cancelled[w] => libssh'[c].accepted = offset[c] + f
      <4>1. ~cancelled[w] => libssh[c].accepted = offset[c]
        BY <1>5, <2>8, <3>1, <3>2 DEF Counted, Nothing
      <4>2. QED
        BY <2>5, <4>1
    <3>5. result'[w].polls = (output' # <<>>)
      BY <1>1, <1>9, <2>1, <2>2, <2>3, AnswerReturns DEF CallOf
    <3>6. result'[w].kind = "ok" \/ (result'[w].kind = "wrote" /\ ~result'[w].polls) => output' = <<>>
      BY <2>4, <3>1, <3>5 DEF AnswerOn
    <3>7. output' = <<>> => ~Unsent(c)'
      BY DEF Unsent
    <3>8. pc'[w] # "idle" /\ stage' = stage /\ cancelled' = cancelled /\ offset' = offset
      BY <1>3, <1>5
    <3>9. QED
      BY <1>5, <2>8, <3>1, <3>2, <3>3, <3>4, <3>6, <3>7, <3>8 DEF Counted
  <2>9. ASSUME NEW d \in Channels PROVE Counted(d)'
    <3>1. w = Writer(d) => d = c
      BY <1>2, OpsOf
    <3>2. QED
      BY <2>7, <2>8, <3>1
  <2>10. QED
    BY <2>9 DEF Counts
<1>10. QED
  BY <1>8, <1>9

\* The worker counts what its calls take.
LEMMA CountsWorker ==
  ASSUME TypeOK, Within, Returns, Turns, Counts, load' = load, Worker
  PROVE  Counts'
<1>1. TypeClient /\ libssh \in Lib
  BY TypeParts DEF TypeSession
<1>2. ASSUME UNCHANGED <<stage, result, cancelled, offset, output>>,
             \A x \in Ops : pc'[x] = "idle" <=> pc[x] = "idle",
             \A d \in Channels : libssh'[d].accepted = libssh[d].accepted
      PROVE  Counts'
  <2>1. ASSUME NEW d \in Channels PROVE Counted(d)'
    <3>1. Counted(d) /\ Writer(d) \in Ops
      BY OpsOf DEF Counts
    <3>2. Unsent(d)' => Unsent(d)
      BY <1>2 DEF Unsent
    <3>3. QED
      BY <1>2, <3>1, <3>2, CountedFrame
  <2>2. QED
    BY <2>1 DEF Counts
<1>3. CASE CloseCommand
  <2>1. PICK c \in Channels : c = Head(queue)[1]
    BY <1>3 DEF CloseCommand
  <2>2. libssh' = [libssh EXCEPT ![c].state = "freed", ![c].buffer = <<>>]
    BY <1>3, <2>1 DEF CloseCommand
  <2>3. /\ libssh'[c] = [libssh[c] EXCEPT !.state = "freed", !.buffer = <<>>]
        /\ libssh[c] \in LibChannel
        /\ \A d \in Channels : d # c => libssh'[d] = libssh[d]
    BY <1>1, <2>2, FreedType DEF Lib
  <2>4. \A d \in Channels : libssh'[d].accepted = libssh[d].accepted
    BY <2>3 DEF LibChannel
  <2>5. UNCHANGED <<pc, stage, result, cancelled, offset, output>>
    BY <1>3 DEF CloseCommand, client
  <2>6. QED
    BY <1>2, <2>4, <2>5
<1>4. ASSUME NEW w \in Ops, CallCommand(w) PROVE Counts'
  BY <1>4, CountsCall
<1>5. CASE Retire
  <2>1. PICK w \in Ops : running = {w} /\ pc[w] = "queued"
    BY <1>5 DEF Retire, Turns
  <2>2. UNCHANGED <<stage, result, cancelled, offset, output, libssh>>
    BY <1>5 DEF Retire, session
  <2>3. \A x \in Ops : pc'[x] = "idle" <=> pc[x] = "idle"
    BY <1>5, <2>1 DEF Retire
  <2>4. QED
    BY <1>2, <2>2, <2>3
<1>6. CASE NotifyProgress
  BY <1>2, <1>6 DEF NotifyProgress, client
<1>7. CASE Stop
  <2>1. UNCHANGED <<pc, stage, result, cancelled, offset, output>>
    BY <1>7 DEF Stop, client
  <2>2. ASSUME NEW d \in Channels PROVE libssh'[d].accepted = libssh[d].accepted
    <3>1. PICK r : r = [libssh[d] EXCEPT !.buffer = <<>>,
                                         !.state = IF @ = "listed" THEN "freed" ELSE @]
      OBVIOUS
    <3>2. libssh'[d] = r /\ libssh[d] \in LibChannel
      BY <1>1, <1>7, <3>1 DEF Stop, Lib
    <3>3. QED
      BY <3>1, <3>2 DEF LibChannel
  <2>3. QED
    BY <1>2, <2>1, <2>2
<1>8. QED
  BY <1>1, <1>3, <1>4, <1>5, <1>6, <1>7, ExecuteCases DEF Worker

-----------------------------------------------------------------------------
(* The bytes of a channel, in order.                                        *)

\* A reader's bytes stay where they are.
LEMMA StreamFrame ==
  ASSUME NEW c \in Channels, Stream(c), load' = load, got'[c] = got[c], Held(c)' = Held(c),
         result'[Reader(c)].kind = "eof" => result[Reader(c)].kind = "eof",
         incoming' = incoming, connected' => connected,
         server'[c].sent = server[c].sent, server'[c].eof = server[c].eof,
         libssh'[c].eof = libssh[c].eof, libssh'[c].buffer = libssh[c].buffer,
         libssh'[c].state # "freed" => libssh[c].state # "freed",
         libssh'[c].state = "none" => libssh[c].state = "none"
  PROVE  Stream(c)'
<1>1. Reader(c)' = Reader(c) /\ Sends'[c] = Sends[c]
  BY DEF Reader, Sends
<1>2. PICK g : g = Len(got[c]) /\ g = Len(got[c])'
  OBVIOUS
<1>3. PICK h : h = Len(Held(c)) /\ h = Len(Held(c))'
  OBVIOUS
<1>4. PICK b : b = g + h + Len(libssh[c].buffer) /\ b = g + h + Len(libssh'[c].buffer)
  OBVIOUS
<1>5. /\ Numbered(got[c], 0)
      /\ result[Reader(c)].kind = "eof" /\ connected => g = Sends[c]
      /\ server[c].eof => server[c].sent = Sends[c]
      /\ libssh[c].state # "freed" =>
          /\ Numbered(Held(c), g) /\ Numbered(libssh[c].buffer, g + h)
          /\ Follows(c, 0, b)
          /\ EndsAfter(c, 0, libssh[c].eof)
          /\ Eofs(c)
      /\ libssh[c].state = "none" => g = 0
  BY <1>2, <1>3, <1>4 DEF Stream
<1>6. /\ Numbered(got'[c], 0)
      /\ result'[Reader(c)].kind = "eof" /\ connected' => g = Sends[c]
      /\ server'[c].eof => server'[c].sent = Sends[c]
      /\ libssh'[c].state = "none" => g = 0
  BY <1>5
<1>7. ASSUME libssh'[c].state # "freed"
      PROVE  /\ Numbered(Held(c)', g) /\ Numbered(libssh'[c].buffer, g + h)
             /\ Follows(c, 0, b)' /\ EndsAfter(c, 0, libssh[c].eof)' /\ Eofs(c)'
  <2>1. Numbered(Held(c)', g) /\ Numbered(libssh'[c].buffer, g + h)
    BY <1>5, <1>7
  <2>2. Follows(c, 0, b)'
    BY <1>5, <1>7 DEF Follows, DataAt
  <2>3. EndsAfter(c, 0, libssh[c].eof)'
    BY <1>5, <1>7 DEF EndsAfter, DataAt
  <2>4. Eofs(c)'
    BY <1>5, <1>7 DEF Eofs, DataAt
  <2>5. QED
    BY <2>1, <2>2, <2>3, <2>4
<1>8. QED
  BY <1>1, <1>2, <1>3, <1>4, <1>6, <1>7 DEF Stream, Numbered, EndsAfter

\* One run of numbered bytes behind another.
LEMMA NumberedConcat ==
  ASSUME NEW s \in Seq(Bytes), NEW t \in Seq(Bytes), Numbered(s, 0), Numbered(t, Len(s))
  PROVE  /\ s \o t \in Seq(Bytes) /\ Len(s \o t) = Len(s) + Len(t)
         /\ Numbered(s \o t, 0)
<1>1. s \o t \in Seq(Bytes) /\ Len(s \o t) = Len(s) + Len(t)
  BY ConcatLength
<1>2. Len(s) \in Nat /\ Len(t) \in Nat /\ DOMAIN s = 1 .. Len(s) /\ DOMAIN t = 1 .. Len(t)
  OBVIOUS
<1>3. ASSUME NEW i \in 1 .. Len(s) + Len(t) PROVE (s \o t)[i] = 0 + i
  <2>1. CASE i <= Len(s)
    <3>1. (s \o t)[i] = s[i] /\ i \in DOMAIN s
      BY <1>2, <1>3, <2>1
    <3>2. QED
      BY <3>1 DEF Numbered
  <2>2. CASE i > Len(s)
    <3>1. (s \o t)[i] = t[i - Len(s)] /\ i - Len(s) \in DOMAIN t
      BY <1>2, <1>3, <2>2
    <3>2. t[i - Len(s)] = Len(s) + (i - Len(s))
      BY <3>1 DEF Numbered
    <3>3. QED
      BY <1>2, <3>1, <3>2
  <2>3. QED
    BY <1>2, <2>1, <2>2
<1>4. DOMAIN (s \o t) = 1 .. Len(s) + Len(t)
  BY <1>1
<1>5. QED
  BY <1>1, <1>3, <1>4 DEF Numbered

\* What a reader's call has returned is given to its caller behind the rest.
LEMMA StreamReturned ==
  ASSUME TypeClient, NEW c \in Channels, Stream(c), load' = load, UNCHANGED <<session, server>>,
         got'[c] = got[c] \o Held(c), Held(c)' = <<>>, UNCHANGED result,
         libssh[c].state = "listed", result[Reader(c)].kind = "data"
  PROVE  Stream(c)'
<1>1. UNCHANGED <<libssh, incoming, connected>>
  BY DEF session
<1>2. got[c] \in Seq(Bytes) /\ Held(c) \in Seq(Bytes)
  BY OpsOf DEF TypeClient, ResultType, Held
<1>3. PICK g \in Nat : g = Len(got[c])
  BY <1>2
<1>4. PICK h \in Nat : h = Len(Held(c))
  BY <1>2
<1>5. PICK b : b = g + h + Len(libssh[c].buffer)
  OBVIOUS
<1>6. /\ Numbered(got[c], 0) /\ Numbered(Held(c), g) /\ Numbered(libssh[c].buffer, g + h)
      /\ server[c].eof => server[c].sent = Sends[c]
      /\ Follows(c, 0, b) /\ EndsAfter(c, 0, libssh[c].eof) /\ Eofs(c)
  BY <1>3, <1>4, <1>5 DEF Stream
<1>7. Len(got'[c]) = g + h /\ Numbered(got'[c], 0)
  BY <1>2, <1>3, <1>4, <1>6, NumberedConcat
<1>8. Reader(c)' = Reader(c) /\ Sends'[c] = Sends[c]
  BY DEF Reader, Sends
<1>9. /\ Numbered(Held(c)', Len(got'[c])) /\ Len(Held(c)') = 0
      /\ b = Len(got'[c]) + Len(Held(c)') + Len(libssh'[c].buffer)
      /\ Numbered(libssh'[c].buffer, Len(got'[c]) + Len(Held(c)'))
  <2>1. Len(Held(c)') = 0 /\ Len(got'[c]) + Len(Held(c)') = g + h
    BY <1>7
  <2>2. Numbered(Held(c)', Len(got'[c]))
    BY DEF Numbered
  <2>3. QED
    BY <1>1, <1>5, <1>6, <2>1, <2>2
<1>10. Follows(c, 0, b)'
  BY <1>1, <1>6 DEF Follows, DataAt
<1>11. EndsAfter(c, 0, libssh[c].eof)'
  BY <1>1, <1>6 DEF EndsAfter, DataAt
<1>12. Eofs(c)'
  BY <1>1, <1>6 DEF Eofs, DataAt
<1>13. QED
  BY <1>1, <1>6, <1>7, <1>8, <1>9, <1>10, <1>11, <1>12 DEF Stream, Numbered, EndsAfter

\* A reader that goes on, or another operation, keeps its bytes in order.
LEMMA StreamsDispatch ==
  ASSUME TypeClient, Returns, Lives, Streams, load' = load, UNCHANGED <<session, server>>,
         \/ \E w \in Ops : Resume(w) \/ Throw(w) \/ Wake(w) \/ Cancel(w)
         \/ \E c \in Channels : Open(c) \/ Read(c) \/ Write(c) \/ Close(c)
  PROVE  Streams'
<1> SUFFICES ASSUME ~Interrupts
             PROVE  (\A w \in Ops : ~cancelled'[w]) /\ \A c \in Channels : Stream(c)'
  BY DEF Streams, Interrupts
<1>1. /\ \A w \in Ops : ~cancelled[w]
      /\ \A c \in Channels : Stream(c) /\ Reader(c) \in Ops /\ Reader(c)' = Reader(c)
  BY OpsOf DEF Streams, Reader
<1>2. \A w \in Ops : ~cancelled'[w]
  <2>1. cancelled' = cancelled \/ \E x \in Ops : cancelled' = [cancelled EXCEPT ![x] = FALSE]
    BY OpsOf DEF Resume, Throw, Wake, Cancel, Open, Read, Write, Close
  <2>2. QED
    BY <1>1, <2>1 DEF TypeClient
<1>3. UNCHANGED <<libssh, incoming, connected>>
  BY DEF session
<1>4. ASSUME NEW c \in Channels, got'[c] = got[c], Held(c)' = Held(c),
             result'[Reader(c)].kind = "eof" => result[Reader(c)].kind = "eof"
      PROVE  Stream(c)'
  BY <1>1, <1>3, <1>4, StreamFrame
<1>5. ASSUME NEW c \in Channels, pc[Reader(c)] = "idle" \/ result[Reader(c)].kind # "data"
      PROVE  Held(c) = <<>>
  BY <1>1, <1>5 DEF Held, Returns, Returned
<1>6. ASSUME NEW w \in Ops, NEW call, Attempt(w, call), pc[w] = "idle" \/ result[w].kind # "data",
             \A d \in Channels : got'[d] = got[d]
      PROVE  \A c \in Channels : Stream(c)'
  <2>1. /\ result'[w] = Nothing
        /\ \A x \in Ops : x # w => pc'[x] = pc[x] /\ result'[x] = result[x]
    BY <1>6, AttemptDoes
  <2>2. Nothing.kind = "none" /\ Nothing.bytes = <<>>
    BY DEF Nothing
  <2>3. ASSUME NEW c \in Channels PROVE Stream(c)'
    <3>1. CASE w = Reader(c)
      <4>1. Held(c) = <<>> /\ Held(c)' = <<>>
        BY <1>1, <1>5, <1>6, <2>1, <2>2, <3>1 DEF Held
      <4>2. QED
        BY <1>4, <1>6, <2>1, <2>2, <3>1, <4>1
    <3>2. CASE w # Reader(c)
      <4>1. Held(c)' = Held(c) /\ result'[Reader(c)] = result[Reader(c)]
        BY <1>1, <2>1, <3>2 DEF Held
      <4>2. QED
        BY <1>4, <1>6, <4>1
    <3>3. QED
      BY <3>1, <3>2
  <2>4. QED
    BY <2>3
<1>7. ASSUME UNCHANGED result, \A d \in Channels : got'[d] = got[d],
             \A x \in Ops : pc'[x] = pc[x] \/ result[x].kind # "data"
      PROVE  \A c \in Channels : Stream(c)'
  <2>1. ASSUME NEW c \in Channels PROVE Stream(c)'
    <3>1. Held(c)' = Held(c)
      <4>1. CASE pc'[Reader(c)] = pc[Reader(c)]
        BY <1>1, <1>7, <4>1 DEF Held
      <4>2. CASE result[Reader(c)].kind # "data"
        <5>1. result[Reader(c)].bytes = <<>>
          BY <1>1, <4>2 DEF Returns, Returned
        <5>2. QED
          BY <1>1, <1>7, <5>1 DEF Held
      <4>3. QED
        BY <1>1, <1>7, <4>1, <4>2
    <3>2. QED
      BY <1>4, <1>7, <3>1
  <2>2. QED
    BY <2>1
<1>8. ASSUME NEW w \in Ops, Resume(w) PROVE \A c \in Channels : Stream(c)'
  <2>1. PICK c \in Channels : c = w[1]
    BY OpsOf
  <2>2. got' = [got EXCEPT ![c] = got[c] \o result[w].bytes] /\ pc[w] = "ready"
    BY <1>8, <2>1 DEF Resume
  <2>3. CASE result[w].kind # "data"
    <3>1. result[w].bytes = <<>>
      BY <2>3 DEF Returns, Returned
    <3>2. got[c] \o <<>> = got[c]
      BY DEF TypeClient
    <3>3. \A d \in Channels : got'[d] = got[d]
      BY <2>2, <3>1, <3>2 DEF TypeClient
    <3>4. CASE \E call : Attempt(w, call)
      BY <1>6, <2>3, <3>3, <3>4
    <3>5. CASE Finish(w, w[1], FALSE)
      <4>1. UNCHANGED result /\ \A x \in Ops : x # w => pc'[x] = pc[x]
        BY <3>5, FinishDoes
      <4>2. QED
        BY <1>7, <2>3, <3>3, <4>1
    <3>6. CASE pc' = [pc EXCEPT ![w] = "waiting"] /\ UNCHANGED result
      <4>1. \A x \in Ops : x # w => pc'[x] = pc[x]
        BY <3>6 DEF TypeClient
      <4>2. QED
        BY <1>7, <2>3, <3>3, <3>6, <4>1
    <3>7. QED
      BY <1>8, <3>4, <3>5, <3>6 DEF Resume
  <2>4. CASE result[w].kind = "data"
    <3>1. w[2] = "in" /\ stage[w] = "read"
      BY <2>4, OpsOf DEF Returns, Returned, KindOK, TypeClient
    <3>2. w = Reader(c)
      BY <2>1, <3>1, OpsOf
    <3>3. Finish(w, w[1], FALSE)
      BY <1>8, <2>4 DEF Resume
    <3>4. pc'[w] = "idle" /\ UNCHANGED result /\ \A x \in Ops : x # w => pc'[x] = pc[x]
      BY <3>3, FinishDoes
    <3>5. libssh[c].state = "listed"
      <4>1. conn[c] \in {"new", "opening", "open", "closed"} /\ Life(c)
        BY DEF TypeClient, Lives
      <4>2. QED
        BY <2>2, <3>1, <3>2, <4>1 DEF Life
    <3>6. Held(c) = result[w].bytes /\ Held(c)' = <<>>
      BY <1>1, <2>2, <3>2, <3>4 DEF Held
    <3>7. got'[c] = got[c] \o Held(c) /\ \A d \in Channels : d # c => got'[d] = got[d]
      BY <2>2, <3>6 DEF TypeClient
    <3>8. Stream(c)'
      BY <1>1, <2>4, <3>2, <3>4, <3>5, <3>6, <3>7, StreamReturned
    <3>9. ASSUME NEW d \in Channels, d # c PROVE Stream(d)'
      <4>1. Reader(d) # w /\ Reader(d) \in Ops
        BY <3>2, <3>9, OpsOf
      <4>2. Held(d)' = Held(d)
        BY <1>1, <3>4, <4>1 DEF Held
      <4>3. QED
        BY <1>4, <3>4, <3>7, <3>9, <4>2
    <3>10. QED
      BY <3>8, <3>9
  <2>5. QED
    BY <2>3, <2>4
<1>9. ASSUME NEW w \in Ops, Throw(w) PROVE \A c \in Channels : Stream(c)'
  <2>1. Finish(w, w[1], TRUE) /\ UNCHANGED got /\ result[w].kind = "failed"
    BY <1>1, <1>9 DEF Throw
  <2>2. UNCHANGED result /\ \A x \in Ops : x # w => pc'[x] = pc[x]
    BY <2>1, FinishDoes
  <2>3. QED
    BY <1>7, <2>1, <2>2
<1>10. ASSUME NEW w \in Ops, Wake(w) PROVE \A c \in Channels : Stream(c)'
  <2>1. Attempt(w, stage[w]) /\ UNCHANGED got /\ result[w].kind = "again"
    BY <1>10 DEF Wake, Returns, Returned
  <2>2. QED
    BY <1>6, <2>1
<1>11. ASSUME NEW c \in Channels, Open(c) \/ Read(c) \/ Write(c) PROVE \A d \in Channels : Stream(d)'
  <2>1. PICK w \in Ops : pc[w] = "idle" /\ UNCHANGED got /\ \E call : Attempt(w, call)
    <3>1. Open(c) => pc[Reader(c)] = "idle"
      BY DEF Open, Lives, Life
    <3>2. QED
      BY <1>11, <3>1, OpsOf DEF Open, Read, Write
  <2>2. QED
    BY <1>6, <2>1
<1>12. ASSUME NEW c \in Channels, Close(c) PROVE \A d \in Channels : Stream(d)'
  BY <1>7, <1>12 DEF Close
<1>13. \A w \in Ops : ~Cancel(w)
  BY DEF Cancel
<1>14. QED
  BY <1>2, <1>8, <1>9, <1>10, <1>11, <1>12, <1>13

\* What is known of a channel, put together behind a step.
LEMMA StreamIs ==
  ASSUME NEW c \in Channels, load' = load, NEW g, g = Len(got'[c]), NEW h, h = Len(Held(c)'),
         NEW b, b = g + h + Len(libssh'[c].buffer), NEW e, e = libssh'[c].eof,
         Numbered(got'[c], 0), result'[Reader(c)].kind = "eof" /\ connected' => g = Sends[c],
         server'[c].eof => server'[c].sent = Sends[c],
         libssh'[c].state # "freed" =>
            /\ Numbered(Held(c)', g) /\ Numbered(libssh'[c].buffer, g + h)
            /\ Follows(c, 0, b)' /\ EndsAfter(c, 0, e)' /\ Eofs(c)',
         libssh'[c].state = "none" => g = 0
  PROVE  Stream(c)'
<1>1. Reader(c)' = Reader(c) /\ Sends'[c] = Sends[c]
  BY DEF Reader, Sends
<1>2. QED
  BY <1>1 DEF Stream, Numbered, EndsAfter

\* What follows the first n packets follows the buffer when they are gone.
LEMMA StreamShift ==
  ASSUME incoming \in Seq(Packet), NEW n \in 0 .. Len(incoming),
         incoming' = SubSeq(incoming, n + 1, Len(incoming)), server' = server,
         NEW c \in Channels, NEW b, Follows(c, n, b), NEW e, EndsAfter(c, n, e), Eofs(c)
  PROVE  Follows(c, 0, b)' /\ EndsAfter(c, 0, e)' /\ Eofs(c)'
<1>1. /\ incoming' \in Seq(Packet) /\ Len(incoming') = Len(incoming) - n
      /\ \A i \in 1 .. Len(incoming) - n : incoming'[i] = incoming[n + i]
  BY PacketsLeft
<1>2. /\ Len(incoming) \in Nat /\ n \in Nat /\ DOMAIN incoming = 1 .. Len(incoming)
      /\ DOMAIN incoming' = 1 .. Len(incoming) - n
  BY <1>1
<1>3. ASSUME NEW i \in DOMAIN incoming'
      PROVE  /\ n + i \in DOMAIN incoming /\ n + i > n /\ incoming'[i] = incoming[n + i]
             /\ DataAt(c, i)' <=> DataAt(c, n + i)
  <2>1. n + i \in DOMAIN incoming /\ n + i > n /\ incoming'[i] = incoming[n + i]
    <3>1. i \in 1 .. Len(incoming) - n
      BY <1>2
    <3>2. n + i \in 1 .. Len(incoming) /\ n + i > n
      BY <1>2, <3>1
    <3>3. QED
      BY <1>1, <1>2, <3>1, <3>2
  <2>2. QED
    BY <2>1 DEF DataAt
<1>4. Follows(c, 0, b)'
  <2>1. b <= server'[c].sent
    BY DEF Follows
  <2>2. ASSUME NEW i \in DOMAIN incoming', DataAt(c, i)'
        PROVE  incoming'[i][3] \in b + 1 .. server'[c].sent
    BY <1>3, <2>2 DEF Follows
  <2>3. ASSUME NEW i \in DOMAIN incoming', NEW j \in DOMAIN incoming', i < j,
               DataAt(c, i)', DataAt(c, j)'
        PROVE  incoming'[i][3] < incoming'[j][3]
    <3>1. n < n + i /\ n + i < n + j
      BY <1>2, <2>3
    <3>2. QED
      BY <1>3, <2>3, <3>1 DEF Follows
  <2>4. ASSUME NEW k \in b + 1 .. server'[c].sent
        PROVE  \E i \in DOMAIN incoming' : i > 0 /\ DataAt(c, i)' /\ incoming'[i][3] = k
    <3>1. PICK i \in DOMAIN incoming : i > n /\ DataAt(c, i) /\ incoming[i][3] = k
      BY <2>4 DEF Follows
    <3>2. i - n \in DOMAIN incoming' /\ n + (i - n) = i /\ i - n > 0
      BY <1>2, <3>1
    <3>3. DataAt(c, i - n)' /\ incoming'[i - n][3] = k
      BY <1>1, <1>2, <3>1, <3>2 DEF DataAt
    <3>4. QED
      BY <3>2, <3>3
  <2>5. QED
    BY <2>1, <2>2, <2>3, <2>4 DEF Follows
<1>5. EndsAfter(c, 0, e)'
  BY <1>3 DEF EndsAfter
<1>6. Eofs(c)'
  <2>1. ASSUME NEW i \in DOMAIN incoming', incoming'[i] = <<"eof", c>>
        PROVE  server'[c].eof /\ \A j \in DOMAIN incoming' : j > i => ~DataAt(c, j)'
    <3>1. incoming[n + i] = <<"eof", c>> /\ n + i \in DOMAIN incoming
      BY <1>3, <2>1
    <3>2. server[c].eof /\ \A j \in DOMAIN incoming : j > n + i => ~DataAt(c, j)
      BY <3>1 DEF Eofs
    <3>3. ASSUME NEW j \in DOMAIN incoming', j > i PROVE ~DataAt(c, j)'
      <4>1. n + j > n + i
        BY <1>2, <3>3
      <4>2. QED
        BY <1>3, <3>2, <4>1
    <3>4. QED
      BY <3>2, <3>3
  <2>2. QED
    BY <2>1 DEF Eofs
<1>7. QED
  BY <1>4, <1>5, <1>6

\* What a call makes of the bytes of a channel that is not freed.
LEMMA StreamPassed ==
  ASSUME TypeOK, NEW d \in Channels, Life(d), Stream(d), libssh[d].state # "freed",
         NEW w, NEW n \in Nat, CallOf(w, n), NEW l \in Lib, l = After[n], server' = server,
         NEW b \in Nat, b = Len(got[d]) + Len(Held(d))
  PROVE  /\ Numbered(l[d].buffer, b)
         /\ Follows(d, 0, b + Len(l[d].buffer))' /\ EndsAfter(d, 0, l[d].eof)' /\ Eofs(d)'
         /\ l[d].eof /\ l[d].buffer = <<>> => b = Sends[d]
<1>1. /\ TypeSession /\ libssh \in Lib /\ incoming \in Seq(Packet) /\ n \in 0 .. Len(incoming)
      /\ incoming' = SubSeq(incoming, n + 1, Len(incoming))
      /\ server[d].sent \in Nat /\ server[d].eof \in BOOLEAN
  BY TypeParts DEF TypeSession, CallOf, ServerType
<1>2. StreamAt(d, 0, b, libssh) /\ Eofs(d)
  BY DEF Stream, StreamAt
<1>3. \A i \in DOMAIN incoming : DataAt(d, i) => libssh[d].state = "listed"
  <2>1. ASSUME NEW i \in DOMAIN incoming, DataAt(d, i) PROVE libssh[d].state = "listed"
    <3>1. PICK k \in Nat : k = Len(libssh[d].buffer)
      <4>1. libssh[d] \in LibChannel
        BY <1>1 DEF Lib
      <4>2. QED
        BY <4>1 DEF LibChannel
    <3>2. b + k \in Nat /\ Follows(d, 0, b + k)
      <4>1. Follows(d, 0, b + Len(libssh[d].buffer))
        BY <1>2 DEF StreamAt
      <4>2. b + k \in Nat
        OBVIOUS
      <4>3. QED
        BY <3>1, <4>1, <4>2
    <3>3. i > 0
      BY <1>1
    <3>4. incoming[i][3] \in (b + k) + 1 .. server[d].sent
      BY <2>1, <3>2, <3>3 DEF Follows
    <3>5. server[d].sent > 0
      BY <1>1, <3>2, <3>4
    <3>6. libssh[d].state # "none"
      BY <3>5 DEF Life
    <3>7. QED
      BY <1>1, <3>6 DEF Lib, LibChannel
  <2>2. QED
    BY <2>1
<1>4. StreamAt(d, n, b, l)
  BY <1>1, <1>2, <1>3, AfterStreams
<1>5. PICK x : x = b + Len(l[d].buffer)
  OBVIOUS
<1>6. PICK e : e = l[d].eof
  OBVIOUS
<1>7. Numbered(l[d].buffer, b) /\ Follows(d, n, x) /\ EndsAfter(d, n, e)
  BY <1>4, <1>5, <1>6 DEF StreamAt
<1>8. Follows(d, 0, x)' /\ EndsAfter(d, 0, e)' /\ Eofs(d)'
  BY <1>1, <1>2, <1>7, StreamShift
<1>9. ASSUME l[d].eof, l[d].buffer = <<>> PROVE b = Sends[d]
  <2>1. x = b
    BY <1>5, <1>9
  <2>2. server[d].sent = Sends[d] /\ \A i \in DOMAIN incoming : i > n => ~DataAt(d, i)
    BY <1>6, <1>7, <1>9 DEF EndsAfter, Stream
  <2>3. b <= server[d].sent /\ ~(server[d].sent \in b + 1 .. server[d].sent)
    BY <1>7, <2>1, <2>2 DEF Follows
  <2>4. server[d].sent = b
    BY <1>1, <2>3
  <2>5. QED
    BY <2>2, <2>4
<1>10. QED
  BY <1>5, <1>6, <1>7, <1>8, <1>9

\* A call moves bytes from the socket to a buffer and from a buffer to a result.
LEMMA StreamsCall ==
  ASSUME TypeOK, Within, Returns, Turns, Lives, Streams, ~Interrupts, load' = load,
         NEW w \in Ops, CallCommand(w)
  PROVE  \A d \in Channels : Stream(d)'
<1>1. TypeClient /\ TypeSession
  BY TypeParts
<1>2. PICK c \in Channels : c = w[1]
  BY OpsOf
<1>3. /\ queue # <<>> /\ queue' = Tail(queue) /\ UNCHANGED <<conn, pc, stage, got, server>>
      /\ Head(queue) = w /\ Call(w) /\ running = {}
  BY DEF CallCommand, client, Turns
<1>4. Queued(w)
  BY <1>1, <1>3, Leaves
<1>5. pc[w] = "queued" /\ result[w] = Nothing
  BY <1>3, <1>4 DEF Turns, Returns, Returned
<1>6. /\ \A x \in Ops : x # w => result'[x] = result[x]
      /\ result'[w].kind # "data" => result'[w].bytes = <<>>
  BY <1>3, CallReturns
<1>7. \A d \in Channels : /\ Stream(d) /\ Life(d) /\ Reader(d) \in Ops /\ Reader(d)' = Reader(d)
                          /\ w # Reader(d) => /\ Held(d)' = Held(d)
                                              /\ result'[Reader(d)] = result[Reader(d)]
  BY <1>3, <1>6, OpsOf DEF Streams, Lives, Held, Reader
<1>8. libssh[c].state # "freed"
  <2>1. w = Reader(c) \/ w = Writer(c)
    BY <1>2, OpsOf
  <2>2. Life(c)
    BY <1>7
  <2>3. conn[c] # "closed"
    BY <1>5, <2>1, <2>2 DEF Life
  <2>4. QED
    BY <2>2, <2>3 DEF Life
<1>9. CASE stage[w] = "alloc"
  <2>1. /\ libssh' = [libssh EXCEPT ![c].state = "listed"]
        /\ result' = [result EXCEPT ![w] = [kind |-> "ok", bytes |-> <<>>, count |-> 0, polls |-> FALSE]]
        /\ UNCHANGED <<connected, incoming>>
    BY <1>2, <1>3, <1>9 DEF Call, Alloc
  <2>2. \A d \in Channels : /\ libssh'[d].eof = libssh[d].eof /\ libssh'[d].buffer = libssh[d].buffer
                            /\ libssh'[d].state # "freed" => libssh[d].state # "freed"
                            /\ libssh'[d].state = "none" => libssh[d].state = "none"
    <3>1. PICK r : r = [libssh[c] EXCEPT !.state = "listed"]
      OBVIOUS
    <3>2. libssh[c] \in LibChannel /\ libssh \in Lib
      BY <1>1 DEF TypeSession, Lib
    <3>3. r.eof = libssh[c].eof /\ r.buffer = libssh[c].buffer /\ r.state = "listed"
      BY <3>1, <3>2 DEF LibChannel
    <3>4. libssh'[c] = r /\ \A d \in Channels : d # c => libssh'[d] = libssh[d]
      BY <2>1, <3>1, <3>2 DEF Lib
    <3>5. QED
      BY <1>8, <3>3, <3>4
  <2>3. result'[w].kind = "ok" /\ result'[w].bytes = <<>>
    BY <1>1, <2>1 DEF TypeClient
  <2>4. ASSUME NEW d \in Channels PROVE Stream(d)'
    <3>1. CASE w = Reader(d)
      <4>1. Held(d)' = <<>> /\ Held(d) = <<>>
        BY <1>3, <1>5, <1>7, <2>3, <3>1 DEF Held, Nothing
      <4>2. QED
        BY <1>3, <1>7, <2>1, <2>2, <2>3, <3>1, <4>1, StreamFrame
    <3>2. CASE w # Reader(d)
      BY <1>3, <1>7, <2>1, <2>2, <3>2, StreamFrame
    <3>3. QED
      BY <3>1, <3>2
  <2>5. QED
    BY <2>4
<1>10. CASE stage[w] # "alloc"
  <2>1. PICK n \in Nat : CallOf(w, n)
    BY <1>3, <1>10, CallDoes
  <2>2. PICK l \in Lib : l = After[n]
    BY <2>1 DEF CallOf
  <2>3. PICK f \in Nat : f = Fits(w, l) /\ (stage[w] # "write" => f = 0)
    <3>1. Fits(w, l) \in Nat
      BY FitsType DEF Within
    <3>2. stage[w] # "write" => Fits(w, l) = 0
      BY DEF Fits
    <3>3. QED
      BY <3>1, <3>2
  <2>4. AnswerOn(w, l, c, f)
    BY <1>1, <1>2, <1>10, <2>1, <2>2, <2>3, AnswerDoes DEF CallOf
  <2>5. \A d \in Channels : libssh'[d].state = libssh[d].state /\ libssh'[d].eof = l[d].eof
    BY <1>2, <1>3, <1>10, <2>4, CallStates DEF AnswerOn
  <2>6. connected' => connected
    BY <2>1 DEF CallOf
  <2>7. ASSUME NEW d \in Channels PROVE Stream(d)'
    <3>1. got[d] \in Seq(Bytes) /\ Held(d) \in Seq(Bytes)
      BY <1>1, <1>7 DEF TypeClient, ResultType, Held
    <3>2. PICK g \in Nat : g = Len(got[d]) /\ g = Len(got'[d])
      BY <1>3, <3>1
    <3>3. /\ Numbered(got'[d], 0) /\ (libssh'[d].state = "none" => g = 0)
          /\ server'[d].eof => server'[d].sent = Sends[d]
      BY <1>3, <1>7, <2>5, <3>2 DEF Stream
    <3>4. PICK e : e = libssh'[d].eof /\ e = l[d].eof
      BY <2>5
    <3>5. PICK h \in Nat : h = Len(Held(d))
      BY <3>1
    <3>6. PICK k : k = Len(l[d].buffer)
      OBVIOUS
    <3>7. ASSUME libssh[d].state # "freed"
          PROVE  /\ Numbered(l[d].buffer, g + h)
                 /\ Follows(d, 0, g + h + k)' /\ EndsAfter(d, 0, e)' /\ Eofs(d)'
                 /\ l[d].eof /\ l[d].buffer = <<>> => g + h = Sends[d]
      <4>1. PICK b \in Nat : b = g + h
        OBVIOUS
      <4>2. b = Len(got[d]) + Len(Held(d))
        BY <3>2, <3>5, <4>1
      <4>3. /\ Numbered(l[d].buffer, b)
            /\ Follows(d, 0, b + Len(l[d].buffer))' /\ EndsAfter(d, 0, l[d].eof)' /\ Eofs(d)'
            /\ l[d].eof /\ l[d].buffer = <<>> => b = Sends[d]
        BY <1>3, <1>7, <2>1, <2>2, <3>7, <4>2, StreamPassed
      <4>4. QED
        BY <3>4, <3>6, <4>1, <4>3
    <3>8. CASE w # Reader(d)
      <4>1. h = Len(Held(d)') /\ Held(d)' = Held(d) /\ result'[Reader(d)] = result[Reader(d)]
        BY <1>7, <3>5, <3>8
      <4>2. libssh'[d].buffer = l[d].buffer
        <5>1. CASE d # c
          BY <2>4, <5>1 DEF AnswerOn
        <5>2. CASE d = c
          <6>1. stage[w] # "read"
            BY <1>2, <3>8, <5>2, OpsOf DEF Returns, Returned
          <6>2. QED
            BY <2>4, <5>2, <6>1 DEF AnswerOn
        <5>3. QED
          BY <5>1, <5>2
      <4>3. libssh[d].state # "freed" => Numbered(Held(d)', g)
        BY <1>7, <3>2, <4>1 DEF Stream
      <4>4. result'[Reader(d)].kind = "eof" /\ connected' => g = Sends[d]
        BY <1>7, <2>6, <3>2, <4>1 DEF Stream
      <4>5. PICK b : b = g + h + Len(libssh'[d].buffer) /\ b = g + h + k
        BY <3>6, <4>2
      <4>6. QED
        BY <2>5, <3>2, <3>3, <3>4, <3>7, <4>1, <4>2, <4>3, <4>4, <4>5, StreamIs
    <3>9. CASE w = Reader(d)
      <4>1. d = c /\ stage[w] \in {"request", "read"} /\ pc'[w] # "idle"
        BY <1>2, <1>3, <1>5, <1>10, <3>9, OpsOf DEF Returns, Returned
      <4>2. h = 0 /\ Held(d)' = result'[w].bytes
        BY <1>3, <1>5, <1>7, <3>5, <3>9, <4>1 DEF Held, Nothing
      <4>3. g + h = g
        BY <4>2
      <4>4. libssh[d].state # "freed"
        BY <1>8, <4>1
      <4>5. l[d].buffer \in Seq(Bytes) /\ k \in Nat
        BY <3>6 DEF Lib, LibChannel
      <4>6. CASE result'[w].kind = "data"
        <5>1. Held(d)' = l[d].buffer /\ libssh'[d].buffer = <<>>
          BY <2>4, <4>1, <4>2, <4>6 DEF AnswerOn
        <5>2. Numbered(Held(d)', g) /\ k = Len(Held(d)') /\ Numbered(libssh'[d].buffer, g + k)
          BY <3>6, <3>7, <4>3, <4>4, <5>1 DEF Numbered
        <5>3. PICK b : b = g + k + Len(libssh'[d].buffer) /\ b = g + h + k
          BY <4>2, <4>5, <5>1
        <5>4. QED
          BY <3>2, <3>3, <3>4, <3>7, <3>9, <4>4, <4>6, <5>2, <5>3, StreamIs
      <4>7. CASE result'[w].kind # "data"
        <5>1. Held(d)' = <<>> /\ libssh'[d].buffer = l[d].buffer
          BY <1>6, <2>4, <4>1, <4>2, <4>7 DEF AnswerOn
        <5>2. Numbered(Held(d)', g) /\ h = Len(Held(d)')
          BY <4>2, <5>1 DEF Numbered
        <5>3. result'[w].kind = "eof" /\ connected' => g = Sends[d]
          <6>1. ASSUME result'[w].kind = "eof", connected' PROVE l[d].eof /\ l[d].buffer = <<>>
            BY <2>4, <4>1, <6>1 DEF AnswerOn, ReadReturns
          <6>2. QED
            BY <3>7, <4>3, <4>4, <6>1
        <5>4. PICK b : b = g + h + Len(libssh'[d].buffer) /\ b = g + h + k
          BY <3>6, <5>1
        <5>5. QED
          BY <3>2, <3>3, <3>4, <3>7, <3>9, <4>4, <5>1, <5>2, <5>3, <5>4, StreamIs
      <4>8. QED
        BY <4>6, <4>7
    <3>10. QED
      BY <3>8, <3>9
  <2>8. QED
    BY <2>7
<1>11. QED
  BY <1>9, <1>10

\* The worker keeps the bytes of every channel in order.
LEMMA StreamsWorker ==
  ASSUME TypeOK, Within, Returns, Turns, Shared, Lives, Streams, load' = load, Worker
  PROVE  Streams'
<1> SUFFICES ASSUME ~Interrupts
             PROVE  (\A w \in Ops : ~cancelled'[w]) /\ \A c \in Channels : Stream(c)'
  BY DEF Streams, Interrupts
<1>1. TypeClient /\ TypeSession /\ libssh \in Lib
  BY TypeParts DEF TypeSession
<1>2. UNCHANGED <<got, cancelled, server>>
  BY DEF Worker, Execute, Retire, NotifyProgress, Stop, client
<1>3. \A d \in Channels : Stream(d) /\ Reader(d) \in Ops /\ Reader(d)' = Reader(d)
  BY OpsOf DEF Streams, Reader
<1>4. ASSUME NEW d \in Channels, UNCHANGED <<result, incoming>>, connected' => connected,
             pc'[Reader(d)] = "idle" <=> pc[Reader(d)] = "idle",
             libssh'[d].eof = libssh[d].eof, libssh'[d].buffer = libssh[d].buffer,
             libssh'[d].state # "freed" => libssh[d].state # "freed",
             libssh'[d].state = "none" => libssh[d].state = "none"
      PROVE  Stream(d)'
  <2>1. Held(d)' = Held(d)
    BY <1>3, <1>4 DEF Held
  <2>2. QED
    BY <1>2, <1>3, <1>4, <2>1, StreamFrame
<1>5. ASSUME NEW d \in Channels, UNCHANGED result, connected' => connected,
             libssh'[d].state = "freed"
      PROVE  Stream(d)'
  <2>1. PICK g : g = Len(got[d]) /\ g = Len(got'[d])
    BY <1>2
  <2>2. /\ Numbered(got'[d], 0) /\ (server'[d].eof => server'[d].sent = Sends[d])
        /\ result'[Reader(d)].kind = "eof" /\ connected' => g = Sends[d]
    BY <1>2, <1>3, <1>5, <2>1 DEF Stream
  <2>3. PICK h : h = Len(Held(d)')
    OBVIOUS
  <2>4. PICK b : b = g + h + Len(libssh'[d].buffer)
    OBVIOUS
  <2>5. PICK e : e = libssh'[d].eof
    OBVIOUS
  <2>6. QED
    BY <1>5, <2>1, <2>2, <2>3, <2>4, <2>5, StreamIs
<1>6. CASE CloseCommand
  <2>1. PICK c \in Channels : c = Head(queue)[1]
    BY <1>6 DEF CloseCommand
  <2>2. libssh' = [libssh EXCEPT ![c].state = "freed", ![c].buffer = <<>>]
    BY <1>6, <2>1 DEF CloseCommand
  <2>3. /\ libssh'[c] = [libssh[c] EXCEPT !.state = "freed", !.buffer = <<>>]
        /\ libssh[c] \in LibChannel
        /\ \A d \in Channels : d # c => libssh'[d] = libssh[d]
    BY <1>1, <2>2, FreedType DEF Lib
  <2>4. libssh'[c].state = "freed"
    BY <2>3 DEF LibChannel
  <2>5. UNCHANGED <<pc, result, incoming, connected>>
    BY <1>6 DEF CloseCommand, client
  <2>6. ASSUME NEW d \in Channels PROVE Stream(d)'
    <3>1. CASE d = c
      BY <1>5, <2>4, <2>5, <3>1
    <3>2. CASE d # c
      BY <1>4, <2>3, <2>5, <3>2
    <3>3. QED
      BY <3>1, <3>2
  <2>7. QED
    BY <1>2, <2>6 DEF Streams
<1>7. ASSUME NEW w \in Ops, CallCommand(w) PROVE \A c \in Channels : Stream(c)'
  BY <1>7, StreamsCall
<1>8. CASE Retire
  <2>1. PICK w \in Ops : running = {w} /\ pc[w] = "queued"
    BY <1>8 DEF Retire, Turns
  <2>2. UNCHANGED <<result, incoming, connected, libssh>>
    BY <1>8 DEF Retire, session
  <2>3. \A x \in Ops : pc'[x] = "idle" <=> pc[x] = "idle"
    BY <1>8, <2>1 DEF Retire
  <2>4. \A d \in Channels : Stream(d)'
    BY <1>3, <1>4, <2>2, <2>3
  <2>5. QED
    BY <1>2, <2>4 DEF Streams
<1>9. CASE NotifyProgress
  <2>1. UNCHANGED <<pc, result, incoming, connected, libssh>>
    BY <1>9 DEF NotifyProgress, client
  <2>2. \A d \in Channels : Stream(d)'
    BY <1>4, <2>1
  <2>3. QED
    BY <1>2, <2>2 DEF Streams
<1>10. CASE Stop
  <2>1. UNCHANGED <<pc, result, incoming>> /\ connected' = FALSE
    BY <1>10 DEF Stop, client
  <2>2. ASSUME NEW d \in Channels PROVE Stream(d)'
    <3>1. PICK s : s = IF libssh[d].state = "listed" THEN "freed" ELSE libssh[d].state
      OBVIOUS
    <3>2. PICK r : r = [libssh[d] EXCEPT !.buffer = <<>>, !.state = s]
      OBVIOUS
    <3>3. libssh'[d] = r /\ libssh[d] \in LibChannel
      BY <1>1, <1>10, <3>1, <3>2 DEF Stop, Lib
    <3>4. r.state = s /\ r.buffer = <<>> /\ r.eof = libssh[d].eof
      BY <3>2, <3>3 DEF LibChannel
    <3>5. libssh[d].state \in {"none", "listed", "freed"} /\ libssh[d].buffer \in Seq(Bytes)
      BY <3>3 DEF LibChannel
    <3>6. CASE libssh[d].state = "none"
      <4>1. Life(d) /\ Stream(d) /\ server[d] \in ServerType
        BY <1>1 DEF Lives, Streams, TypeSession
      <4>2. server[d].sent = 0
        BY <3>6, <4>1 DEF Life, ServerType
      <4>3. PICK g \in Nat, h \in Nat, k \in Nat :
               g = Len(got[d]) /\ h = Len(Held(d)) /\ k = Len(libssh[d].buffer)
        <5>1. got[d] \in Seq(Bytes) /\ Held(d) \in Seq(Bytes)
          BY <1>1, <1>3 DEF TypeClient, ResultType, Held
        <5>2. QED
          BY <3>5, <5>1
      <4>4. g + h + k <= 0
        BY <3>6, <4>1, <4>2, <4>3 DEF Stream, Follows
      <4>5. Len(libssh[d].buffer) = 0
        <5>1. k = 0
          BY <4>4
        <5>2. QED
          BY <4>3, <5>1
      <4>6. libssh[d].buffer = <<>>
        BY <3>5, <4>5
      <4>7. QED
        BY <1>4, <2>1, <3>1, <3>3, <3>4, <3>6, <4>6
    <3>7. CASE libssh[d].state # "none"
      <4>1. libssh'[d].state = "freed"
        BY <3>1, <3>3, <3>4, <3>5, <3>7
      <4>2. QED
        BY <1>5, <2>1, <4>1
    <3>8. QED
      BY <3>6, <3>7
  <2>3. QED
    BY <1>2, <2>2 DEF Streams
<1>11. QED
  <2>1. \A w \in Ops : ~cancelled'[w]
    BY <1>2 DEF Streams
  <2>2. QED
    BY <1>1, <1>6, <1>7, <1>8, <1>9, <1>10, <2>1, ExecuteCases DEF Worker

\* A packet behind the others: a byte of the channel is the next, its end the last,
\* and any other says nothing of its bytes.
LEMMA StreamAppend ==
  ASSUME incoming \in Seq(Packet), NEW p \in Packet, incoming' = Append(incoming, p),
         NEW c \in Channels, server[c].sent \in Nat, server[c].eof \in BOOLEAN,
         NEW b \in Nat, Follows(c, 0, b), NEW e, EndsAfter(c, 0, e), Eofs(c),
         \/ /\ Silent(c) /\ p # <<"eof", c>>
            /\ p[1] = "data" => p[2] # c
         \/ /\ p = <<"data", c, server[c].sent + 1>> /\ ~server[c].eof
            /\ server'[c].sent = server[c].sent + 1 /\ server'[c].eof = server[c].eof
         \/ /\ p = <<"eof", c>> /\ ~server[c].eof
            /\ server'[c].sent = server[c].sent /\ server'[c].eof = TRUE
  PROVE  Follows(c, 0, b)' /\ EndsAfter(c, 0, e)' /\ Eofs(c)'
<1>1. PICK n \in Nat : n = Len(incoming)
  OBVIOUS
<1>2. /\ DOMAIN incoming = 1 .. n /\ DOMAIN incoming' = 1 .. n + 1
      /\ \A i \in 1 .. n : incoming'[i] = incoming[i]
      /\ incoming'[n + 1] = p
  BY <1>1
<1>3. /\ \A i \in 1 .. n : DataAt(c, i)' <=> DataAt(c, i)
      /\ DataAt(c, n + 1)' <=> p[1] = "data" /\ p[2] = c
  BY <1>2 DEF DataAt
<1>4. \A i \in 1 .. n + 1 : i \in 1 .. n \/ i = n + 1
  OBVIOUS
<1>5. /\ b <= server[c].sent
      /\ \A i \in 1 .. n : DataAt(c, i) => incoming[i][3] \in b + 1 .. server[c].sent
      /\ \A i, j \in 1 .. n : i < j /\ DataAt(c, i) /\ DataAt(c, j) => incoming[i][3] < incoming[j][3]
      /\ \A k \in b + 1 .. server[c].sent :
           \E i \in 1 .. n : DataAt(c, i) /\ incoming[i][3] = k
      /\ e => server[c].eof /\ \A i \in 1 .. n : ~DataAt(c, i)
      /\ \A i \in 1 .. n : incoming[i] = <<"eof", c>> =>
           server[c].eof /\ \A j \in 1 .. n : j > i => ~DataAt(c, j)
  <2>1. \A i \in 1 .. n : i > 0 /\ 0 < i /\ i \in DOMAIN incoming
    BY <1>2
  <2>2. \A i \in 1 .. n : DataAt(c, i) => incoming[i][3] \in b + 1 .. server[c].sent
    BY <2>1 DEF Follows
  <2>3. \A i, j \in 1 .. n : i < j /\ DataAt(c, i) /\ DataAt(c, j) => incoming[i][3] < incoming[j][3]
    BY <2>1 DEF Follows
  <2>4. \A k \in b + 1 .. server[c].sent : \E i \in 1 .. n : DataAt(c, i) /\ incoming[i][3] = k
    BY <1>2 DEF Follows
  <2>5. e => server[c].eof /\ \A i \in 1 .. n : ~DataAt(c, i)
    BY <2>1 DEF EndsAfter
  <2>6. \A i \in 1 .. n : incoming[i] = <<"eof", c>> =>
           server[c].eof /\ \A j \in 1 .. n : j > i => ~DataAt(c, j)
    BY <1>2 DEF Eofs
  <2>7. b <= server[c].sent
    BY DEF Follows
  <2>8. QED
    BY <2>2, <2>3, <2>4, <2>5, <2>6, <2>7
<1>6. CASE Silent(c) /\ p # <<"eof", c>> /\ (p[1] = "data" => p[2] # c)
  <2>1. ~DataAt(c, n + 1)' /\ server'[c].sent = server[c].sent /\ server'[c].eof = server[c].eof
    BY <1>3, <1>6 DEF Silent
  <2>2. Follows(c, 0, b)'
    <3>1. \A i \in 1 .. n + 1 : DataAt(c, i)' => incoming'[i][3] \in b + 1 .. server'[c].sent
      BY <1>2, <1>3, <1>4, <1>5, <2>1
    <3>2. \A i, j \in 1 .. n + 1 : i < j /\ DataAt(c, i)' /\ DataAt(c, j)' => incoming'[i][3] < incoming'[j][3]
      BY <1>2, <1>3, <1>4, <1>5, <2>1
    <3>3. ASSUME NEW k \in b + 1 .. server'[c].sent
          PROVE  \E i \in 1 .. n + 1 : i > 0 /\ DataAt(c, i)' /\ incoming'[i][3] = k
      <4>1. PICK i \in 1 .. n : DataAt(c, i) /\ incoming[i][3] = k
        BY <1>5, <2>1
      <4>2. i \in 1 .. n + 1 /\ i > 0
        OBVIOUS
      <4>3. QED
        BY <1>2, <1>3, <4>1, <4>2
    <3>4. QED
      BY <1>2, <1>5, <2>1, <3>1, <3>2, <3>3 DEF Follows
  <2>3. EndsAfter(c, 0, e)'
    BY <1>2, <1>3, <1>4, <1>5, <2>1 DEF EndsAfter
  <2>4. Eofs(c)'
    <3>1. ASSUME NEW i \in 1 .. n + 1, incoming'[i] = <<"eof", c>>
          PROVE  server'[c].eof /\ \A j \in 1 .. n + 1 : j > i => ~DataAt(c, j)'
      <4>1. i \in 1 .. n /\ incoming[i] = <<"eof", c>>
        BY <1>2, <1>4, <1>6, <3>1
      <4>2. QED
        BY <1>3, <1>4, <1>5, <2>1, <4>1
    <3>2. QED
      BY <1>2, <3>1 DEF Eofs
  <2>5. QED
    BY <2>2, <2>3, <2>4
<1>7. CASE /\ p = <<"data", c, server[c].sent + 1>> /\ ~server[c].eof
           /\ server'[c].sent = server[c].sent + 1 /\ server'[c].eof = server[c].eof
  <2>1. DataAt(c, n + 1)' /\ incoming'[n + 1][3] = server[c].sent + 1
    BY <1>2, <1>3, <1>7
  <2>2. PICK s \in Nat : s = server[c].sent /\ b <= s
    BY <1>5
  <2>3. Follows(c, 0, b)'
    <3>1. ASSUME NEW i \in 1 .. n + 1, DataAt(c, i)' PROVE incoming'[i][3] \in b + 1 .. s + 1
      <4>1. CASE i = n + 1
        <5>1. s + 1 \in b + 1 .. s + 1
          BY <2>2
        <5>2. incoming'[i][3] = s + 1
          BY <2>1, <2>2, <4>1
        <5>3. QED
          BY <5>1, <5>2
      <4>2. CASE i \in 1 .. n
        <5>1. PICK x \in b + 1 .. s : x = incoming'[i][3]
          BY <1>2, <1>3, <1>5, <2>2, <3>1, <4>2
        <5>2. x \in b + 1 .. s + 1
          OBVIOUS
        <5>3. QED
          BY <5>1, <5>2
      <4>3. QED
        BY <1>4, <4>1, <4>2
    <3>2. ASSUME NEW i \in 1 .. n + 1, NEW j \in 1 .. n + 1, i < j, DataAt(c, i)', DataAt(c, j)'
          PROVE  incoming'[i][3] < incoming'[j][3]
      <4>1. i \in 1 .. n /\ DataAt(c, i) /\ incoming'[i][3] = incoming[i][3]
        BY <1>2, <1>3, <3>2
      <4>2. CASE j = n + 1
        <5>1. incoming[i][3] \in b + 1 .. s
          BY <1>5, <2>2, <4>1
        <5>2. incoming'[j][3] = s + 1
          BY <2>1, <2>2, <4>2
        <5>3. QED
          BY <4>1, <5>1, <5>2
      <4>3. CASE j \in 1 .. n
        BY <1>2, <1>3, <1>5, <3>2, <4>1, <4>3
      <4>4. QED
        BY <1>4, <4>2, <4>3
    <3>3. ASSUME NEW k \in b + 1 .. s + 1
          PROVE  \E i \in 1 .. n + 1 : i > 0 /\ DataAt(c, i)' /\ incoming'[i][3] = k
      <4>1. CASE k = s + 1
        <5>1. n + 1 \in 1 .. n + 1 /\ n + 1 > 0
          OBVIOUS
        <5>2. QED
          BY <2>1, <2>2, <4>1, <5>1
      <4>2. CASE k \in b + 1 .. s
        <5>1. PICK i \in 1 .. n : DataAt(c, i) /\ incoming[i][3] = k
          BY <1>5, <2>2, <4>2
        <5>2. i \in 1 .. n + 1 /\ i > 0
          OBVIOUS
        <5>3. QED
          BY <1>2, <1>3, <5>1, <5>2
      <4>3. k = s + 1 \/ k \in b + 1 .. s
        OBVIOUS
      <4>4. QED
        BY <4>1, <4>2, <4>3
    <3>4. b <= s + 1 /\ server'[c].sent = s + 1
      BY <1>5, <1>7, <2>2
    <3>5. QED
      BY <1>2, <3>1, <3>2, <3>3, <3>4 DEF Follows
  <2>4. EndsAfter(c, 0, e)'
    BY <1>5, <1>7 DEF EndsAfter
  <2>5. Eofs(c)'
    <3>1. ASSUME NEW i \in 1 .. n + 1 PROVE incoming'[i] # <<"eof", c>>
      <4>1. CASE i = n + 1
        BY <1>2, <1>7, <4>1
      <4>2. CASE i \in 1 .. n
        BY <1>2, <1>5, <1>7, <4>2
      <4>3. QED
        BY <1>4, <4>1, <4>2
    <3>2. QED
      BY <1>2, <3>1 DEF Eofs
  <2>6. QED
    BY <2>3, <2>4, <2>5
<1>8. CASE /\ p = <<"eof", c>> /\ ~server[c].eof
           /\ server'[c].sent = server[c].sent /\ server'[c].eof = TRUE
  <2>1. ~DataAt(c, n + 1)'
    BY <1>3, <1>8
  <2>2. Follows(c, 0, b)'
    <3>1. \A i \in 1 .. n + 1 : DataAt(c, i)' => incoming'[i][3] \in b + 1 .. server'[c].sent
      BY <1>2, <1>3, <1>4, <1>5, <1>8, <2>1
    <3>2. \A i, j \in 1 .. n + 1 : i < j /\ DataAt(c, i)' /\ DataAt(c, j)' => incoming'[i][3] < incoming'[j][3]
      BY <1>2, <1>3, <1>4, <1>5, <2>1
    <3>3. ASSUME NEW k \in b + 1 .. server'[c].sent
          PROVE  \E i \in 1 .. n + 1 : i > 0 /\ DataAt(c, i)' /\ incoming'[i][3] = k
      <4>1. PICK i \in 1 .. n : DataAt(c, i) /\ incoming[i][3] = k
        BY <1>5, <1>8
      <4>2. i \in 1 .. n + 1 /\ i > 0
        OBVIOUS
      <4>3. QED
        BY <1>2, <1>3, <4>1, <4>2
    <3>4. QED
      BY <1>2, <1>5, <1>8, <3>1, <3>2, <3>3 DEF Follows
  <2>3. EndsAfter(c, 0, e)'
    BY <1>5, <1>8 DEF EndsAfter
  <2>4. Eofs(c)'
    <3>1. ASSUME NEW i \in 1 .. n + 1, incoming'[i] = <<"eof", c>>
          PROVE  server'[c].eof /\ \A j \in 1 .. n + 1 : j > i => ~DataAt(c, j)'
      <4>1. i = n + 1
        BY <1>2, <1>4, <1>5, <1>8, <3>1
      <4>2. QED
        BY <1>8, <4>1
    <3>2. QED
      BY <1>2, <3>1 DEF Eofs
  <2>5. QED
    BY <2>2, <2>3, <2>4
<1>9. QED
  BY <1>6, <1>7, <1>8

\* The server sends the bytes of each channel in order, and its end after them.
LEMMA StreamsServer ==
  ASSUME TypeOK, load' = load, Streams, Network \/ HangsUp
  PROVE  Streams'
<1> SUFFICES ASSUME ~Interrupts
             PROVE  (\A w \in Ops : ~cancelled'[w]) /\ \A c \in Channels : Stream(c)'
  BY DEF Streams, Interrupts
<1>1. UNCHANGED <<pc, result, cancelled, got, libssh, connected>>
  BY TypeServer DEF client
<1>2. TypeSession /\ TypeClient
  BY TypeParts
<1>3. \A d \in Channels : /\ Stream(d) /\ Reader(d) \in Ops /\ Reader(d)' = Reader(d)
                          /\ server[d].sent \in Nat /\ server[d].eof \in BOOLEAN
                          /\ Held(d)' = Held(d)
  BY <1>1, <1>2, OpsOf DEF Streams, Reader, Held, TypeSession, ServerType
<1>4. ASSUME NEW d \in Channels, Silent(d), incoming' = incoming PROVE Stream(d)'
  BY <1>1, <1>3, <1>4, StreamFrame DEF Silent
<1>5. ASSUME NEW d \in Channels, NEW p \in Packet, incoming' = Append(incoming, p),
             \/ /\ Silent(d) /\ p # <<"eof", d>>
                /\ p[1] = "data" => p[2] # d
             \/ /\ p = <<"data", d, server[d].sent + 1>> /\ server[d].sent < Sends[d]
                /\ server'[d].sent = server[d].sent + 1 /\ server'[d].eof = server[d].eof
             \/ /\ p = <<"eof", d>> /\ ~server[d].eof /\ server[d].sent = Sends[d]
                /\ server'[d].sent = server[d].sent /\ server'[d].eof = TRUE
      PROVE  Stream(d)'
  <2>1. PICK g \in Nat, h \in Nat : g = Len(got[d]) /\ h = Len(Held(d))
    <3>1. got[d] \in Seq(Bytes) /\ Held(d) \in Seq(Bytes)
      BY <1>2, <1>3 DEF TypeClient, ResultType, Held
    <3>2. QED
      BY <3>1
  <2>2. PICK k \in Nat : k = Len(libssh[d].buffer)
    <3>1. libssh[d] \in LibChannel
      BY <1>2 DEF TypeSession, Lib
    <3>2. QED
      BY <3>1 DEF LibChannel
  <2>3. /\ Numbered(got[d], 0) /\ (libssh[d].state = "none" => g = 0)
        /\ result[Reader(d)].kind = "eof" /\ connected => g = Sends[d]
        /\ server[d].eof => server[d].sent = Sends[d]
    BY <1>3, <2>1 DEF Stream
  <2>4. ASSUME libssh[d].state # "freed"
        PROVE  /\ Numbered(Held(d), g) /\ Numbered(libssh[d].buffer, g + h)
               /\ Follows(d, 0, g + h + k) /\ EndsAfter(d, 0, libssh[d].eof) /\ Eofs(d)
    BY <1>3, <2>1, <2>2, <2>4 DEF Stream
  <2>5. \/ /\ Silent(d) /\ p # <<"eof", d>>
           /\ p[1] = "data" => p[2] # d
        \/ /\ p = <<"data", d, server[d].sent + 1>> /\ ~server[d].eof
           /\ server'[d].sent = server[d].sent + 1 /\ server'[d].eof = server[d].eof
        \/ /\ p = <<"eof", d>> /\ ~server[d].eof
           /\ server'[d].sent = server[d].sent /\ server'[d].eof = TRUE
    <3>1. Sends[d] \in Nat
      BY LoadType, TypeParts DEF Load
    <3>2. server[d].sent < Sends[d] => ~server[d].eof
      BY <1>3, <2>3, <3>1
    <3>3. QED
      BY <1>5, <3>2
  <2>6. server'[d].eof => server'[d].sent = Sends[d]
    BY <1>5, <2>3, <2>5 DEF Silent
  <2>7. PICK b \in Nat : b = g + h + k
    OBVIOUS
  <2>8. PICK e : e = libssh[d].eof
    OBVIOUS
  <2>9. ASSUME libssh[d].state # "freed"
        PROVE  Follows(d, 0, b)' /\ EndsAfter(d, 0, e)' /\ Eofs(d)'
    <3>1. Follows(d, 0, b) /\ EndsAfter(d, 0, e) /\ Eofs(d)
      BY <2>4, <2>7, <2>8, <2>9
    <3>2. incoming \in Seq(Packet)
      BY <1>2 DEF TypeSession
    <3>3. QED
      BY <1>3, <1>5, <2>5, <3>1, <3>2, StreamAppend
  <2>10. b = g + h + Len(libssh'[d].buffer) /\ g = Len(got'[d]) /\ h = Len(Held(d)') /\ e = libssh'[d].eof
    BY <1>1, <1>3, <2>1, <2>2, <2>7, <2>8
  <2>11. libssh'[d].state # "freed" =>
           /\ Numbered(Held(d)', g) /\ Numbered(libssh'[d].buffer, g + h)
           /\ Follows(d, 0, b)' /\ EndsAfter(d, 0, e)' /\ Eofs(d)'
    BY <1>1, <1>3, <2>4, <2>9
  <2>12. /\ Numbered(got'[d], 0) /\ (libssh'[d].state = "none" => g = 0)
         /\ result'[Reader(d)].kind = "eof" /\ connected' => g = Sends[d]
    BY <1>1, <2>3
  <2>13. QED
    BY <2>6, <2>10, <2>11, <2>12, StreamIs
<1>6. CASE /\ \A d \in Channels : Silent(d)
           /\ incoming' = incoming \/ \E p \in Packet : /\ incoming' = Append(incoming, p)
                                                        /\ p[1] # "data" /\ p[1] # "eof"
  <2>1. ASSUME NEW d \in Channels PROVE Stream(d)'
    <3>1. CASE incoming' = incoming
      BY <1>4, <1>6, <3>1
    <3>2. ASSUME NEW p \in Packet, incoming' = Append(incoming, p), p[1] # "data", p[1] # "eof"
          PROVE  Stream(d)'
      <4>1. p # <<"eof", d>>
        BY <3>2
      <4>2. QED
        BY <1>5, <1>6, <3>2, <4>1
    <3>3. QED
      BY <1>6, <3>1, <3>2
  <2>2. QED
    BY <1>1, <2>1 DEF Streams
<1>7. ASSUME NEW c \in Channels, server[c].sent < Sends[c],
             server'[c].sent = server[c].sent + 1, server'[c].eof = server[c].eof,
             \A d \in Channels : d # c => Silent(d),
             incoming' = Append(incoming, <<"data", c, server[c].sent + 1>>)
      PROVE  \A d \in Channels : Stream(d)'
  <2>1. PICK p : p = <<"data", c, server[c].sent + 1>>
    OBVIOUS
  <2>2. p \in Packet /\ p[1] = "data" /\ p[2] = c
    <3>1. server[c].sent + 1 \in Bytes
      BY <1>3 DEF Bytes
    <3>2. QED
      BY <2>1, <3>1 DEF Packet, Packets
  <2>3. ASSUME NEW d \in Channels PROVE Stream(d)'
    <3>1. CASE d = c
      BY <1>5, <1>7, <2>1, <2>2, <3>1
    <3>2. CASE d # c
      <4>1. p # <<"eof", d>>
        BY <2>2
      <4>2. QED
        BY <1>5, <1>7, <2>1, <2>2, <3>2, <4>1
    <3>3. QED
      BY <3>1, <3>2
  <2>4. QED
    BY <2>3
<1>8. ASSUME NEW c \in Channels, server[c].sent = Sends[c], ~server[c].eof,
             server'[c].sent = server[c].sent, server'[c].eof = TRUE,
             \A d \in Channels : d # c => Silent(d),
             incoming' = Append(incoming, <<"eof", c>>)
      PROVE  \A d \in Channels : Stream(d)'
  <2>1. PICK p : p = <<"eof", c>>
    OBVIOUS
  <2>2. p \in Packet /\ p[1] = "eof" /\ p[2] = c
    BY <2>1 DEF Packet, Packets
  <2>3. ASSUME NEW d \in Channels PROVE Stream(d)'
    <3>1. CASE d = c
      BY <1>5, <1>8, <2>1, <2>2, <3>1
    <3>2. CASE d # c
      <4>1. p # <<"eof", d>> /\ p[1] # "data"
        BY <2>2, <3>2
      <4>2. QED
        BY <1>5, <1>8, <2>1, <2>2, <3>2, <4>1
    <3>3. QED
      BY <3>1, <3>2
  <2>4. QED
    BY <2>3
<1>9. \A w \in Ops : ~cancelled'[w]
  BY <1>1 DEF Streams
<1>10. QED
  BY <1>6, <1>7, <1>8, <1>9, ServerDoes

-----------------------------------------------------------------------------
(* The invariant and what it says.                                          *)

\* The inductive invariant: types, turns, sharing, results, lives, hearing, counts
\* and bytes.
Inv == /\ TypeOK /\ Turns /\ Shared /\ Returns
       /\ Lives /\ Hears /\ Counts /\ Streams

\* The session begins with nobody on it.
LEMMA InitInv ==
  ASSUME Init
  PROVE  Inv
<1>1. PICK l \in Loads : load = l
  BY DEF Init
<1>2. /\ Sends \in [Channels -> Nat] /\ Payload \in [Channels -> Nat]
      /\ Window \in Nat /\ Room \in Nat
  BY <1>1, SshAssumption DEF Sends, Payload
<1>3. /\ conn = [c \in Channels |-> "new"] /\ pc = [w \in Ops |-> "idle"]
      /\ stage = [w \in Ops |-> IF w[2] = "in" THEN "alloc" ELSE "write"]
      /\ result = [w \in Ops |-> Nothing] /\ cancelled = [w \in Ops |-> FALSE]
      /\ offset = [c \in Channels |-> 0] /\ got = [c \in Channels |-> <<>>]
      /\ wake = [w \in Ops |-> FALSE] /\ queue = <<>> /\ running = {} /\ worker = "take"
      /\ progress = FALSE /\ stopping = FALSE /\ output = <<>> /\ connected = TRUE
      /\ incoming = <<>> /\ wire = <<>>
  BY DEF Init
<1>4. ASSUME NEW c \in Channels
      PROVE  /\ libssh[c] \in LibChannel /\ libssh[c].state = "none" /\ ~libssh[c].asked
             /\ ~libssh[c].eof /\ libssh[c].buffer = <<>> /\ libssh[c].accepted = 0
             /\ server[c] \in ServerType /\ server[c].sent = 0 /\ ~server[c].eof /\ ~server[c].replied
  <2>1. <<>> \in Seq(Bytes) /\ 0 \in Nat
    OBVIOUS
  <2>2. /\ libssh[c] = [state |-> "none", asked |-> FALSE, opened |-> FALSE, eof |-> FALSE,
                        buffer |-> <<>>, window |-> Window, accepted |-> 0]
        /\ server[c] = [sent |-> 0, eof |-> FALSE, replied |-> FALSE, received |-> 0, hungup |-> FALSE]
    BY DEF Init
  <2>3. QED
    BY <1>2, <2>1, <2>2 DEF LibChannel, ServerType
<1>5. Nothing \in ResultType /\ Nothing.kind = "none" /\ Nothing.bytes = <<>> /\ Nothing.count = 0
  BY DEF Nothing, ResultType
<1>6. /\ DOMAIN queue = {} /\ DOMAIN incoming = {} /\ DOMAIN output = {} /\ Len(wire) = 0
      /\ queue \in Seq(Commands) /\ incoming \in Seq(Packet) /\ output \in Seq(Channels)
      /\ wire \in Seq(Channels)
  BY <1>3
<1>7. TypeOK
  <2>1. libssh \in Lib /\ server \in [Channels -> ServerType]
    BY <1>4 DEF Init, Lib
  <2>2. got \in [Channels -> Seq(Bytes)]
    BY <1>3
  <2>3. /\ stage \in [Ops -> {"alloc", "request", "read", "write", "flush"}]
        /\ result \in [Ops -> ResultType]
    BY <1>3, <1>5
  <2>4. TypeClient
    BY <1>1, <1>3, <1>6, <2>2, <2>3 DEF TypeClient
  <2>5. TypeSession
    <3>1. Len(wire) <= Room
      <4>1. ASSUME NEW r \in Nat PROVE 0 <= r
        OBVIOUS
      <4>2. QED
        BY <1>2, <1>6, <4>1
    <3>2. connected \in BOOLEAN /\ progress \in BOOLEAN
      BY <1>3
    <3>3. QED
      BY <1>6, <2>1, <3>1, <3>2 DEF TypeSession
  <2>6. QED
    BY <2>4, <2>5, TypeParts
<1>8. Turns /\ Once
  BY <1>3, <1>6 DEF Turns, Once, Queued
<1>9. Shared
  BY <1>3 DEF Shared
<1>10. ASSUME NEW w \in Ops
       PROVE  /\ pc[w] = "idle" /\ result[w] = Nothing /\ ~cancelled[w]
              /\ stage[w] = IF w[2] = "in" THEN "alloc" ELSE "write"
  BY <1>3
<1>11. Returns
  BY <1>3, <1>5, <1>10, OpsOf DEF Returns, Returned, KindOK
<1>12. Lives
  <2>1. ASSUME NEW c \in Channels PROVE Life(c)
    <3>1. conn[c] = "new" /\ ~Queued(<<c, "close">>)
      BY <1>3, <1>6 DEF Queued
    <3>2. ~(server[c].sent > 0)
      BY <1>4
    <3>3. QED
      BY <1>4, <1>5, <1>10, <3>1, <3>2, OpsOf DEF Life
  <2>2. QED
    BY <2>1 DEF Lives
<1>13. Hears
  BY <1>10 DEF Hears, Hearing
<1>14. Counts
  <2>1. ASSUME NEW c \in Channels PROVE Counted(c)
    <3>1. offset[c] = 0 /\ Payload[c] \in Nat /\ Writer(c) \in Ops
      BY <1>2, <1>3, OpsOf
    <3>2. Owed(c) = 0
      BY <1>10, <3>1 DEF Owed
    <3>3. QED
      BY <1>4, <1>5, <1>10, <3>1, <3>2 DEF Counted
  <2>2. QED
    BY <2>1 DEF Counts
<1>15. Streams
  <2>1. ASSUME NEW c \in Channels PROVE Stream(c)
    <3>1. got[c] = <<>> /\ Reader(c) \in Ops
      BY <1>3, OpsOf
    <3>2. Held(c) = <<>>
      BY <1>10, <3>1 DEF Held
    <3>3. Follows(c, 0, 0)
      BY <1>4, <1>6 DEF Follows
    <3>4. EndsAfter(c, 0, libssh[c].eof) /\ Eofs(c)
      BY <1>4, <1>6 DEF EndsAfter, Eofs
    <3>5. Len(got[c]) = 0 /\ Len(Held(c)) = 0 /\ Len(libssh[c].buffer) = 0
      BY <1>4, <3>1, <3>2
    <3>6. Len(got[c]) + Len(Held(c)) + Len(libssh[c].buffer) = 0
      BY <3>5
    <3>7. result[Reader(c)].kind # "eof"
      BY <1>5, <1>10, <3>1
    <3>8. QED
      BY <1>4, <3>1, <3>2, <3>3, <3>4, <3>5, <3>6, <3>7 DEF Stream, Numbered
  <2>2. QED
    BY <1>10, <2>1 DEF Streams
<1>16. QED
  BY <1>7, <1>8, <1>9, <1>11, <1>12, <1>13, <1>14, <1>15 DEF Inv

\* What the server does concerns neither turns, owners, results nor counts.
LEMMA ServerApart ==
  ASSUME TypeOK, load' = load, Turns, Shared, Returns, Counts, Network \/ HangsUp
  PROVE  Turns' /\ Shared' /\ Returns' /\ Counts'
<1>1. UNCHANGED <<conn, pc, stage, cancelled, offset, result, queue, worker, running, stopping,
                  libssh, output>>
  BY TypeServer DEF client
<1>2. Turns'
  BY <1>1 DEF Turns, Once, Queued
<1>3. Shared'
  BY <1>1 DEF Shared, Owners
<1>4. Returns'
  <2>1. Nothing' = Nothing
    BY DEF Nothing
  <2>2. ASSUME NEW w \in Ops PROVE Returned(w)'
    BY <1>1, <2>1 DEF Returns, Returned
  <2>3. QED
    BY <2>2 DEF Returns
<1>5. Counts'
  <2>1. ASSUME NEW c \in Channels PROVE Counted(c)'
    <3>1. Counted(c) /\ (Unsent(c)' <=> Unsent(c))
      BY <1>1 DEF Counts, Unsent
    <3>2. QED
      BY <1>1, <3>1, CountedFrame
  <2>2. QED
    BY <2>1 DEF Counts
<1>6. QED
  BY <1>2, <1>3, <1>4, <1>5

\* A step is one of the coroutines', of the worker's or of the server's.
LEMMA StepCases ==
  ASSUME Next
  PROVE  /\ load' = load
         /\ \/ \/ \E w \in Ops : Resume(w) \/ Throw(w) \/ Wake(w) \/ Cancel(w)
               \/ \E c \in Channels : Open(c) \/ Read(c) \/ Write(c) \/ Close(c)
            \/ Worker
            \/ Network \/ HangsUp
BY DEF Next, Dispatcher

\* Nothing changes while nobody takes a step.
LEMMA StutterInv ==
  ASSUME Inv, UNCHANGED vars
  PROVE  Inv'
<1>1. UNCHANGED <<load, conn, pc, stage, result, cancelled, offset, got, wake, queue, worker,
                  running, progress, stopping, libssh, output, connected, incoming, wire, server>>
  BY DEF vars, moving, client, session
<1>2. TypeOK'
  BY <1>1 DEF Inv, TypeOK
<1>3. Turns' /\ Shared'
  BY <1>1 DEF Inv, Turns, Once, Queued, Shared, Owners
<1>4. Returns'
  <2>1. Nothing' = Nothing
    BY DEF Nothing
  <2>2. ASSUME NEW w \in Ops PROVE Returned(w)'
    BY <1>1, <2>1 DEF Inv, Returns, Returned
  <2>3. QED
    BY <2>2 DEF Returns
<1>5. Lives'
  <2>1. ASSUME NEW c \in Channels PROVE Life(c)'
    <3>1. Life(c) /\ (Queued(<<c, "close">>)' <=> Queued(<<c, "close">>))
      BY <1>1 DEF Inv, Lives, Queued
    <3>2. (server[c].replied => libssh[c].asked) /\ (server[c].sent > 0 => server[c].replied)
      BY <3>1 DEF Life
    <3>3. QED
      BY <1>1, <3>1, <3>2, LifeFrame
  <2>2. QED
    BY <2>1 DEF Lives
<1>6. Hears'
  BY <1>1 DEF Inv, Hears, Hearing, Answered, SocketReady
<1>7. Counts'
  <2>1. ASSUME NEW c \in Channels PROVE Counted(c)'
    <3>1. Counted(c) /\ (Unsent(c)' <=> Unsent(c))
      BY <1>1 DEF Inv, Counts, Unsent
    <3>2. QED
      BY <1>1, <3>1, CountedFrame
  <2>2. QED
    BY <2>1 DEF Counts
<1>8. Streams'
  <2>1. ASSUME ~Interrupts, NEW c \in Channels PROVE Stream(c)'
    <3>1. Stream(c) /\ Held(c)' = Held(c)
      BY <1>1, <2>1 DEF Inv, Streams, Held, Reader
    <3>2. QED
      BY <1>1, <3>1, StreamFrame
  <2>2. Interrupts' <=> Interrupts
    BY <1>1 DEF Interrupts
  <2>3. QED
    BY <1>1, <2>1, <2>2 DEF Inv, Streams
<1>9. QED
  BY <1>2, <1>3, <1>4, <1>5, <1>6, <1>7, <1>8 DEF Inv

\* Every step keeps the invariant.
LEMMA StepInv ==
  ASSUME Inv, [Next]_vars
  PROVE  Inv'
<1>1. /\ TypeOK /\ Turns /\ Shared /\ Returns /\ Lives /\ Hears /\ Counts /\ Streams
      /\ TypeClient /\ TypeSession
  BY TypeParts DEF Inv
<1>2. Within
  BY <1>1, CountsWithin
<1>3. \A c \in Channels : conn[c] = "new" => pc[Reader(c)] = "idle"
  BY <1>1 DEF Lives, Life
<1>4. CASE UNCHANGED vars
  BY <1>4, StutterInv
<1>5. ASSUME load' = load,
             \/ \E w \in Ops : Resume(w) \/ Throw(w) \/ Wake(w) \/ Cancel(w)
             \/ \E c \in Channels : Open(c) \/ Read(c) \/ Write(c) \/ Close(c)
      PROVE  Inv'
  <2>1. TypeClient' /\ UNCHANGED <<session, server>>
    BY <1>1, <1>5, TypeDispatch
  <2>2. TypeOK'
    BY <1>1, <2>1, TypeParts DEF TypeSession, session
  <2>3. Turns'
    BY <1>1, <1>3, <1>5, TurnsDispatch
  <2>4. Shared'
    BY <1>1, <1>5, SharedDispatch
  <2>5. Returns'
    BY <1>1, <1>3, <1>5, ReturnsDispatch
  <2>6. Lives'
    BY <1>1, <1>5, <2>1, LivesDispatch
  <2>7. Hears'
    BY <1>1, <1>5, <2>1, HearsDispatch
  <2>8. Counts'
    BY <1>1, <1>5, <2>1, CountsDispatch
  <2>9. Streams'
    BY <1>1, <1>5, <2>1, StreamsDispatch
  <2>10. QED
    BY <2>2, <2>3, <2>4, <2>5, <2>6, <2>7, <2>8, <2>9 DEF Inv
<1>6. ASSUME load' = load, Worker PROVE Inv'
  <2>1. TypeOK'
    BY <1>1, <1>2, <1>6, TypeWorker
  <2>2. Turns' /\ Shared'
    BY <1>1, <1>6, TurnsWorker, SharedWorker
  <2>3. Returns' /\ Lives'
    BY <1>1, <1>2, <1>6, ReturnsWorker, LivesWorker
  <2>4. Hears'
    BY <1>1, <1>2, <1>6, HearsWorker
  <2>5. Counts'
    BY <1>1, <1>2, <1>6, CountsWorker
  <2>6. Streams'
    BY <1>1, <1>2, <1>6, StreamsWorker
  <2>7. QED
    BY <2>1, <2>2, <2>3, <2>4, <2>5, <2>6 DEF Inv
<1>7. ASSUME load' = load, Network \/ HangsUp PROVE Inv'
  <2>1. TypeOK'
    BY <1>1, <1>7, TypeServer
  <2>2. Turns' /\ Shared' /\ Returns' /\ Counts'
    BY <1>1, <1>7, ServerApart
  <2>3. Lives' /\ Hears' /\ Streams'
    BY <1>1, <1>7, LivesServer, HearsServer, StreamsServer
  <2>4. QED
    BY <2>1, <2>2, <2>3 DEF Inv
<1>8. QED
  BY <1>4, <1>5, <1>6, <1>7, StepCases

\* The invariant holds of every behaviour (SshTransport.tla: Inv is inductive).
THEOREM SshInvariant == Spec => []Inv
<1>1. Init => Inv
  BY InitInv
<1>2. Inv /\ [Next]_vars => Inv'
  BY StepInv
<1>3. QED
  BY <1>1, <1>2, PTL DEF Spec

\* No operation sleeps on what has arrived, whichever channel's call took it from
\* the socket (NoLostWake; ssh-channel-connection.cpp:1189-1239, 1311-1324).
THEOREM NobodySleeps == Spec => []NoLostWake
<1>1. Inv => NoLostWake
  <2>1. ASSUME Inv, NEW w \in Ops, pc[w] = "waiting", Answered(w)
        PROVE  wake[w] \/ SocketReady(w) \/ (progress /\ worker \in {"retire", "notify"})
    <3>1. result[w].kind = "again"
      BY <2>1 DEF Inv, Returns, Returned
    <3>2. QED
      BY <2>1, <3>1 DEF Inv, Hears, Hearing
  <2>2. QED
    BY <2>1 DEF NoLostWake
<1>2. QED
  BY <1>1, SshInvariant, PTL

\* Each direction carries each byte once and in order, and a write that has ended
\* well has given its whole payload to the socket (DataExact;
\* ssh-channel-connection.cpp:1943-2015, 2058-2117).
THEOREM DataIsExact == Spec => []DataExact
<1>1. Inv => DataExact
  <2> SUFFICES ASSUME Inv PROVE DataExact
    OBVIOUS
  <2>1. TypeOK /\ TypeClient /\ Returns /\ Counts /\ Streams
    BY TypeParts DEF Inv
  <2>2. WriteExact
    <3>1. ASSUME NEW c \in Channels
          PROVE  /\ pc[Writer(c)] \in {"idle", "waiting"} /\ ~cancelled[Writer(c)]
                      /\ result[Writer(c)].kind # "failed" => libssh[c].accepted = offset[c]
                 /\ pc[Writer(c)] = "idle" /\ ~cancelled[Writer(c)]
                      /\ result[Writer(c)].kind \in {"wrote", "ok"}
                         => offset[c] = Payload[c] /\ \A i \in DOMAIN output : output[i] # c
      <4>1. Counted(c) /\ Writer(c) \in Ops /\ offset[c] \in Nat
        BY <2>1, OpsOf DEF Counts, TypeClient
      <4>2. ASSUME pc[Writer(c)] \in {"idle", "waiting"} PROVE Owed(c) = 0
        <5>1. pc[Writer(c)] = "waiting" => result[Writer(c)].kind = "again"
          BY <2>1, <4>1 DEF Returns, Returned
        <5>2. QED
          BY <2>1, <4>1, <4>2, <5>1, OwedType DEF Owed
      <4>3. QED
        BY <4>1, <4>2 DEF Counted, Unsent
    <3>2. QED
      BY <3>1 DEF WriteExact
  <2>3. ASSUME ~Interrupts PROVE ReadExact
    <3>1. ASSUME NEW c \in Channels
          PROVE  /\ \A i \in DOMAIN got[c] : got[c][i] = i
                 /\ result[Reader(c)].kind = "eof" /\ connected => Len(got[c]) = Sends[c]
      <4>1. Stream(c)
        BY <2>1, <2>3 DEF Streams
      <4>2. \A i \in DOMAIN got[c] : got[c][i] = i
        <5>1. DOMAIN got[c] = 1 .. Len(got[c])
          BY <2>1 DEF TypeClient
        <5>2. QED
          BY <4>1, <5>1 DEF Stream, Numbered
      <4>3. QED
        BY <4>1, <4>2 DEF Stream
    <3>2. QED
      BY <3>1 DEF ReadExact
  <2>4. QED
    BY <2>1, <2>2, <2>3 DEF DataExact
<1>2. QED
  BY <1>1, SshInvariant, PTL

\* The worker runs no command of a caller that has gone, ends with nothing left,
\* and never joins itself (Teardown; ssh-channel-connection.cpp:1286-1308,
\* 1345-1377, 1427-1461).
THEOREM TearsDown == Spec => Teardown
<1>1. Inv => CallerOutlives /\ Torn
  <2>1. Inv => CallerOutlives
    <3>1. ASSUME Inv, NEW w \in Ops, w \in running \/ (\E i \in DOMAIN queue : queue[i] = w)
          PROVE  pc[w] = "queued"
      BY <3>1 DEF Inv, Turns, Queued
    <3>2. QED
      BY <3>1 DEF CallerOutlives
  <2>2. Inv => Torn
    BY DEF Inv, Shared, Torn
  <2>3. QED
    BY <2>1, <2>2
<1>2. Inv /\ [Next]_vars => [Owners # {} /\ worker' # worker => Owners' # {}]_vars
  <2>1. SUFFICES ASSUME Inv, Next, Owners # {}, worker' # worker PROVE Owners' # {}
    OBVIOUS
  <2>2. TypeOK /\ TypeClient /\ Turns
    BY <2>1, TypeParts DEF Inv
  <2>3. Worker
    <3>1. ASSUME \/ \E w \in Ops : Resume(w) \/ Throw(w) \/ Wake(w) \/ Cancel(w)
                 \/ \E c \in Channels : Open(c) \/ Read(c) \/ Write(c) \/ Close(c)
          PROVE  FALSE
      BY <2>1, <3>1 DEF Resume, Throw, Wake, Cancel, Open, Read, Write, Close
    <3>2. Network \/ HangsUp => worker' = worker
      BY <2>1, <2>2, StepCases, TypeServer
    <3>3. QED
      BY <2>1, <3>1, <3>2, StepCases
  <2>4. CASE Retire
    <3>1. PICK w \in Ops : running = {w}
      BY <2>2, <2>4 DEF Retire, Turns
    <3>2. pc'[w] = "ready"
      BY <2>4, <3>1 DEF Retire
    <3>3. QED
      BY <3>2 DEF Owners
  <2>5. CASE ~Retire
    <3>1. UNCHANGED <<conn, pc>> /\ running \subseteq running'
      BY <2>2, <2>3, <2>5 DEF Worker, Execute, NotifyProgress, Stop, Drained, client, Turns
    <3>2. Owners \subseteq Owners'
      BY <3>1 DEF Owners
    <3>3. QED
      BY <2>1, <3>2
  <2>6. QED
    BY <2>4, <2>5
<1>3. QED
  BY <1>1, <1>2, SshInvariant, PTL DEF Spec, Teardown, NeverSelfJoin

=============================================================================
