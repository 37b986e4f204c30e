---------------------------- MODULE SessionProofs ----------------------------
(***************************************************************************)
(* The SOCKS server of an SSH gateway and its bridges (SshForward), for any set of   *)
(* clients, any limit, room and load.                                          *)
(*                                                                         *)
(* All that a bridge does concerns one client.  The invariant is therefore said of   *)
(* one client at a time: Upload accounts for every byte it wrote, Download for        *)
(* every byte of its answer, Course says which of its parts are there in which phase.  *)
(* An action of one client leaves the entries of the others alone (Elsewhere).          *)
(***************************************************************************)
EXTENDS SshForward, SshLogin, FiniteSetTheorems, TLAPS

\* Every variable that is kept for each client is a function on the clients.
Shapes ==
  /\ peer = [d \in Clients |-> peer[d]] /\ lsent = [d \in Clients |-> lsent[d]]
  /\ lgot = [d \in Clients |-> lgot[d]] /\ leof = [d \in Clients |-> leof[d]]
  /\ upq = [d \in Clients |-> upq[d]] /\ downq = [d \in Clients |-> downq[d]]
  /\ reset = [d \in Clients |-> reset[d]] /\ shut = [d \in Clients |-> shut[d]]
  /\ phase = [d \in Clients |-> phase[d]] /\ bstop = [d \in Clients |-> bstop[d]]
  /\ fd = [d \in Clients |-> fd[d]] /\ bfd = [d \in Clients |-> bfd[d]]
  /\ strayed = [d \in Clients |-> strayed[d]] /\ callback = [d \in Clients |-> callback[d]]
  /\ up = [d \in Clients |-> up[d]] /\ down = [d \in Clients |-> down[d]]
  /\ uhold = [d \in Clients |-> uhold[d]] /\ dhold = [d \in Clients |-> dhold[d]]
  /\ chan = [d \in Clients |-> chan[d]] /\ chUp = [d \in Clients |-> chUp[d]]
  /\ chEof = [d \in Clients |-> chEof[d]] /\ chDown = [d \in Clients |-> chDown[d]]
  /\ srvEof = [d \in Clients |-> srvEof[d]]

\* The values of one client.
Typed(c) ==
  /\ peer[c] \in {"absent", "queued", "open", "closed"} /\ leof[c] \in BOOLEAN
  /\ reset[c] \in BOOLEAN /\ shut[c] \in {"no", "write", "both"}
  /\ phase[c] \in Live \cup {"none", "closed"}
  /\ bstop[c] \in BOOLEAN /\ strayed[c] = FALSE
  /\ callback[c] \in {"none", "registered", "queued", "run"}
  /\ up[c] \in {"off", "look", "wait", "write", "eof", "done"}
  /\ down[c] \in {"off", "read", "send", "wait", "done"}
  /\ chan[c] \in {"none", "open", "gone"} /\ chEof[c] \in BOOLEAN /\ srvEof[c] \in BOOLEAN
  /\ lsent[c] \in 0..Up /\ upq[c] \in 0..Room /\ uhold[c] \in Nat /\ chUp[c] \in Nat
  /\ lgot[c] \in Nat /\ downq[c] \in 0..Room /\ dhold[c] \in Nat
  /\ chDown[c] = [sent |-> chDown[c].sent, left |-> chDown[c].left]
  /\ chDown[c].sent \in 0..Down /\ chDown[c].left \in Nat

\* What the client wrote is in its socket, in the buffer or with the destination, and the
\* direction ends with all of it unless something failed.
Upload(c) ==
  /\ lsent[c] = upq[c] + uhold[c] + chUp[c]
  /\ up[c] \in {"off", "look", "wait", "eof"} => uhold[c] = 0
  /\ up[c] = "write" => uhold[c] > 0
  /\ up[c] = "eof" /\ ~bstop[c] => upq[c] = 0 /\ peer[c] = "closed"
  /\ chEof[c] => peer[c] = "closed" /\ upq[c] = 0 /\ uhold[c] = 0 /\ up[c] = "done"
  /\ up[c] = "done" => chEof[c] \/ bstop[c] \/ lost
  /\ reset[c] => peer[c] = "closed"
  /\ shut[c] = "both" => bstop[c]
  /\ bstop[c] => stopping \/ lost
  /\ callback[c] = "queued" => stopping

\* What the destination sent is with the channel, in the buffer, in the socket or with the
\* client, but for what a client that closed left unread.
Download(c) ==
  /\ chDown[c].left + dhold[c] + downq[c] + lgot[c] <= chDown[c].sent
  /\ peer[c] # "closed" => chDown[c].left + dhold[c] + downq[c] + lgot[c] = chDown[c].sent
  /\ down[c] \in {"off", "read"} => dhold[c] = 0
  /\ down[c] = "done" /\ ~bstop[c] => peer[c] = "closed" \/ (AtEnd(c) /\ dhold[c] = 0)
  /\ shut[c] = "write" => down[c] = "done"
  /\ leof[c] => bstop[c] \/ down[c] = "done" \/ (phase[c] = "closed" /\ down[c] = "off")
  /\ leof[c] /\ down[c] = "done" /\ ~bstop[c] => srvEof[c] /\ lgot[c] = chDown[c].sent

\* Which parts of a connection are there, from its request to its end; the bridge knows
\* the descriptor only while its client has it.
Off(c) == up[c] = "off" /\ down[c] = "off"
Course(c) ==
  /\ phase[c] \in {"none", "greet", "open", "refuse"} => Off(c) /\ chan[c] # "open"
  /\ phase[c] = "reply" => Off(c) /\ chan[c] = "open"
  /\ phase[c] = "bridge" => up[c] # "off" /\ down[c] # "off" /\ chan[c] = "open"
  /\ phase[c] \in {"joined", "closing"} => BothDone(c) /\ chan[c] = "gone"
  /\ phase[c] = "closed" => (Off(c) \/ BothDone(c)) /\ chan[c] # "open"
  /\ bfd[c] \in {0, fd[c]}
  /\ bfd[c] # 0 => phase[c] \in {"bridge", "joined"}

Client(c) == Typed(c) /\ Upload(c) /\ Download(c) /\ Course(c)

\* A descriptor has one holder.
Distinct ==
  /\ others \subseteq Descriptors
  /\ \A c \in Clients : fd[c] \in 0..Limit /\ fd[c] \notin others
  /\ \A c, d \in Clients : c # d /\ fd[c] = fd[d] => fd[c] = 0

\* The server: it has room for those it serves, and it ends behind all of them.
Owner ==
  /\ load \in Loads /\ server \in {"accept", "join", "ended"}
  /\ stopping \in BOOLEAN /\ lost \in BOOLEAN
  /\ IsFiniteSet(Serving) /\ Cardinality(Serving) <= Limit
  /\ server = "ended" => Serving = {}
  /\ Distinct

Ind == Shapes /\ Owner /\ \A c \in Clients : Client(c)

-----------------------------------------------------------------------------
\* A load is a set of clients and two numbers.
LEMMA LoadType == load \in Loads => Up \in Nat /\ Down \in Nat /\ Room \in Nat \ {0} /\ Limit \in Nat \ {0}
BY ForwardAssumption DEF Up, Down

\* The invariant says the type invariant and every property.
LEMMA IndSound == Ind => ForwardSound
<1> SUFFICES ASSUME Ind PROVE ForwardSound OBVIOUS
<1>1. Up \in Nat /\ Down \in Nat /\ Room \in Nat
  BY LoadType DEF Ind, Owner
<1>2. ASSUME NEW c \in Clients PROVE
        /\ lsent[c] \in 0..Up /\ uhold[c] \in 0..Up /\ chUp[c] \in 0..Up
        /\ lgot[c] \in 0..Down /\ dhold[c] \in 0..Down
        /\ chDown[c] \in [sent : 0..Down, left : 0..Down]
  <2>1. Typed(c) /\ Upload(c) /\ Download(c) BY DEF Ind, Client
  <2>2. chDown[c].left \in 0..Down /\ lgot[c] \in 0..Down /\ dhold[c] \in 0..Down
    BY <1>1, <2>1 DEF Typed, Download
  <2>3. chDown[c] \in [sent : 0..Down, left : 0..Down]
    BY <2>1, <2>2 DEF Typed
  <2> QED BY <1>1, <2>1, <2>2, <2>3 DEF Typed, Upload
<1>3. TypeOK
  <2>1. \A c \in Clients : Typed(c) BY DEF Ind, Client
  <2>2. lsent \in [Clients -> 0..Up] /\ lgot \in [Clients -> 0..Down] /\ leof \in [Clients -> BOOLEAN]
    BY <1>2, <2>1 DEF Ind, Shapes, Typed
  <2>3. upq \in [Clients -> 0..Room] /\ downq \in [Clients -> 0..Room]
    BY <2>1 DEF Ind, Shapes, Typed
  <2>4. uhold \in [Clients -> 0..Up] /\ dhold \in [Clients -> 0..Down] /\ chUp \in [Clients -> 0..Up]
    BY <1>2, <2>1 DEF Ind, Shapes, Typed
  <2>5. chDown \in [Clients -> [sent : 0..Down, left : 0..Down]]
    BY <1>2 DEF Ind, Shapes
  <2>6. /\ peer \in [Clients -> {"absent", "queued", "open", "closed"}]
        /\ reset \in [Clients -> BOOLEAN] /\ shut \in [Clients -> {"no", "write", "both"}]
        /\ phase \in [Clients -> Live \cup {"none", "closed"}]
    BY <2>1 DEF Ind, Shapes, Typed
  <2>7. /\ bstop \in [Clients -> BOOLEAN] /\ strayed \in [Clients -> BOOLEAN]
        /\ callback \in [Clients -> {"none", "registered", "queued", "run"}]
        /\ up \in [Clients -> {"off", "look", "wait", "write", "eof", "done"}]
        /\ down \in [Clients -> {"off", "read", "send", "wait", "done"}]
    BY <2>1 DEF Ind, Shapes, Typed
  <2>8. /\ chan \in [Clients -> {"none", "open", "gone"}]
        /\ chEof \in [Clients -> BOOLEAN] /\ srvEof \in [Clients -> BOOLEAN]
    BY <2>1 DEF Ind, Shapes, Typed
  <2>9. fd \in [Clients -> 0..Limit] BY DEF Ind, Shapes, Owner, Distinct
  <2>11. ASSUME NEW c \in Clients PROVE bfd[c] \in 0..Limit
    <3>1. bfd[c] = 0 \/ bfd[c] = fd[c] BY DEF Ind, Client, Course
    <3>2. fd[c] \in 0..Limit /\ 0 \in 0..Limit BY <2>9, ForwardAssumption
    <3> QED BY <3>1, <3>2
  <2>10. bfd \in [Clients -> 0..Limit] /\ others \subseteq Descriptors
    BY <2>11 DEF Ind, Shapes, Owner, Distinct
  <2> QED BY <2>2, <2>3, <2>4, <2>5, <2>6, <2>7, <2>8, <2>9, <2>10 DEF TypeOK, Ind, Owner
<1>4. ASSUME NEW c \in Clients PROVE
        /\ chEof[c] => chUp[c] = lsent[c] /\ peer[c] = "closed"
        /\ phase[c] \in {"joined", "closing", "closed"} /\ chan[c] = "gone" /\ up[c] = "done"
             /\ ~stopping /\ ~lost => chEof[c]
        /\ leof[c] /\ down[c] = "done" /\ ~stopping /\ ~lost => lgot[c] = chDown[c].sent /\ srvEof[c]
        /\ ~strayed[c]
  <2>1. Typed(c) /\ Upload(c) /\ Download(c) BY DEF Ind, Client
  <2> QED BY <2>1 DEF Typed, Upload, Download
<1>5. ASSUME NEW c \in Clients PROVE
        /\ up[c] \notin {"off", "done"} \/ down[c] \notin {"off", "done"} => chan[c] = "open"
        /\ phase[c] \notin Live => chan[c] # "open"
  <2>1. Typed(c) /\ Course(c) BY DEF Ind, Client
  <2> QED BY <2>1 DEF Typed, Course, Off, BothDone, Live
<1>6. Outlives
  <2>1. server = "ended" => \A c \in Clients : phase[c] \notin Live
    BY DEF Ind, Owner, Serving
  <2> QED BY <1>5, <2>1 DEF Outlives
<1> QED BY <1>3, <1>4, <1>6 DEF ForwardSound, UploadWhole, DownloadWhole, NoStray

\* The first state.
LEMMA InitInd == Init => Ind
<1> SUFFICES ASSUME Init PROVE Ind OBVIOUS
<1>1. Up \in Nat /\ Down \in Nat /\ Room \in Nat /\ Limit \in Nat BY LoadType DEF Init
<1>2. Serving = {} BY DEF Init, Serving, Live
<1>3. IsFiniteSet(Serving) /\ Cardinality(Serving) = 0 BY <1>2, FS_EmptySet
<1>7. Cardinality(Serving) <= Limit BY <1>1, <1>3
<1>8. Distinct BY <1>1 DEF Init, Distinct
<1>6. Owner BY <1>2, <1>3, <1>7, <1>8 DEF Init, Owner
<1>4. Shapes BY DEF Init, Shapes
<1>5. ASSUME NEW c \in Clients PROVE Client(c)
  <2>1. Typed(c) BY <1>1 DEF Init, Typed, Up, Down
  <2>2. Upload(c) BY DEF Init, Upload
  <2>3. Download(c) BY DEF Init, Download
  <2>4. Course(c) BY DEF Init, Course, Off, BothDone
  <2> QED BY <2>1, <2>2, <2>3, <2>4 DEF Client
<1> QED BY <1>6, <1>4, <1>5 DEF Ind

-----------------------------------------------------------------------------
(* What an action of one client leaves alone.                                  *)

Elsewhere(c) ==
  \A d \in Clients \ {c} :
    /\ peer'[d] = peer[d] /\ lsent'[d] = lsent[d] /\ lgot'[d] = lgot[d] /\ leof'[d] = leof[d]
    /\ upq'[d] = upq[d] /\ downq'[d] = downq[d] /\ reset'[d] = reset[d] /\ shut'[d] = shut[d]
    /\ phase'[d] = phase[d] /\ bstop'[d] = bstop[d] /\ strayed'[d] = strayed[d]
    /\ fd'[d] = fd[d] /\ bfd'[d] = bfd[d]
    /\ callback'[d] = callback[d] /\ up'[d] = up[d] /\ down'[d] = down[d]
    /\ uhold'[d] = uhold[d] /\ dhold'[d] = dhold[d] /\ chan'[d] = chan[d]
    /\ chUp'[d] = chUp[d] /\ chEof'[d] = chEof[d] /\ chDown'[d] = chDown[d] /\ srvEof'[d] = srvEof[d]

\* The server's own variables, and no client and no descriptor more than before.
Served(c) == server' = server /\ stopping' = stopping /\ lost' = lost /\ others' = others
             /\ (phase'[c] \in Live => phase[c] \in Live) /\ fd'[c] \in {fd[c], 0}

\* The others keep their part of the invariant.
LEMMA Others ==
  ASSUME NEW c \in Clients, \A d \in Clients : Client(d), Elsewhere(c), load' = load,
         stopping' = stopping, lost' = lost, NEW d \in Clients, d # c
  PROVE Client(d)'
<1>1. Client(d) OBVIOUS
<1>2. /\ peer'[d] = peer[d] /\ lsent'[d] = lsent[d] /\ lgot'[d] = lgot[d] /\ leof'[d] = leof[d]
      /\ upq'[d] = upq[d] /\ downq'[d] = downq[d] /\ reset'[d] = reset[d] /\ shut'[d] = shut[d]
      /\ phase'[d] = phase[d] /\ bstop'[d] = bstop[d] /\ strayed'[d] = strayed[d]
      /\ fd'[d] = fd[d] /\ bfd'[d] = bfd[d]
      /\ callback'[d] = callback[d] /\ up'[d] = up[d] /\ down'[d] = down[d]
      /\ uhold'[d] = uhold[d] /\ dhold'[d] = dhold[d] /\ chan'[d] = chan[d]
      /\ chUp'[d] = chUp[d] /\ chEof'[d] = chEof[d] /\ chDown'[d] = chDown[d] /\ srvEof'[d] = srvEof[d]
  BY DEF Elsewhere
<1>3. Typed(d)' BY <1>1, <1>2 DEF Client, Typed, Up, Down
<1>4. Upload(d)' BY <1>1, <1>2 DEF Client, Upload
<1>5. Download(d)' BY <1>1, <1>2 DEF Client, Download, AtEnd
<1>6. Course(d)' BY <1>1, <1>2 DEF Client, Course, Off, BothDone
<1> QED BY <1>3, <1>4, <1>5, <1>6 DEF Client

\* A step that serves no one it did not serve leaves the server's part.
LEMMA OwnerKept ==
  ASSUME Owner, load' = load, server' = server, stopping' = stopping, lost' = lost,
         others' = others, \A d \in Clients : fd'[d] \in {fd[d], 0}, Serving' \subseteq Serving
  PROVE Owner'
<1>1. IsFiniteSet(Serving') /\ Cardinality(Serving') <= Cardinality(Serving)
  BY FS_Subset DEF Owner
<1>2. Cardinality(Serving) \in Nat /\ Cardinality(Serving') \in Nat /\ Limit \in Nat
  BY <1>1, FS_CardinalityType, ForwardAssumption DEF Owner
<1>3. 0 \notin others /\ 0 \in 0..Limit BY ForwardAssumption DEF Owner, Distinct, Descriptors
<1>4. Distinct' BY <1>3 DEF Owner, Distinct
<1> QED BY <1>1, <1>2, <1>4 DEF Owner

\* A step of one client that leaves the server as it was.
LEMMA OneClient ==
  ASSUME NEW c \in Clients, Ind, load' = load, Shapes', Elsewhere(c), Served(c), Client(c)'
  PROVE Ind'
<1>1. Serving' \subseteq Serving BY DEF Serving, Served, Elsewhere, Live
<1>4. \A d \in Clients : fd'[d] \in {fd[d], 0} BY DEF Served, Elsewhere
<1>2. Owner' BY <1>1, <1>4, OwnerKept DEF Ind, Served
<1>3. ASSUME NEW d \in Clients PROVE Client(d)'
  BY Others DEF Ind, Served
<1> QED BY <1>2, <1>3 DEF Ind

\* The bridge shuts down the descriptor of its own client, or none.
LEMMA ShutsItsOwn ==
  ASSUME NEW c \in Clients, Ind, ShutsDown(c)
  PROVE /\ shut' = [d \in Clients |-> shut'[d]] /\ strayed' = [d \in Clients |-> strayed'[d]]
        /\ shut'[c] \in {shut[c], "both"} /\ strayed'[c] = FALSE
        /\ \A d \in Clients \ {c} : shut'[d] = shut[d] /\ strayed'[d] = strayed[d]
<1>1. Typed(c) /\ Course(c) /\ Shapes /\ Distinct BY DEF Ind, Client, Owner
<1>2. 0 \notin others BY <1>1 DEF Distinct, Descriptors
<1>3. bfd[c] = 0 \/ bfd[c] = fd[c] BY <1>1 DEF Course
<1>4. \A d \in Clients \ {c} : ~(fd[d] = bfd[c] /\ fd[d] # 0) BY <1>1, <1>3 DEF Distinct
<1>5. ~Foreign(c) BY <1>1, <1>2, <1>3, <1>4 DEF Distinct, Foreign
<1>6. strayed[c] = FALSE BY <1>1 DEF Typed
<1>7. strayed' = [strayed EXCEPT ![c] = FALSE] BY <1>5, <1>6 DEF ShutsDown, At
<1>8. strayed' = [d \in Clients |-> strayed'[d]] /\ strayed'[c] = FALSE
      /\ \A d \in Clients \ {c} : strayed'[d] = strayed[d]
  BY <1>1, <1>7 DEF Shapes
<1>9. shut' = [d \in Clients |-> IF fd[d] = bfd[c] /\ fd[d] # 0 THEN "both" ELSE shut[d]]
  BY DEF ShutsDown
<1>10. shut' = [d \in Clients |-> shut'[d]] /\ shut'[c] \in {shut[c], "both"} BY <1>9
<1>11. \A d \in Clients \ {c} : shut'[d] = shut[d] BY <1>4, <1>9
<1> QED BY <1>8, <1>10, <1>11

-----------------------------------------------------------------------------
(* The client and the destination.                                             *)

\* A client comes.
LEMMA ConnectsInd ==
  ASSUME NEW c \in Clients, Ind, load' = load, Connects(c) PROVE Ind'
<1> USE DEF Connects, At, owner, sides, socket, serving, bridge, pumps, channel
<1>1. Client(c) /\ Shapes /\ Up \in Nat /\ Down \in Nat /\ Room \in Nat BY LoadType DEF Ind, Owner
<1>2. Shapes' BY <1>1 DEF Shapes
<1>3. Elsewhere(c) BY <1>1 DEF Shapes, Elsewhere
<1>4. Served(c) BY <1>1 DEF Shapes, Served, Live
<1>5. Typed(c)' BY <1>1 DEF Client, Shapes, Typed, Upload, Up, Down, Live
<1>6. Upload(c)' BY <1>1 DEF Client, Shapes, Typed, Upload
<1>7. Download(c)' BY <1>1 DEF Client, Shapes, Typed, Upload, Download, Course, AtEnd
<1>8. Course(c)' BY <1>1 DEF Client, Shapes, Typed, Course, Off, BothDone
<1> QED BY <1>2, <1>3, <1>4, <1>5, <1>6, <1>7, <1>8, OneClient DEF Client

\* It writes into the room of its socket.
LEMMA WritesInd ==
  ASSUME NEW c \in Clients, Ind, load' = load, Writes(c) PROVE Ind'
<1> USE DEF Writes, At, owner, sides, socket, serving, bridge, pumps, channel
<1>1. Client(c) /\ Shapes /\ Up \in Nat /\ Down \in Nat /\ Room \in Nat BY LoadType DEF Ind, Owner
<1>2. Shapes' BY <1>1 DEF Shapes
<1>3. Elsewhere(c) BY <1>1 DEF Shapes, Elsewhere
<1>4. Served(c) BY <1>1 DEF Shapes, Served, Live
<1>5. Typed(c)' BY <1>1 DEF Client, Shapes, Typed, Upload, Up, Down, Live
<1>6. Upload(c)' BY <1>1 DEF Client, Shapes, Typed, Upload
<1>7. Download(c)' BY <1>1 DEF Client, Shapes, Typed, Upload, Download, Course, AtEnd
<1>8. Course(c)' BY <1>1 DEF Client, Shapes, Typed, Course, Off, BothDone
<1> QED BY <1>2, <1>3, <1>4, <1>5, <1>6, <1>7, <1>8, OneClient DEF Client

\* It reads what its socket holds, or the end behind it.
LEMMA ReadsInd ==
  ASSUME NEW c \in Clients, Ind, load' = load, Reads(c) PROVE Ind'
<1> USE DEF Reads, At, owner, sides, socket, serving, bridge, pumps, channel
<1>1. Client(c) /\ Shapes /\ Up \in Nat /\ Down \in Nat /\ Room \in Nat BY LoadType DEF Ind, Owner
<1>2. Shapes' BY <1>1 DEF Shapes
<1>3. Elsewhere(c) BY <1>1 DEF Shapes, Elsewhere
<1>4. Served(c) BY <1>1 DEF Shapes, Served, Live
<1>9. /\ peer[c] = "open" /\ ~leof[c]
      /\ \/ lgot'[c] = lgot[c] + downq[c] /\ downq'[c] = 0 /\ leof'[c] = leof[c]
         \/ /\ downq[c] = 0 /\ (shut[c] # "no" \/ phase[c] = "closed")
            /\ leof'[c] = TRUE /\ lgot'[c] = lgot[c] /\ downq'[c] = downq[c]
  BY <1>1 DEF Shapes
<1>10. UNCHANGED <<owner, peer, lsent, upq, reset, shut, serving, bridge, pumps, channel>> BY <1>1
<1> HIDE DEF Reads
<1>12. Up' = Up /\ Down' = Down BY DEF Up, Down
<1>11. lgot[c] \in Nat /\ downq[c] \in 0..Room /\ leof[c] \in BOOLEAN
  BY <1>1 DEF Client, Typed
<1>14. lgot'[c] \in Nat BY <1>9, <1>11
<1>15. downq'[c] \in 0..Room BY <1>1, <1>9, <1>11
<1>16. leof'[c] \in BOOLEAN BY <1>9, <1>11
<1>13. lgot'[c] \in Nat /\ downq'[c] \in 0..Room /\ leof'[c] \in BOOLEAN
  BY <1>14, <1>15, <1>16
<1>5. Typed(c)' BY <1>1, <1>10, <1>12, <1>13 DEF Client, Typed
<1>6. Upload(c)' BY <1>1, <1>9, <1>10 DEF Client, Typed, Upload
<1>7. Download(c)'
  <2>1. /\ chDown[c].left \in Nat /\ dhold[c] \in Nat /\ downq[c] \in Nat /\ lgot[c] \in Nat
        /\ leof[c] \in BOOLEAN /\ Download(c) /\ Upload(c) /\ Course(c) /\ Typed(c)
    BY <1>1 DEF Client, Typed
  <2>2. CASE downq'[c] = 0 /\ lgot'[c] = lgot[c] + downq[c] /\ leof'[c] = leof[c]
    <3>1. UNCHANGED <<chDown, dhold, bstop, srvEof, down, peer, shut, phase>> BY <1>10
    <3> QED BY <1>9, <2>1, <2>2, <3>1 DEF Download, AtEnd
  <2>3. CASE /\ downq[c] = 0 /\ (shut[c] # "no" \/ phase[c] = "closed")
             /\ leof'[c] = TRUE /\ lgot'[c] = lgot[c] /\ downq'[c] = downq[c]
    <3>1. bstop[c] \/ down[c] = "done" \/ (phase[c] = "closed" /\ down[c] = "off")
      BY <2>1, <2>3 DEF Upload, Download, Course, Off, BothDone, Typed
    <3>2. down[c] = "done" /\ ~bstop[c] => srvEof[c] /\ lgot[c] = chDown[c].sent
      BY <1>9, <2>1, <2>3 DEF Download, AtEnd
    <3> QED BY <1>9, <1>10, <2>1, <2>3, <3>1, <3>2 DEF Download, AtEnd
  <2> QED BY <1>9, <2>2, <2>3
<1>8. Course(c)' BY <1>1, <1>9, <1>10 DEF Client, Typed, Course, Off, BothDone
<1> QED BY <1>2, <1>3, <1>4, <1>5, <1>6, <1>7, <1>8, OneClient DEF Client

\* It closes; what it has not read is lost, and nothing else.
LEMMA ClosesInd ==
  ASSUME NEW c \in Clients, Ind, load' = load, Closes(c) PROVE Ind'
<1> USE DEF Closes, At, owner, sides, socket, serving, bridge, pumps, channel
<1>1. Client(c) /\ Shapes /\ Up \in Nat /\ Down \in Nat /\ Room \in Nat BY LoadType DEF Ind, Owner
<1>2. Shapes' BY <1>1 DEF Shapes
<1>3. Elsewhere(c) BY <1>1 DEF Shapes, Elsewhere
<1>4. Served(c) BY <1>1 DEF Shapes, Served, Live
<1>5. Typed(c)' BY <1>1 DEF Client, Shapes, Typed, Upload, Up, Down, Live
<1>6. Upload(c)' BY <1>1 DEF Client, Shapes, Typed, Upload
<1>7. Download(c)' BY <1>1 DEF Client, Shapes, Typed, Upload, Download, Course, AtEnd
<1>8. Course(c)' BY <1>1 DEF Client, Shapes, Typed, Course, Off, BothDone
<1> QED BY <1>2, <1>3, <1>4, <1>5, <1>6, <1>7, <1>8, OneClient DEF Client

\* The destination sends, or ends.
LEMMA AnswersInd ==
  ASSUME NEW c \in Clients, Ind, load' = load, Answers(c) PROVE Ind'
<1> USE DEF Answers, At, owner, sides, socket, serving, bridge, pumps, channel
<1>1. Client(c) /\ Shapes /\ Up \in Nat /\ Down \in Nat /\ Room \in Nat BY LoadType DEF Ind, Owner
<1>2. Shapes' BY <1>1 DEF Shapes
<1>3. Elsewhere(c) BY <1>1 DEF Shapes, Elsewhere
<1>4. Served(c) BY <1>1 DEF Shapes, Served, Live
<1>9. \/ /\ chDown[c].sent < Down /\ srvEof'[c] = srvEof[c] /\ chan[c] = "open" /\ ~srvEof[c]
         /\ chDown'[c] = [sent |-> chDown[c].sent + 1, left |-> chDown[c].left + 1]
      \/ chDown'[c] = chDown[c] /\ srvEof'[c] = TRUE
  BY <1>1 DEF Shapes
<1>10. UNCHANGED <<owner, sides, socket, serving, bridge, pumps, chan, chUp, chEof>> BY <1>1
<1> HIDE DEF Answers
<1>12. Up' = Up /\ Down' = Down BY DEF Up, Down
<1>11. chDown[c].sent \in 0..Down /\ chDown[c].left \in Nat /\ srvEof[c] \in BOOLEAN
       /\ chDown[c] = [sent |-> chDown[c].sent, left |-> chDown[c].left]
  BY <1>1 DEF Client, Typed
<1>14. chDown'[c] = [sent |-> chDown'[c].sent, left |-> chDown'[c].left] BY <1>1, <1>9, <1>11
<1>15. chDown'[c].sent \in 0..Down BY <1>1, <1>9, <1>11
<1>16. chDown'[c].left \in Nat BY <1>1, <1>9, <1>11
<1>17. srvEof'[c] \in BOOLEAN BY <1>1, <1>9, <1>11
<1>13. /\ chDown'[c] = [sent |-> chDown'[c].sent, left |-> chDown'[c].left]
       /\ chDown'[c].sent \in 0..Down /\ chDown'[c].left \in Nat /\ srvEof'[c] \in BOOLEAN
  BY <1>14, <1>15, <1>16, <1>17
<1>5. Typed(c)' BY <1>1, <1>10, <1>12, <1>13 DEF Client, Typed
<1>6. Upload(c)' BY <1>1, <1>9, <1>10 DEF Client, Typed, Upload
<1>7. Download(c)'
  <2>1. /\ chDown[c].left \in Nat /\ dhold[c] \in Nat /\ downq[c] \in Nat /\ lgot[c] \in Nat
        /\ chDown[c].sent \in Nat /\ Download(c)
    BY <1>1 DEF Client, Typed
  <2>2. CASE /\ chDown[c].sent < Down /\ srvEof'[c] = srvEof[c] /\ chan[c] = "open" /\ ~srvEof[c]
             /\ chDown'[c] = [sent |-> chDown[c].sent + 1, left |-> chDown[c].left + 1]
    <3>1. chDown'[c].sent = chDown[c].sent + 1 /\ chDown'[c].left = chDown[c].left + 1
      BY <2>2
    <3> QED BY <1>10, <2>1, <2>2, <3>1 DEF Download, AtEnd
  <2>3. CASE chDown'[c] = chDown[c] /\ srvEof'[c] = TRUE
    BY <1>10, <2>1, <2>3 DEF Download, AtEnd
  <2> QED BY <1>9, <1>11, <2>2, <2>3
<1>8. Course(c)' BY <1>1, <1>9, <1>10 DEF Client, Typed, Course, Off, BothDone
<1> QED BY <1>2, <1>3, <1>4, <1>5, <1>6, <1>7, <1>8, OneClient DEF Client

-----------------------------------------------------------------------------
(* One client of the server: serve_socks_client_async.                           *)

\* Its request is read, or it is refused, or ends.
LEMMA RequestInd ==
  ASSUME NEW c \in Clients, Ind, load' = load, Request(c) PROVE Ind'
<1> USE DEF Request, Phase, Goes, At, owner, sides, socket, serving, bridge, pumps, channel
<1>1. Client(c) /\ Shapes /\ Up \in Nat /\ Down \in Nat /\ Room \in Nat BY LoadType DEF Ind, Owner
<1>2. Shapes' BY <1>1 DEF Shapes
<1>3. Elsewhere(c) BY <1>1 DEF Shapes, Elsewhere
<1>4. Served(c) BY <1>1 DEF Shapes, Served, Live
<1>5. Typed(c)' BY <1>1 DEF Client, Shapes, Typed, Upload, Up, Down, Live
<1>6. Upload(c)'
  <2> HIDE DEF Goes, At
  <2>1. UNCHANGED <<owner, sides, socket, bridge, pumps, channel>> OBVIOUS
  <2> HIDE DEF Request
  <2>2. UNCHANGED <<lsent, upq, uhold, chUp, up, bstop, peer, chEof, lost, reset, shut, stopping, callback>>
    BY <2>1
  <2> QED BY <1>1, <2>2 DEF Client, Upload
<1>7. Download(c)'
  <2>1. UNCHANGED <<chDown, dhold, downq, lgot, bstop, srvEof, down, leof, peer, shut>> OBVIOUS
  <2>2. down[c] = "off" /\ phase[c] = "greet" BY <1>1 DEF Client, Course, Off
  <2> HIDE DEF Request
  <2> QED BY <1>1, <2>1, <2>2 DEF Client, Download, AtEnd
<1>8. Course(c)' BY <1>1 DEF Client, Shapes, Typed, Course, Off, BothDone
<1> QED BY <1>2, <1>3, <1>4, <1>5, <1>6, <1>7, <1>8, OneClient DEF Client

\* The channel is opened, or there is none.
LEMMA OpenInd ==
  ASSUME NEW c \in Clients, Ind, load' = load, Open(c) PROVE Ind'
<1> USE DEF Open, Goes, At, owner, sides, socket, serving, bridge, pumps, channel
<1>1. Client(c) /\ Shapes /\ Up \in Nat /\ Down \in Nat /\ Room \in Nat BY LoadType DEF Ind, Owner
<1>2. Shapes' BY <1>1 DEF Shapes
<1>3. Elsewhere(c) BY <1>1 DEF Shapes, Elsewhere
<1>4. Served(c) BY <1>1 DEF Shapes, Served, Live
<1>5. Typed(c)' BY <1>1 DEF Client, Shapes, Typed, Upload, Up, Down, Live
<1>6. Upload(c)'
  <2> HIDE DEF Goes, At
  <2>1. UNCHANGED <<owner, sides, socket, bridge, pumps, chUp, chEof>> OBVIOUS
  <2> HIDE DEF Open
  <2>2. UNCHANGED <<lsent, upq, uhold, chUp, up, bstop, peer, chEof, lost, reset, shut, stopping, callback>>
    BY <2>1
  <2> QED BY <1>1, <2>2 DEF Client, Upload
<1>7. Download(c)' BY <1>1 DEF Client, Shapes, Typed, Upload, Download, Course, AtEnd
<1>8. Course(c)' BY <1>1 DEF Client, Shapes, Typed, Course, Off, BothDone
<1> QED BY <1>2, <1>3, <1>4, <1>5, <1>6, <1>7, <1>8, OneClient DEF Client

\* A refusal ends it.
LEMMA RefuseInd ==
  ASSUME NEW c \in Clients, Ind, load' = load, Refuse(c) PROVE Ind'
<1> USE DEF Refuse, Phase, Goes, At, owner, sides, socket, serving, bridge, pumps, channel
<1>1. Client(c) /\ Shapes /\ Up \in Nat /\ Down \in Nat /\ Room \in Nat BY LoadType DEF Ind, Owner
<1>2. Shapes' BY <1>1 DEF Shapes
<1>3. Elsewhere(c) BY <1>1 DEF Shapes, Elsewhere
<1>4. Served(c) BY <1>1 DEF Shapes, Served, Live
<1>5. Typed(c)' BY <1>1 DEF Client, Shapes, Typed, Upload, Up, Down, Live
<1>6. Upload(c)' BY <1>1 DEF Client, Shapes, Typed, Upload
<1>7. Download(c)' BY <1>1 DEF Client, Shapes, Typed, Upload, Download, Course, AtEnd
<1>8. Course(c)' BY <1>1 DEF Client, Shapes, Typed, Course, Off, BothDone
<1> QED BY <1>2, <1>3, <1>4, <1>5, <1>6, <1>7, <1>8, OneClient DEF Client

\* The reply starts both directions of the bridge, or the channel is dropped.
LEMMA ReplyInd ==
  ASSUME NEW c \in Clients, Ind, load' = load, Reply(c) PROVE Ind'
<1> USE DEF Reply, Goes, At, owner, sides, socket, serving, bridge, pumps, channel
<1>1. Client(c) /\ Shapes /\ Up \in Nat /\ Down \in Nat /\ Room \in Nat BY LoadType DEF Ind, Owner
<1>2. Shapes' BY <1>1 DEF Shapes
<1>3. Elsewhere(c) BY <1>1 DEF Shapes, Elsewhere
<1>4. Served(c) BY <1>1 DEF Shapes, Served, Live
<1>5. Typed(c)' BY <1>1 DEF Client, Shapes, Typed, Upload, Up, Down, Live
<1>6. Upload(c)' BY <1>1 DEF Client, Shapes, Typed, Upload, Course, Off
<1>7. Download(c)' BY <1>1 DEF Client, Shapes, Typed, Upload, Download, Course, Off, AtEnd
<1>8. Course(c)' BY <1>1 DEF Client, Shapes, Typed, Course, Off, BothDone
<1> QED BY <1>2, <1>3, <1>4, <1>5, <1>6, <1>7, <1>8, OneClient DEF Client

\* Both directions are done and the channel is dropped.
LEMMA RunBridgeInd ==
  ASSUME NEW c \in Clients, Ind, load' = load, RunBridge(c) PROVE Ind'
<1> USE DEF RunBridge, BothDone, Goes, At, owner, sides, socket, serving, bridge, pumps, channel
<1>1. Client(c) /\ Shapes /\ Up \in Nat /\ Down \in Nat /\ Room \in Nat BY LoadType DEF Ind, Owner
<1>2. Shapes' BY <1>1 DEF Shapes
<1>3. Elsewhere(c) BY <1>1 DEF Shapes, Elsewhere
<1>4. Served(c) BY <1>1 DEF Shapes, Served, Live
<1>5. Typed(c)' BY <1>1 DEF Client, Shapes, Typed, Upload, Up, Down, Live
<1>6. Upload(c)' BY <1>1 DEF Client, Shapes, Typed, Upload
<1>7. Download(c)' BY <1>1 DEF Client, Shapes, Typed, Upload, Download, Course, AtEnd
<1>8. Course(c)' BY <1>1 DEF Client, Shapes, Typed, Course, Off, BothDone
<1> QED BY <1>2, <1>3, <1>4, <1>5, <1>6, <1>7, <1>8, OneClient DEF Client

\* The bridge forgets the descriptor.
LEMMA ForgetInd ==
  ASSUME NEW c \in Clients, Ind, load' = load, Forget(c) PROVE Ind'
<1> USE DEF Forget, Forgotten, Goes, At, owner, sides, socket, serving, bridge, pumps, channel
<1>1. Client(c) /\ Shapes /\ Up \in Nat /\ Down \in Nat /\ Room \in Nat BY LoadType DEF Ind, Owner
<1>2. Shapes' BY <1>1 DEF Shapes
<1>3. Elsewhere(c) BY <1>1 DEF Shapes, Elsewhere
<1>4. Served(c) BY <1>1 DEF Shapes, Served, Live
<1>5. Typed(c)' BY <1>1 DEF Client, Shapes, Typed, Upload, Up, Down, Live
<1>6. Upload(c)' BY <1>1 DEF Client, Shapes, Typed, Upload
<1>7. Download(c)' BY <1>1 DEF Client, Shapes, Typed, Upload, Download, Course, AtEnd
<1>8. Course(c)' BY <1>1 DEF Client, Shapes, Typed, Course, Off, BothDone
<1> QED BY <1>2, <1>3, <1>4, <1>5, <1>6, <1>7, <1>8, OneClient DEF Client

\* The descriptor is closed.
LEMMA CloseInd ==
  ASSUME NEW c \in Clients, Ind, load' = load, Close(c) PROVE Ind'
<1> USE DEF Close, Goes, At, owner, sides, socket, serving, bridge, pumps, channel
<1>1. Client(c) /\ Shapes /\ Up \in Nat /\ Down \in Nat /\ Room \in Nat BY LoadType DEF Ind, Owner
<1>2. Shapes' BY <1>1 DEF Shapes
<1>3. Elsewhere(c) BY <1>1 DEF Shapes, Elsewhere
<1>4. Served(c) BY <1>1 DEF Shapes, Served, Live
<1>5. Typed(c)' BY <1>1 DEF Client, Shapes, Typed, Upload, Up, Down, Live
<1>6. Upload(c)' BY <1>1 DEF Client, Shapes, Typed, Upload
<1>7. Download(c)' BY <1>1 DEF Client, Shapes, Typed, Upload, Download, Course, AtEnd
<1>8. Course(c)' BY <1>1 DEF Client, Shapes, Typed, Course, Off, BothDone
<1> QED BY <1>2, <1>3, <1>4, <1>5, <1>6, <1>7, <1>8, OneClient DEF Client

\* The callback of a cancellation.
LEMMA CallbackInd ==
  ASSUME NEW c \in Clients, Ind, load' = load, Callback(c) PROVE Ind'
<1> USE DEF Callback, Interrupts, At, owner, sides, socket, serving, bridge, pumps, channel
<1>1. Client(c) /\ Shapes /\ Up \in Nat /\ Down \in Nat /\ Room \in Nat BY LoadType DEF Ind, Owner
<1>10. /\ shut' = [d \in Clients |-> shut'[d]] /\ strayed' = [d \in Clients |-> strayed'[d]]
       /\ shut'[c] \in {shut[c], "both"} /\ strayed'[c] = FALSE
       /\ \A d \in Clients \ {c} : shut'[d] = shut[d] /\ strayed'[d] = strayed[d]
  BY ShutsItsOwn
<1>2. Shapes' BY <1>1, <1>10 DEF Shapes
<1>3. Elsewhere(c) BY <1>1, <1>10 DEF Shapes, Elsewhere
<1>4. Served(c) BY <1>1 DEF Shapes, Served, Live
<1>9. bstop'[c] = TRUE /\ callback'[c] = "run" BY <1>1 DEF Shapes
<1>5. Typed(c)' BY <1>1, <1>9, <1>10 DEF Client, Shapes, Typed, Upload, Up, Down, Live
<1>6. Upload(c)' BY <1>1, <1>10 DEF Client, Shapes, Typed, Upload
<1>7. Download(c)' BY <1>1, <1>10 DEF Client, Shapes, Typed, Upload, Download, Course, AtEnd
<1>8. Course(c)' BY <1>1, <1>10 DEF Client, Shapes, Typed, Course, Off, BothDone
<1> QED BY <1>2, <1>3, <1>4, <1>5, <1>6, <1>7, <1>8, OneClient DEF Client

-----------------------------------------------------------------------------
(* Both directions of a bridge.                                                 *)

\* What the socket holds comes before its end.
LEMMA UpLookInd ==
  ASSUME NEW c \in Clients, Ind, load' = load, UpLook(c) PROVE Ind'
<1> USE DEF UpLook, At, owner, sides, socket, serving, bridge, pumps, channel
<1>1. Client(c) /\ Shapes /\ Up \in Nat /\ Down \in Nat /\ Room \in Nat BY LoadType DEF Ind, Owner
<1>2. Shapes' BY <1>1 DEF Shapes
<1>3. Elsewhere(c) BY <1>1 DEF Shapes, Elsewhere
<1>4. Served(c) BY <1>1 DEF Shapes, Served, Live
<1>9. /\ up[c] = "look" /\ ~bstop[c]
      /\ \/ upq[c] > 0 /\ up'[c] = "write" /\ uhold'[c] = upq[c] /\ upq'[c] = 0 /\ reset'[c] = reset[c]
         \/ /\ upq[c] = 0 /\ (peer[c] = "closed" \/ reset[c] \/ shut[c] = "both")
            /\ up'[c] = "eof" /\ reset'[c] = FALSE /\ uhold'[c] = uhold[c] /\ upq'[c] = upq[c]
         \/ up'[c] = "wait" /\ uhold'[c] = uhold[c] /\ upq'[c] = upq[c] /\ reset'[c] = reset[c]
  BY <1>1 DEF Shapes
<1>10. UNCHANGED <<owner, sides, downq, shut, serving, bridge, down, dhold, channel>> BY <1>1
<1> HIDE DEF UpLook
<1>12. Up' = Up /\ Down' = Down BY DEF Up, Down
<1>11. uhold[c] \in Nat /\ upq[c] \in 0..Room /\ reset[c] \in BOOLEAN
  BY <1>1 DEF Client, Typed
<1>14. uhold'[c] \in Nat BY <1>1, <1>9, <1>11
<1>15. upq'[c] \in 0..Room BY <1>1, <1>9, <1>11
<1>16. reset'[c] \in BOOLEAN BY <1>1, <1>9, <1>11
<1>17. up'[c] \in {"write", "eof", "wait"} BY <1>1, <1>9, <1>11
<1>13. /\ uhold'[c] \in Nat /\ upq'[c] \in 0..Room /\ reset'[c] \in BOOLEAN
       /\ up'[c] \in {"write", "eof", "wait"}
  BY <1>14, <1>15, <1>16, <1>17
<1>5. Typed(c)' BY <1>1, <1>10, <1>12, <1>13 DEF Client, Typed
<1>6. Upload(c)' BY <1>1, <1>9, <1>10 DEF Client, Typed, Upload
<1>7. Download(c)' BY <1>1, <1>9, <1>10 DEF Client, Typed, Upload, Download, Course, AtEnd
<1>8. Course(c)' BY <1>1, <1>9, <1>10 DEF Client, Typed, Course, Off, BothDone
<1> QED BY <1>2, <1>3, <1>4, <1>5, <1>6, <1>7, <1>8, OneClient DEF Client

\* The socket can be read.
LEMMA UpWakeInd ==
  ASSUME NEW c \in Clients, Ind, load' = load, UpWake(c) PROVE Ind'
<1> USE DEF UpWake, Readable, At, owner, sides, socket, serving, bridge, pumps, channel
<1>1. Client(c) /\ Shapes /\ Up \in Nat /\ Down \in Nat /\ Room \in Nat BY LoadType DEF Ind, Owner
<1>2. Shapes' BY <1>1 DEF Shapes
<1>3. Elsewhere(c) BY <1>1 DEF Shapes, Elsewhere
<1>4. Served(c) BY <1>1 DEF Shapes, Served, Live
<1>5. Typed(c)' BY <1>1 DEF Client, Shapes, Typed, Upload, Up, Down, Live
<1>6. Upload(c)' BY <1>1 DEF Client, Shapes, Typed, Upload
<1>7. Download(c)' BY <1>1 DEF Client, Shapes, Typed, Upload, Download, Course, AtEnd
<1>8. Course(c)' BY <1>1 DEF Client, Shapes, Typed, Course, Off, BothDone
<1> QED BY <1>2, <1>3, <1>4, <1>5, <1>6, <1>7, <1>8, OneClient DEF Client

\* A byte gets to the destination.
LEMMA UpCarryInd ==
  ASSUME NEW c \in Clients, Ind, load' = load, UpCarry(c) PROVE Ind'
<1> USE DEF UpCarry, At, owner, sides, socket, serving, bridge, pumps, channel
<1>1. Client(c) /\ Shapes /\ Up \in Nat /\ Down \in Nat /\ Room \in Nat BY LoadType DEF Ind, Owner
<1>2. Shapes' BY <1>1 DEF Shapes
<1>3. Elsewhere(c) BY <1>1 DEF Shapes, Elsewhere
<1>4. Served(c) BY <1>1 DEF Shapes, Served, Live
<1>5. Typed(c)' BY <1>1 DEF Client, Shapes, Typed, Upload, Up, Down, Live
<1>6. Upload(c)'
  <2>1. /\ chUp'[c] = chUp[c] + 1 /\ uhold'[c] = uhold[c] - 1 /\ up[c] = "write"
        /\ up'[c] = IF uhold[c] = 1 THEN "look" ELSE up[c]
        /\ UNCHANGED <<lsent, upq, bstop, peer, chEof, lost, reset, shut, stopping, callback>>
    BY <1>1 DEF Shapes
  <2>2. uhold[c] \in Nat /\ uhold[c] > 0 BY <1>1, <2>1 DEF Client, Typed, Upload
  <2> HIDE DEF UpCarry
  <2> QED BY <1>1, <2>1, <2>2 DEF Client, Typed, Upload
<1>7. Download(c)' BY <1>1 DEF Client, Shapes, Typed, Upload, Download, Course, AtEnd
<1>8. Course(c)' BY <1>1 DEF Client, Shapes, Typed, Course, Off, BothDone
<1> QED BY <1>2, <1>3, <1>4, <1>5, <1>6, <1>7, <1>8, OneClient DEF Client

\* The end gets there, behind every byte.
LEMMA UpEofInd ==
  ASSUME NEW c \in Clients, Ind, load' = load, UpEof(c) PROVE Ind'
<1> USE DEF UpEof, At, owner, sides, socket, serving, bridge, pumps, channel
<1>1. Client(c) /\ Shapes /\ Up \in Nat /\ Down \in Nat /\ Room \in Nat BY LoadType DEF Ind, Owner
<1>2. Shapes' BY <1>1 DEF Shapes
<1>3. Elsewhere(c) BY <1>1 DEF Shapes, Elsewhere
<1>4. Served(c) BY <1>1 DEF Shapes, Served, Live
<1>5. Typed(c)' BY <1>1 DEF Client, Shapes, Typed, Upload, Up, Down, Live
<1>6. Upload(c)' BY <1>1 DEF Client, Shapes, Typed, Upload
<1>7. Download(c)' BY <1>1 DEF Client, Shapes, Typed, Upload, Download, Course, AtEnd
<1>8. Course(c)' BY <1>1 DEF Client, Shapes, Typed, Course, Off, BothDone
<1> QED BY <1>2, <1>3, <1>4, <1>5, <1>6, <1>7, <1>8, OneClient DEF Client

\* A failure of this direction cancels both.
LEMMA UpFailsInd ==
  ASSUME NEW c \in Clients, Ind, load' = load, UpFails(c) PROVE Ind'
<1> USE DEF UpFails, Cancelled, At, owner, sides, socket, serving, bridge, pumps, channel
<1>1. Client(c) /\ Shapes /\ Up \in Nat /\ Down \in Nat /\ Room \in Nat BY LoadType DEF Ind, Owner
<1>10. /\ shut' = [d \in Clients |-> shut'[d]] /\ strayed' = [d \in Clients |-> strayed'[d]]
       /\ shut'[c] \in {shut[c], "both"} /\ strayed'[c] = FALSE
       /\ \A d \in Clients \ {c} : shut'[d] = shut[d] /\ strayed'[d] = strayed[d]
  BY ShutsItsOwn
<1>2. Shapes' BY <1>1, <1>10 DEF Shapes
<1>3. Elsewhere(c) BY <1>1, <1>10 DEF Shapes, Elsewhere
<1>4. Served(c) BY <1>1 DEF Shapes, Served, Live
<1>5. Typed(c)' BY <1>1, <1>10 DEF Client, Shapes, Typed, Upload, Up, Down, Live
<1>6. Upload(c)' BY <1>1, <1>10 DEF Client, Shapes, Typed, Upload
<1>7. Download(c)' BY <1>1, <1>10 DEF Client, Shapes, Typed, Upload, Download, Course, AtEnd
<1>8. Course(c)' BY <1>1, <1>10 DEF Client, Shapes, Typed, Course, Off, BothDone
<1> QED BY <1>2, <1>3, <1>4, <1>5, <1>6, <1>7, <1>8, OneClient DEF Client

\* An answer, or the end of it, is read from the channel.
LEMMA DownReadInd ==
  ASSUME NEW c \in Clients, Ind, load' = load, DownRead(c) PROVE Ind'
<1> USE DEF DownRead, At, owner, sides, socket, serving, bridge, pumps, channel
<1>1. Client(c) /\ Shapes /\ Up \in Nat /\ Down \in Nat /\ Room \in Nat BY LoadType DEF Ind, Owner
<1>2. Shapes' BY <1>1 DEF Shapes
<1>3. Elsewhere(c) BY <1>1 DEF Shapes, Elsewhere
<1>4. Served(c) BY <1>1 DEF Shapes, Served, Live
<1>11. [chDown EXCEPT ![c].left = 0][c] = [sent |-> chDown[c].sent, left |-> 0]
  BY <1>1 DEF Shapes, Client, Typed
<1>9. \/ /\ chDown'[c] = [sent |-> chDown[c].sent, left |-> 0] /\ down[c] = "read"
         /\ dhold'[c] = chDown[c].left /\ down'[c] = "send" /\ shut'[c] = shut[c]
      \/ /\ chDown'[c] = chDown[c] /\ dhold'[c] = dhold[c] /\ down'[c] = "done" /\ down[c] = "read"
         /\ shut'[c] = (IF shut[c] = "no" THEN "write" ELSE shut[c]) /\ AtEnd(c)
  BY <1>1, <1>11 DEF Shapes
<1>10. UNCHANGED <<owner, sides, upq, downq, reset, serving, bridge, up, uhold, chan, chUp, chEof, srvEof>> BY <1>1
<1> HIDE DEF DownRead
<1>12. Up' = Up /\ Down' = Down BY DEF Up, Down
<1>5. Typed(c)' BY <1>1, <1>9, <1>10, <1>12 DEF Client, Typed, Upload, Live
<1>6. Upload(c)' BY <1>1, <1>9, <1>10 DEF Client, Typed, Upload
<1>7. Download(c)' BY <1>1, <1>9, <1>10 DEF Client, Typed, Upload, Download, Course, AtEnd
<1>8. Course(c)' BY <1>1, <1>9, <1>10 DEF Client, Typed, Course, Off, BothDone
<1> QED BY <1>2, <1>3, <1>4, <1>5, <1>6, <1>7, <1>8, OneClient DEF Client

\* It is sent as far as there is room, or nobody reads it.
LEMMA DownSendInd ==
  ASSUME NEW c \in Clients, Ind, load' = load, DownSend(c) PROVE Ind'
<1> USE DEF DownSend, Broken, At, owner, sides, socket, serving, bridge, pumps, channel
<1>1. Client(c) /\ Shapes /\ Up \in Nat /\ Down \in Nat /\ Room \in Nat BY LoadType DEF Ind, Owner
<1>2. Shapes' BY <1>1 DEF Shapes
<1>3. Elsewhere(c) BY <1>1 DEF Shapes, Elsewhere
<1>4. Served(c) BY <1>1 DEF Shapes, Served, Live
<1>9. /\ down[c] = "send"
      /\ \/ /\ peer[c] = "closed" \/ reset[c]
            /\ down'[c] = "done" /\ reset'[c] = FALSE /\ dhold'[c] = dhold[c] /\ downq'[c] = downq[c]
         \/ /\ down'[c] = "wait" /\ reset'[c] = reset[c] /\ dhold'[c] = dhold[c] /\ downq'[c] = downq[c]
         \/ \E n \in 1..dhold[c] :
              /\ downq[c] + n <= Room /\ downq'[c] = downq[c] + n /\ dhold'[c] = dhold[c] - n
              /\ down'[c] = (IF n = dhold[c] THEN "read" ELSE down[c]) /\ reset'[c] = reset[c]
  BY <1>1 DEF Shapes
<1>10. UNCHANGED <<owner, sides, upq, serving, callback, bfd, strayed, up, uhold, channel, bstop, shut>> BY <1>1
<1> HIDE DEF DownSend, Broken
<1>12. Up' = Up /\ Down' = Down BY DEF Up, Down
<1>11. dhold[c] \in Nat /\ downq[c] \in 0..Room /\ reset[c] \in BOOLEAN
  BY <1>1 DEF Client, Typed
<1>14. dhold'[c] \in Nat BY <1>1, <1>9, <1>11
<1>15. downq'[c] \in 0..Room BY <1>1, <1>9, <1>11
<1>16. reset'[c] \in BOOLEAN BY <1>1, <1>9, <1>11
<1>17. down'[c] \in {"done", "wait", "read", "send"} BY <1>1, <1>9, <1>11
<1>13. /\ dhold'[c] \in Nat /\ downq'[c] \in 0..Room /\ reset'[c] \in BOOLEAN
       /\ down'[c] \in {"done", "wait", "read", "send"}
  BY <1>14, <1>15, <1>16, <1>17
<1>5. Typed(c)' BY <1>1, <1>10, <1>12, <1>13 DEF Client, Typed
<1>6. Upload(c)' BY <1>1, <1>9, <1>10 DEF Client, Typed, Upload
<1>7. Download(c)' BY <1>1, <1>9, <1>10 DEF Client, Typed, Upload, Download, Course, AtEnd
<1>8. Course(c)' BY <1>1, <1>9, <1>10 DEF Client, Typed, Course, Off, BothDone
<1> QED BY <1>2, <1>3, <1>4, <1>5, <1>6, <1>7, <1>8, OneClient DEF Client

\* There is room, or nobody.
LEMMA DownWakeInd ==
  ASSUME NEW c \in Clients, Ind, load' = load, DownWake(c) PROVE Ind'
<1> USE DEF DownWake, At, owner, sides, socket, serving, bridge, pumps, channel
<1>1. Client(c) /\ Shapes /\ Up \in Nat /\ Down \in Nat /\ Room \in Nat BY LoadType DEF Ind, Owner
<1>2. Shapes' BY <1>1 DEF Shapes
<1>3. Elsewhere(c) BY <1>1 DEF Shapes, Elsewhere
<1>4. Served(c) BY <1>1 DEF Shapes, Served, Live
<1>5. Typed(c)' BY <1>1 DEF Client, Shapes, Typed, Upload, Up, Down, Live
<1>6. Upload(c)' BY <1>1 DEF Client, Shapes, Typed, Upload
<1>7. Download(c)' BY <1>1 DEF Client, Shapes, Typed, Upload, Download, Course, AtEnd
<1>8. Course(c)' BY <1>1 DEF Client, Shapes, Typed, Course, Off, BothDone
<1> QED BY <1>2, <1>3, <1>4, <1>5, <1>6, <1>7, <1>8, OneClient DEF Client

\* A failure of this direction cancels both.
LEMMA DownFailsInd ==
  ASSUME NEW c \in Clients, Ind, load' = load, DownFails(c) PROVE Ind'
<1> USE DEF DownFails, Cancelled, At, owner, sides, socket, serving, bridge, pumps, channel
<1>1. Client(c) /\ Shapes /\ Up \in Nat /\ Down \in Nat /\ Room \in Nat BY LoadType DEF Ind, Owner
<1>10. /\ shut' = [d \in Clients |-> shut'[d]] /\ strayed' = [d \in Clients |-> strayed'[d]]
       /\ shut'[c] \in {shut[c], "both"} /\ strayed'[c] = FALSE
       /\ \A d \in Clients \ {c} : shut'[d] = shut[d] /\ strayed'[d] = strayed[d]
  BY ShutsItsOwn
<1>2. Shapes' BY <1>1, <1>10 DEF Shapes
<1>3. Elsewhere(c) BY <1>1, <1>10 DEF Shapes, Elsewhere
<1>4. Served(c) BY <1>1 DEF Shapes, Served, Live
<1>5. Typed(c)' BY <1>1, <1>10 DEF Client, Shapes, Typed, Upload, Up, Down, Live
<1>6. Upload(c)' BY <1>1, <1>10 DEF Client, Shapes, Typed, Upload
<1>7. Download(c)' BY <1>1, <1>10 DEF Client, Shapes, Typed, Upload, Download, Course, AtEnd
<1>8. Course(c)' BY <1>1, <1>10 DEF Client, Shapes, Typed, Course, Off, BothDone
<1> QED BY <1>2, <1>3, <1>4, <1>5, <1>6, <1>7, <1>8, OneClient DEF Client

-----------------------------------------------------------------------------
(* The server and the session of its gateway.                                  *)

\* A step of the server that leaves the clients as they are, but for callbacks of a
\* cancellation that it has queued.
LEMMA ServerStep ==
  ASSUME Ind, load' = load, UNCHANGED <<sides, socket, serving, bstop, bfd, strayed, pumps, channel>>,
         stopping => stopping', lost => lost', Shapes',
         \A d \in Clients : callback'[d] = callback[d] \/ (callback'[d] = "queued" /\ stopping')
  PROVE \A c \in Clients : Client(c)'
<1> SUFFICES ASSUME NEW c \in Clients PROVE Client(c)' OBVIOUS
<1> USE DEF sides, socket, serving, pumps, channel
<1>1. Client(c) BY DEF Ind
<1>2. callback'[c] = callback[c] \/ (callback'[c] = "queued" /\ stopping') OBVIOUS
<1>3. callback'[c] \in {"none", "registered", "queued", "run"} BY <1>1, <1>2 DEF Client, Typed
<1>4. Up' = Up /\ Down' = Down BY DEF Up, Down
<1>5. Typed(c)' BY <1>1, <1>3, <1>4 DEF Client, Typed
<1>6. Upload(c)' BY <1>1, <1>2 DEF Client, Upload
<1>7. Download(c)' BY <1>1 DEF Client, Download, AtEnd
<1>8. Course(c)' BY <1>1 DEF Client, Course, Off, BothDone
<1> QED BY <1>5, <1>6, <1>7, <1>8 DEF Client

\* The gateway's session fails.
LEMMA LostInd == ASSUME Ind, load' = load, Lost PROVE Ind'
<1> USE DEF Lost, sides, socket, serving, bridge, pumps, channel
<1>1. Shapes' BY DEF Ind, Shapes
<1>2. \A c \in Clients : Client(c)' BY <1>1, ServerStep
<1>3. Serving' = Serving /\ Distinct' BY DEF Serving, Ind, Owner, Distinct
<1>4. Owner' BY <1>3 DEF Ind, Owner
<1> QED BY <1>1, <1>2, <1>4 DEF Ind

\* Another part of the process opens a descriptor that nobody holds.
LEMMA OpensInd == ASSUME Ind, load' = load, Opens PROVE Ind'
<1> USE DEF Opens, sides, socket, serving, bridge, pumps, channel
<1>1. Shapes' BY DEF Ind, Shapes
<1>2. \A c \in Clients : Client(c)' BY <1>1, ServerStep
<1>3. Serving' = Serving BY DEF Serving
<1>4. Distinct' BY DEF Ind, Owner, Distinct, Free
<1>5. Owner' BY <1>3, <1>4 DEF Ind, Owner
<1> QED BY <1>1, <1>2, <1>5 DEF Ind

\* Everyone who waits is cancelled.
LEMMA StopsAllShape ==
  ASSUME Ind, StopsAll, UNCHANGED <<sides, socket, serving, bstop, bfd, strayed, pumps, channel>>
  PROVE /\ Shapes' /\ stopping' = TRUE
        /\ \A d \in Clients : callback'[d] = callback[d] \/ (callback'[d] = "queued" /\ stopping')
<1>1. Shapes' BY DEF Ind, Shapes, StopsAll, sides, socket, serving, pumps, channel
<1> QED BY <1>1 DEF StopsAll

\* The server is told to stop.
LEMMA StopInd == ASSUME Ind, load' = load, Stop PROVE Ind'
<1>1. /\ StopsAll /\ server' = server /\ lost' = lost /\ others' = others
      /\ UNCHANGED <<sides, socket, serving, bstop, bfd, strayed, pumps, channel>>
  BY DEF Stop
<1>2. /\ Shapes' /\ stopping' = TRUE
      /\ \A d \in Clients : callback'[d] = callback[d] \/ (callback'[d] = "queued" /\ stopping')
  BY <1>1, StopsAllShape
<1>3. \A c \in Clients : Client(c)' BY <1>1, <1>2, ServerStep
<1>4. Serving' = Serving /\ Distinct' BY <1>1 DEF Serving, serving, Ind, Owner, Distinct
<1>5. Owner' BY <1>1, <1>2, <1>4 DEF Ind, Owner
<1> QED BY <1>2, <1>3, <1>5 DEF Ind

\* Nobody else can be accepted, and that stops all clients.
LEMMA AcceptFailsInd == ASSUME Ind, load' = load, AcceptFails PROVE Ind'
<1>1. /\ StopsAll /\ server' = "join" /\ lost' = lost /\ others' = others
      /\ UNCHANGED <<sides, socket, serving, bstop, bfd, strayed, pumps, channel>>
  BY DEF AcceptFails
<1>2. /\ Shapes' /\ stopping' = TRUE
      /\ \A d \in Clients : callback'[d] = callback[d] \/ (callback'[d] = "queued" /\ stopping')
  BY <1>1, StopsAllShape
<1>3. \A c \in Clients : Client(c)' BY <1>1, <1>2, ServerStep
<1>4. Serving' = Serving /\ Distinct' BY <1>1 DEF Serving, serving, Ind, Owner, Distinct
<1>5. Owner' BY <1>1, <1>2, <1>4 DEF Ind, Owner
<1> QED BY <1>2, <1>3, <1>5 DEF Ind

\* The loop ends, and then the server, behind its clients.
LEMMA EndLoopInd == ASSUME Ind, load' = load, EndLoop \/ Joined PROVE Ind'
<1> USE DEF EndLoop, Joined, sides, socket, serving, bridge, pumps, channel
<1>1. Shapes' BY DEF Ind, Shapes
<1>2. \A c \in Clients : Client(c)' BY <1>1, ServerStep
<1>3. Serving' = Serving /\ Distinct' BY DEF Serving, Ind, Owner, Distinct
<1>4. server' = "join" \/ (server' = "ended" /\ Serving = {}) BY DEF AllJoined
<1>5. Owner' BY <1>3, <1>4 DEF Ind, Owner
<1> QED BY <1>1, <1>2, <1>5 DEF Ind

\* One client more is served while there is room; one that comes in vain is closed.
LEMMA AcceptInd == ASSUME NEW c \in Clients, Ind, load' = load, Accept(c) PROVE Ind'
<1> USE DEF Accept, At, owner, sides, socket, serving, bridge, pumps, channel
<1>1. Client(c) /\ Shapes BY DEF Ind
<1>2. Shapes' BY <1>1 DEF Shapes
<1>3. Elsewhere(c) BY <1>1 DEF Shapes, Elsewhere
<1>4. Up' = Up /\ Down' = Down BY DEF Up, Down
<1>5. /\ phase[c] = "none" /\ phase'[c] = (IF HasRoom THEN "greet" ELSE "closed")
      /\ peer[c] \in {"queued", "closed"} /\ peer'[c] = (IF peer[c] = "queued" THEN "open" ELSE peer[c])
  BY <1>1 DEF Shapes
<1>12. fd'[c] \in Free \cup {fd[c]} /\ bfd'[c] = 0
  BY <1>1, <1>5 DEF Shapes, Client, Course
<1>6. Typed(c)' BY <1>1, <1>4, <1>5 DEF Client, Typed, Live
<1>7. Upload(c)' BY <1>1, <1>5 DEF Client, Upload
<1>8. Download(c)' BY <1>1, <1>5 DEF Client, Download, Course, Off, AtEnd
<1>9. Course(c)' BY <1>1, <1>5, <1>12 DEF Client, Course, Off, BothDone
<1>10. \A d \in Clients : Client(d)'
  <2>1. Client(c)' BY <1>6, <1>7, <1>8, <1>9 DEF Client
  <2>2. ASSUME NEW d \in Clients, d # c PROVE Client(d)'
    BY <1>3, <2>2, Others DEF Ind
  <2> QED BY <2>1, <2>2
<1>11. Owner'
  <2>1. Cardinality(Serving) \in Nat /\ IsFiniteSet(Serving) /\ Limit \in Nat /\ Cardinality(Serving) <= Limit
    BY FS_CardinalityType, ForwardAssumption DEF Ind, Owner
  <2>2. server = "accept" /\ server' = server /\ stopping' = stopping /\ lost' = lost OBVIOUS
  <2>5. Distinct' BY <1>3, <1>12 DEF Ind, Owner, Distinct, Elsewhere, Free, Descriptors
  <2>3. CASE HasRoom
    <3>1. Serving' = Serving \cup {c} BY <1>3, <1>5, <2>3 DEF Serving, Elsewhere, Live
    <3>2. c \notin Serving BY <1>5 DEF Serving, Live
    <3>3. IsFiniteSet(Serving') /\ Cardinality(Serving') = Cardinality(Serving) + 1
      BY <2>1, <3>1, <3>2, FS_AddElement
    <3>4. Cardinality(Serving') <= Limit BY <2>1, <2>3, <3>3 DEF HasRoom
    <3> QED BY <2>2, <2>5, <3>3, <3>4 DEF Ind, Owner
  <2>4. CASE ~HasRoom
    <3>1. Serving' \subseteq Serving /\ fd' = fd BY <1>3, <1>5, <2>4 DEF Serving, Elsewhere, Live
    <3> QED BY <2>2, <3>1, OwnerKept DEF Ind
  <2> QED BY <2>3, <2>4
<1> QED BY <1>2, <1>10, <1>11 DEF Ind

-----------------------------------------------------------------------------
(* The theorem.                                                                *)

\* Every step keeps the invariant.
LEMMA NextInd == Ind /\ [Next]_vars => Ind'
<1> SUFFICES ASSUME Ind, [Next]_vars PROVE Ind' OBVIOUS
<1>1. CASE UNCHANGED vars
  <2> USE <1>1 DEF vars, owner, sides, socket, serving, bridge, pumps, channel
  <2>1. Shapes' BY DEF Ind, Shapes
  <2>2. \A d \in Clients : callback'[d] = callback[d] OBVIOUS
  <2>3. load' = load /\ stopping' = stopping /\ lost' = lost /\ server' = server OBVIOUS
  <2>4. \A c \in Clients : Client(c)' BY <2>1, <2>2, <2>3, ServerStep
  <2>5. Serving' = Serving /\ Distinct' BY DEF Serving, Ind, Owner, Distinct
  <2>6. Owner' BY <2>3, <2>5 DEF Ind, Owner
  <2> QED BY <2>1, <2>4, <2>6 DEF Ind
<1>2. CASE load' = load /\ (Lost \/ Stop \/ EndLoop \/ AcceptFails \/ Joined \/ Opens)
  BY <1>2, LostInd, OpensInd, StopInd, EndLoopInd, AcceptFailsInd
<1>3. ASSUME NEW c \in Clients, load' = load,
             Accept(c) \/ Serve(c) \/ PumpUp(c) \/ PumpDown(c) \/ World(c)
      PROVE Ind'
  <2>1. CASE Accept(c) BY <1>3, <2>1, AcceptInd
  <2>2. CASE Serve(c)
    BY <1>3, <2>2, RequestInd, OpenInd, RefuseInd, ReplyInd, RunBridgeInd, ForgetInd, CloseInd, CallbackInd
    DEF Serve
  <2>3. CASE PumpUp(c)
    BY <1>3, <2>3, UpLookInd, UpWakeInd, UpCarryInd, UpEofInd, UpFailsInd DEF PumpUp
  <2>4. CASE PumpDown(c)
    BY <1>3, <2>4, DownReadInd, DownSendInd, DownWakeInd, DownFailsInd DEF PumpDown
  <2>5. CASE World(c)
    BY <1>3, <2>5, ConnectsInd, WritesInd, ReadsInd, ClosesInd, AnswersInd DEF World
  <2> QED BY <1>3, <2>1, <2>2, <2>3, <2>4, <2>5
<1> QED BY <1>1, <1>2, <1>3 DEF Next

\* Both directions of every bridge are whole: the destination hears the end of an upload
\* only behind all its bytes, a client that reads the end has read the whole answer, no
\* descriptor of anybody else is shut down, and nothing outlives what it uses
\* (ssh-proxy.cpp:50-129, ssh-socks-proxy.cpp:98-230).
THEOREM BridgesSound == Spec => []ForwardSound
<1>1. Init => Ind BY InitInd
<1>2. Ind /\ [Next]_vars => Ind' BY NextInd
<1>3. Ind => ForwardSound BY IndSound
<1> QED BY <1>1, <1>2, <1>3, PTL DEF Spec

-----------------------------------------------------------------------------
(* SshLogin: any number of logins that share the known_hosts of a user, for any keys   *)
(* and any policies of their servers.                                            *)

\* Every variable that is kept for each login is a function on the logins.
LoginShapes ==
  /\ step = [p \in Logins |-> step[p]] /\ status = [p \in Logins |-> status[p]]
  /\ plan = [p \in Logins |-> plan[p]] /\ left = [p \in Logins |-> left[p]]
  /\ methods = [p \in Logins |-> methods[p]] /\ attempt = [p \in Logins |-> attempt[p]]
  /\ key = [p \in Logins |-> key[p]] /\ identity = [p \in Logins |-> identity[p]]
  /\ asked = [p \in Logins |-> [m \in Methods |-> asked[p][m]]]
  /\ blame = [p \in Logins |-> blame[p]]

\* The values of one login.
LoginTyped(p) ==
  /\ step[p] \in Phases /\ status[p] \in {"ok", "unknown", "changed", "other", "error"}
  /\ plan[p] \in {"none", "user", "global"} /\ left[p] \subseteq Seq(Methods)
  /\ methods[p] \subseteq Methods /\ attempt[p] \in 1..4
  /\ key[p] \in Keys /\ identity[p] \in Identities /\ blame[p] \in BOOLEAN

\* A key is checked or agreed to before the login goes on, and only an unknown key is
\* saved beside others that were agreed to.
Trusts(p) ==
  /\ step[p] \notin HostPhases \cup {"failed"} => status[p] = "ok" \/ key[p] \in agreed
  /\ step[p] \in {"remove", "save"} => key[p] \in agreed
  /\ step[p] \in {"planUser", "planGlobal"} => Changed(p)
  /\ step[p] = "ask" => status[p] \in {"unknown", "changed", "other"}
  /\ step[p] = "ask" /\ status[p] = "unknown" => known \subseteq agreed
  /\ step[p] = "save" => known \subseteq agreed
  /\ step[p] = "in" => <<>> \in left[p]

\* How often a login has asked, by how far it has come.
BeforeKeys == HostPhases \cup {"none"}
BeforePassword == BeforeKeys \cup {"passphrase", "import", "auto", "refresh"}
Prompts(p) ==
  /\ asked[p]["publickey"] \in 0..3 /\ asked[p]["password"] \in 0..3 /\ asked[p]["interactive"] \in 0..3
  /\ step[p] \in BeforeKeys => asked[p]["publickey"] = 0
  /\ step[p] = "passphrase" => attempt[p] <= 3 /\ asked[p]["publickey"] = attempt[p] - 1
  /\ step[p] \in BeforePassword => asked[p]["password"] = 0 /\ asked[p]["interactive"] = 0
  /\ step[p] = "password" =>
       attempt[p] <= 3 /\ asked[p]["password"] = attempt[p] - 1 /\ asked[p]["interactive"] = 0
  /\ step[p] \in {"interactive", "answer"} => attempt[p] <= 3 /\ asked[p]["interactive"] <= attempt[p] - 1

Entry(p) == LoginTyped(p) /\ Trusts(p) /\ Prompts(p)
Files == known \subseteq Keys /\ global \subseteq Keys /\ agreed \subseteq Keys
LoginInd == LoginShapes /\ Files /\ \A p \in Logins : Entry(p)

\* The invariant says the type invariant and both properties of a state.
LEMMA LoginIndSound == LoginInd => LoginTypeOK /\ TrustFirst /\ InComplete
<1> SUFFICES ASSUME LoginInd PROVE LoginTypeOK /\ TrustFirst /\ InComplete OBVIOUS
<1>1. \A p \in Logins : LoginTyped(p) /\ Trusts(p) /\ Prompts(p) BY DEF LoginInd, Entry
<1>2. asked \in [Logins -> [Methods -> 0 .. MaximumAttempts]]
  <2>1. \A p \in Logins : \A m \in Methods : asked[p][m] \in 0..3
    BY <1>1 DEF Prompts, Methods
  <2> QED BY <2>1 DEF LoginInd, LoginShapes, MaximumAttempts
<1>3. LoginTypeOK
  BY <1>1, <1>2 DEF LoginInd, LoginShapes, LoginTyped, Files, LoginTypeOK, MaximumAttempts
<1>4. TrustFirst /\ InComplete BY <1>1 DEF Trusts, TrustFirst, InComplete
<1> QED BY <1>3, <1>4

\* The first state.
LEMMA LoginInitInd == LoginInit => LoginInd
<1> SUFFICES ASSUME LoginInit PROVE LoginInd OBVIOUS
<1>1. LoginShapes BY DEF LoginInit, LoginShapes
<1>2. Files BY DEF LoginInit, Files
<1>3. ASSUME NEW p \in Logins PROVE Entry(p)
  <2>1. left[p] \subseteq Seq(Methods) BY LoginAssumption DEF LoginInit, Methods
  <2>2. step[p] = "name" /\ attempt[p] = 1 BY DEF LoginInit
  <2>3. LoginTyped(p) BY <2>1 DEF LoginInit, LoginTyped, Phases
  <2>4. Trusts(p) BY <2>2 DEF Trusts, HostPhases
  <2>5. asked[p]["publickey"] = 0 /\ asked[p]["password"] = 0 /\ asked[p]["interactive"] = 0
    BY DEF LoginInit, Methods
  <2>6. Prompts(p) BY <2>2, <2>5 DEF Prompts, HostPhases, BeforeKeys
  <2> QED BY <2>3, <2>4, <2>6 DEF Entry
<1> QED BY <1>1, <1>2, <1>3 DEF LoginInd

\* What a step of one login leaves alone.
OtherLogins(p) ==
  \A q \in Logins \ {p} :
    /\ step'[q] = step[q] /\ status'[q] = status[q] /\ plan'[q] = plan[q] /\ left'[q] = left[q]
    /\ methods'[q] = methods[q] /\ attempt'[q] = attempt[q] /\ key'[q] = key[q]
    /\ identity'[q] = identity[q] /\ blame'[q] = blame[q]
    /\ asked'[q]["publickey"] = asked[q]["publickey"] /\ asked'[q]["password"] = asked[q]["password"]
    /\ asked'[q]["interactive"] = asked[q]["interactive"]

\* What it does to the files: it saves what was agreed to.
FilesGrow ==
  /\ agreed \subseteq agreed' /\ agreed' \subseteq Keys /\ known' \subseteq known \cup agreed'
  /\ known' \subseteq Keys /\ global' = global

\* A step of one login that keeps its own entry.
LEMMA OneLogin ==
  ASSUME NEW p \in Logins, LoginInd, LoginShapes', OtherLogins(p), FilesGrow, Entry(p)'
  PROVE LoginInd'
<1>1. Files' BY DEF Files, FilesGrow, LoginInd
<1>2. ASSUME NEW q \in Logins, q # p PROVE Entry(q)'
  <2>1. Entry(q) BY DEF LoginInd
  <2>2. /\ step'[q] = step[q] /\ status'[q] = status[q] /\ plan'[q] = plan[q] /\ left'[q] = left[q]
        /\ methods'[q] = methods[q] /\ attempt'[q] = attempt[q] /\ key'[q] = key[q]
        /\ identity'[q] = identity[q] /\ blame'[q] = blame[q]
        /\ asked'[q]["publickey"] = asked[q]["publickey"] /\ asked'[q]["password"] = asked[q]["password"]
        /\ asked'[q]["interactive"] = asked[q]["interactive"]
    BY <1>2 DEF OtherLogins
  <2>3. LoginTyped(q)' BY <2>1, <2>2 DEF Entry, LoginTyped
  <2>4. Trusts(q)' BY <2>1, <2>2 DEF Entry, Trusts, Changed, FilesGrow
  <2>5. Prompts(q)' BY <2>1, <2>2 DEF Entry, Prompts
  <2> QED BY <2>3, <2>4, <2>5 DEF Entry
<1> QED BY <1>1, <1>2 DEF LoginInd

-----------------------------------------------------------------------------
(* The user name and the host key.                                             *)

\* What a login does there leaves its authentication alone, and every other login.
Checks(p) ==
  /\ UNCHANGED <<left, methods, attempt, asked, key, identity, global>>
  /\ step' = [step EXCEPT ![p] = step'[p]] /\ status' = [status EXCEPT ![p] = status'[p]]
  /\ plan' = [plan EXCEPT ![p] = plan'[p]] /\ blame' = [blame EXCEPT ![p] = blame'[p]]

\* Such a step keeps the counts, for nothing has been asked yet.
LEMMA ChecksStep ==
  ASSUME NEW p \in Logins, LoginInd, Checks(p), FilesGrow, step[p] \in HostPhases,
         step'[p] \in HostPhases \cup {"none", "failed"},
         status'[p] \in {"ok", "unknown", "changed", "other", "error"},
         plan'[p] \in {"none", "user", "global"}, blame'[p] \in BOOLEAN, Trusts(p)'
  PROVE LoginInd'
<1>1. LoginTyped(p) /\ Prompts(p) /\ LoginShapes BY DEF LoginInd, Entry
<1>2. LoginShapes'
  <2>1. /\ step' = [q \in Logins |-> step'[q]] /\ status' = [q \in Logins |-> status'[q]]
        /\ plan' = [q \in Logins |-> plan'[q]] /\ blame' = [q \in Logins |-> blame'[q]]
    BY <1>1 DEF LoginShapes, Checks
  <2>2. UNCHANGED <<left, methods, attempt, asked, key, identity>> BY DEF Checks
  <2> QED BY <1>1, <2>1, <2>2 DEF LoginShapes
<1>3. OtherLogins(p) BY <1>1 DEF LoginShapes, Checks, OtherLogins
<1>5. LoginTyped(p)' BY <1>1 DEF Checks, LoginTyped, Phases, HostPhases
<1>7. Prompts(p)' BY <1>1 DEF Checks, Prompts, HostPhases, BeforeKeys, BeforePassword
<1> QED BY <1>2, <1>3, <1>5, <1>7, OneLogin DEF Entry

\* The network, a file or the user may be blamed.
LEMMA BlameDoes ==
  ASSUME NEW p \in Logins, LoginShapes, NEW cause, Blame(p, cause)
  PROVE blame' = [blame EXCEPT ![p] = blame'[p]] /\ blame'[p] \in BOOLEAN
BY DEF Blame, LoginShapes

\* A login goes on.
LEMMA GotoDoes ==
  ASSUME NEW p \in Logins, LoginShapes, NEW next, Goto(p, next)
  PROVE step' = [step EXCEPT ![p] = step'[p]] /\ step'[p] = next
BY DEF Goto, LoginShapes

\* A variable that is left alone keeps every entry.
LEMMA SameEntry ==
  ASSUME NEW p \in Logins, LoginShapes
  PROVE /\ step = [step EXCEPT ![p] = step[p]] /\ left = [left EXCEPT ![p] = left[p]]
        /\ methods = [methods EXCEPT ![p] = methods[p]] /\ attempt = [attempt EXCEPT ![p] = attempt[p]]
        /\ blame = [blame EXCEPT ![p] = blame[p]] /\ asked = [asked EXCEPT ![p] = asked[p]]
        /\ asked[p] = [m \in Methods |-> asked[p][m]]
        /\ status = [status EXCEPT ![p] = status[p]] /\ plan = [plan EXCEPT ![p] = plan[p]]
BY DEF LoginShapes

\* The name is asked for.
LEMMA NameLogin == ASSUME NEW p \in Logins, LoginInd, Name(p) PROVE LoginInd'
<1>1. LoginTyped(p) /\ Trusts(p) /\ LoginShapes /\ Files BY DEF LoginInd, Entry
<1>2. /\ step[p] = "name" /\ UNCHANGED <<status, plan, known, agreed, left, methods, attempt, asked, key, identity, global>>
      /\ \E next \in {"name", "verify", "failed"} : Goto(p, next) /\ Blame(p, next = "failed")
  BY DEF Name, hostKeys, answers, given
<1>3. PICK next \in {"name", "verify", "failed"} : Goto(p, next) /\ Blame(p, next = "failed") BY <1>2
<1>4. step' = [step EXCEPT ![p] = step'[p]] /\ step'[p] = next BY <1>1, <1>3, GotoDoes
<1>5. blame' = [blame EXCEPT ![p] = blame'[p]] /\ blame'[p] \in BOOLEAN BY <1>1, <1>3, BlameDoes
<1>6. Checks(p) BY <1>1, <1>2, <1>4, <1>5, SameEntry DEF Checks
<1>7. Trusts(p)' BY <1>2, <1>4 DEF Trusts, HostPhases
<1>8. FilesGrow BY <1>1, <1>2 DEF FilesGrow, Files
<1> QED BY <1>1, <1>2, <1>4, <1>5, <1>6, <1>7, <1>8, ChecksStep DEF LoginTyped, HostPhases

\* The key is looked up in both files: an unknown one finds them empty.
LEMMA VerifyLogin == ASSUME NEW p \in Logins, LoginInd, Verify(p) PROVE LoginInd'
<1>1. LoginTyped(p) /\ Trusts(p) /\ LoginShapes /\ Files BY DEF LoginInd, Entry
<1>2. /\ step[p] = "verify" /\ UNCHANGED <<plan, known, agreed, left, methods, attempt, asked, key, identity, global>>
  BY DEF Verify, answers, given
<1>3. PICK s \in {Known(p), "error"} :
        status' = [status EXCEPT ![p] = s] /\ Goto(p, Verdict(s)) /\ Blame(p, s = "error")
  BY DEF Verify
<1>4. s \in {"ok", "unknown", "changed", "other", "error"} /\ (s = "unknown" => known = {})
  BY <1>3 DEF Known
<1>5. step' = [step EXCEPT ![p] = step'[p]] /\ step'[p] = Verdict(s) BY <1>1, <1>3, GotoDoes
<1>6. blame' = [blame EXCEPT ![p] = blame'[p]] /\ blame'[p] \in BOOLEAN BY <1>1, <1>3, BlameDoes
<1>7. status' = [status EXCEPT ![p] = status'[p]] /\ status'[p] = s BY <1>1, <1>3 DEF LoginShapes
<1>8. Checks(p) BY <1>1, <1>2, <1>5, <1>6, <1>7, SameEntry DEF Checks
<1>9. Verdict(s) = IF s = "ok" THEN "none" ELSE IF s = "error" THEN "failed" ELSE
                   IF s = "unknown" THEN "ask" ELSE "planUser"
  BY <1>4 DEF Verdict
<1>10. Trusts(p)' BY <1>2, <1>4, <1>5, <1>7, <1>9 DEF Trusts, Changed, HostPhases
<1>11. FilesGrow BY <1>1, <1>2 DEF FilesGrow, Files
<1> QED
  BY <1>1, <1>2, <1>4, <1>5, <1>6, <1>7, <1>8, <1>9, <1>10, <1>11, ChecksStep DEF LoginTyped, HostPhases

\* The file that holds what conflicts is looked for.
LEMMA PlanLogin == ASSUME NEW p \in Logins, LoginInd, PlanUser(p) \/ PlanGlobal(p) PROVE LoginInd'
<1>1. LoginTyped(p) /\ Trusts(p) /\ LoginShapes /\ Files BY DEF LoginInd, Entry
<1>2. /\ step[p] \in {"planUser", "planGlobal"}
      /\ UNCHANGED <<status, known, agreed, left, methods, attempt, asked, key, identity, global, blame>>
  BY DEF PlanUser, PlanGlobal, answers, given
<1>3. \E f \in {"none", "user", "global"}, n \in {"ask", "planGlobal"} : plan' = [plan EXCEPT ![p] = f] /\ Goto(p, n)
  BY DEF PlanUser, PlanGlobal
<1>4. step' = [step EXCEPT ![p] = step'[p]] /\ step'[p] \in {"ask", "planGlobal"}
  BY <1>1, <1>3, GotoDoes
<1>5. plan' = [plan EXCEPT ![p] = plan'[p]] /\ plan'[p] \in {"none", "user", "global"}
  BY <1>1, <1>3 DEF LoginShapes
<1>6. Checks(p) BY <1>1, <1>2, <1>4, <1>5, SameEntry DEF Checks
<1>7. Trusts(p)' BY <1>1, <1>2, <1>4 DEF Trusts, Changed, HostPhases
<1>8. FilesGrow BY <1>1, <1>2 DEF FilesGrow, Files
<1> QED BY <1>1, <1>2, <1>4, <1>5, <1>6, <1>7, <1>8, ChecksStep DEF LoginTyped, HostPhases

\* The user agrees to a key that is unknown, or to replace one of his file, or the login ends.
LEMMA AnswerHostKeyLogin == ASSUME NEW p \in Logins, LoginInd, AnswerHostKey(p) PROVE LoginInd'
<1>1. LoginTyped(p) /\ Trusts(p) /\ LoginShapes /\ Files BY DEF LoginInd, Entry
<1>2. step[p] = "ask" /\ UNCHANGED <<status, plan, known, left, methods, attempt, asked, key, identity, global>>
  BY DEF AnswerHostKey, answers, given
<1>3. PICK response \in {"accept", "reset", "refuse"} :
        /\ Goto(p, Proceeds(p, response)) /\ Blame(p, Proceeds(p, response) = "failed")
        /\ agreed' = IF Proceeds(p, response) = "failed" THEN agreed ELSE agreed \cup {key[p]}
  BY DEF AnswerHostKey
<1>4. /\ Proceeds(p, response) \in {"save", "remove", "failed"}
      /\ Proceeds(p, response) = "save" => ~Changed(p)
  BY DEF Proceeds
<1>5. step' = [step EXCEPT ![p] = step'[p]] /\ step'[p] = Proceeds(p, response) BY <1>1, <1>3, GotoDoes
<1>6. blame' = [blame EXCEPT ![p] = blame'[p]] /\ blame'[p] \in BOOLEAN BY <1>1, <1>3, BlameDoes
<1>7. Checks(p) BY <1>1, <1>2, <1>5, <1>6, SameEntry DEF Checks
<1>8. agreed \subseteq agreed' /\ agreed' \subseteq Keys /\ (step'[p] # "failed" => key[p] \in agreed')
  BY <1>1, <1>3, <1>5 DEF LoginTyped, Files
<1>9. Trusts(p)' BY <1>1, <1>2, <1>4, <1>5, <1>8 DEF Trusts, Changed, HostPhases
<1>10. FilesGrow BY <1>1, <1>2, <1>8 DEF FilesGrow, Files
<1> QED BY <1>1, <1>2, <1>4, <1>5, <1>6, <1>7, <1>9, <1>10, ChecksStep DEF LoginTyped, HostPhases

\* The old keys are removed before the new one is saved.
LEMMA RemoveLogin == ASSUME NEW p \in Logins, LoginInd, Remove(p) PROVE LoginInd'
<1>1. LoginTyped(p) /\ Trusts(p) /\ LoginShapes /\ Files BY DEF LoginInd, Entry
<1>2. /\ step[p] = "remove" /\ UNCHANGED <<status, plan, agreed, left, methods, attempt, asked, key, identity, global>>
      /\ \/ known' = {} /\ Goto(p, "save") /\ Blame(p, FALSE)
         \/ known' = known /\ Goto(p, "failed") /\ Blame(p, TRUE)
  BY DEF Remove, answers, given
<1>3. step' = [step EXCEPT ![p] = step'[p]] /\ (step'[p] = "failed" \/ (step'[p] = "save" /\ known' = {}))
  BY <1>1, <1>2, GotoDoes
<1>4. blame' = [blame EXCEPT ![p] = blame'[p]] /\ blame'[p] \in BOOLEAN BY <1>1, <1>2, BlameDoes
<1>5. Checks(p) BY <1>1, <1>2, <1>3, <1>4, SameEntry DEF Checks
<1>6. Trusts(p)' BY <1>1, <1>2, <1>3 DEF Trusts, HostPhases
<1>7. FilesGrow BY <1>1, <1>2 DEF FilesGrow, Files
<1> QED BY <1>1, <1>2, <1>3, <1>4, <1>5, <1>6, <1>7, ChecksStep DEF LoginTyped, HostPhases

\* It is saved.
LEMMA SaveLogin == ASSUME NEW p \in Logins, LoginInd, Save(p) PROVE LoginInd'
<1>1. LoginTyped(p) /\ Trusts(p) /\ LoginShapes /\ Files BY DEF LoginInd, Entry
<1>2. /\ step[p] = "save" /\ UNCHANGED <<status, plan, agreed, left, methods, attempt, asked, key, identity, global>>
      /\ \/ known' = known \cup {key[p]} /\ Goto(p, "none") /\ Blame(p, FALSE)
         \/ known' = known /\ Goto(p, "failed") /\ Blame(p, TRUE)
  BY DEF Save, answers, given
<1>3. step' = [step EXCEPT ![p] = step'[p]] /\ step'[p] \in {"none", "failed"} BY <1>1, <1>2, GotoDoes
<1>4. blame' = [blame EXCEPT ![p] = blame'[p]] /\ blame'[p] \in BOOLEAN BY <1>1, <1>2, BlameDoes
<1>5. Checks(p) BY <1>1, <1>2, <1>3, <1>4, SameEntry DEF Checks
<1>6. Trusts(p)' BY <1>1, <1>2, <1>3 DEF Trusts, HostPhases
<1>7. FilesGrow BY <1>1, <1>2 DEF FilesGrow, Files, Trusts, LoginTyped
<1> QED BY <1>1, <1>2, <1>3, <1>4, <1>5, <1>6, <1>7, ChecksStep DEF LoginTyped, HostPhases

-----------------------------------------------------------------------------
(* The authentication.                                                         *)

\* It leaves the key and the files, and every other login.
Authenticates(p) ==
  /\ UNCHANGED <<status, plan, known, agreed, key, identity, global>>
  /\ step' = [step EXCEPT ![p] = step'[p]] /\ left' = [left EXCEPT ![p] = left'[p]]
  /\ methods' = [methods EXCEPT ![p] = methods'[p]] /\ attempt' = [attempt EXCEPT ![p] = attempt'[p]]
  /\ blame' = [blame EXCEPT ![p] = blame'[p]] /\ asked' = [asked EXCEPT ![p] = asked'[p]]
  /\ asked'[p] = [m \in Methods |-> asked'[p][m]]

\* A step behind the check of the key that keeps the values and the count of prompts.
LEMMA AuthenticatesStep ==
  ASSUME NEW p \in Logins, LoginInd, Authenticates(p), step[p] \notin HostPhases \cup {"failed"},
         step'[p] \in Phases \ HostPhases, left'[p] \subseteq Seq(Methods), methods'[p] \subseteq Methods,
         attempt'[p] \in 1..4, blame'[p] \in BOOLEAN, Prompts(p)', step'[p] = "in" => <<>> \in left'[p]
  PROVE LoginInd'
<1>1. LoginTyped(p) /\ Trusts(p) /\ LoginShapes /\ Files BY DEF LoginInd, Entry
<1>2. LoginShapes'
  <2>1. asked' = [q \in Logins |-> asked'[q]]
    BY <1>1 DEF LoginShapes, Authenticates
  <2>2. ASSUME NEW q \in Logins PROVE asked'[q] = [m \in Methods |-> asked'[q][m]]
    <3>1. asked[q] = [m \in Methods |-> asked[q][m]] BY <1>1 DEF LoginShapes
    <3>2. CASE q = p BY <3>2 DEF Authenticates
    <3>3. CASE q # p
      <4>1. asked'[q] = asked[q] BY <1>1, <3>3 DEF LoginShapes, Authenticates
      <4> QED BY <3>1, <4>1
    <3> QED BY <3>2, <3>3
  <2>3. asked' = [q \in Logins |-> [m \in Methods |-> asked'[q][m]]] BY <2>1, <2>2
  <2>4. /\ step' = [q \in Logins |-> step'[q]] /\ left' = [q \in Logins |-> left'[q]]
        /\ methods' = [q \in Logins |-> methods'[q]] /\ attempt' = [q \in Logins |-> attempt'[q]]
        /\ blame' = [q \in Logins |-> blame'[q]]
    BY <1>1 DEF LoginShapes, Authenticates
  <2>5. UNCHANGED <<status, plan, key, identity>> BY DEF Authenticates
  <2> QED BY <1>1, <2>3, <2>4, <2>5 DEF LoginShapes
<1>3. OtherLogins(p) BY <1>1 DEF LoginShapes, Authenticates, OtherLogins
<1>4. FilesGrow BY <1>1 DEF FilesGrow, Files, Authenticates
<1>5. LoginTyped(p)' BY <1>1 DEF Authenticates, LoginTyped
<1>6. Trusts(p)' BY <1>1 DEF Authenticates, Trusts, HostPhases, Phases
<1> QED BY <1>2, <1>3, <1>4, <1>5, <1>6, OneLogin DEF Entry

Tries(p, m, next) == \E right \in BOOLEAN : Try(p, m, right, next)

\* A method that is tried ends the login only when a policy is complete.
LEMMA TryDoes ==
  ASSUME NEW p \in Logins, LoginShapes, left[p] \subseteq Seq(Methods), NEW m, NEW next, Tries(p, m, next)
  PROVE /\ step' = [step EXCEPT ![p] = step'[p]] /\ left' = [left EXCEPT ![p] = left'[p]]
        /\ blame' = [blame EXCEPT ![p] = blame'[p]] /\ blame'[p] \in BOOLEAN
        /\ left'[p] \subseteq Seq(Methods)
        /\ step'[p] = next \/ (step'[p] = "in" /\ <<>> \in left'[p])
<1>0. PICK right \in BOOLEAN : Try(p, m, right, next) BY DEF Tries
<1> DEFINE rest == IF right /\ m \in Offered(p) THEN {Tail(s) : s \in {t \in left[p] \ {<<>>} : Head(t) = m}}
                   ELSE left[p]
           passed == rest # left[p] /\ Accepted(rest)
<1>1. /\ left' = [left EXCEPT ![p] = rest] /\ Goto(p, IF passed THEN "in" ELSE next)
      /\ Blame(p, ~right /\ m \in Offered(p))
  BY <1>0 DEF Try
<1>2. rest \subseteq Seq(Methods)
  <2>1. ASSUME NEW s \in left[p] \ {<<>>} PROVE Tail(s) \in Seq(Methods)
    <3>1. s \in Seq(Methods) /\ s # <<>> BY <2>1
    <3> QED BY <3>1
  <2> QED BY <2>1
<1> HIDE DEF rest, passed
<1>3. left'[p] = rest /\ left' = [left EXCEPT ![p] = left'[p]] BY <1>1 DEF LoginShapes
<1>4. blame' = [blame EXCEPT ![p] = blame'[p]] /\ blame'[p] \in BOOLEAN BY <1>1, BlameDoes
<1>5. step'[p] = (IF passed THEN "in" ELSE next) /\ step' = [step EXCEPT ![p] = step'[p]]
  BY <1>1 DEF Goto, LoginShapes
<1>6. passed => <<>> \in rest BY DEF passed, Accepted
<1> QED BY <1>2, <1>3, <1>4, <1>5, <1>6

\* The connection is lost.
LEMMA BreaksDoes ==
  ASSUME NEW p \in Logins, LoginShapes, Breaks(p)
  PROVE /\ step' = [step EXCEPT ![p] = step'[p]] /\ step'[p] = "failed"
        /\ left' = left /\ left' = [left EXCEPT ![p] = left'[p]]
        /\ blame' = [blame EXCEPT ![p] = blame'[p]] /\ blame'[p] \in BOOLEAN
<1>1. Blame(p, TRUE) BY DEF Breaks
<1>2. step' = [step EXCEPT ![p] = "failed"] /\ left' = left BY DEF Breaks, Goto
<1> QED BY <1>1, <1>2, BlameDoes DEF LoginShapes

\* A prompt is counted.
LEMMA AskDoes ==
  ASSUME NEW p \in Logins, LoginShapes, NEW m \in Methods, Ask(p, m)
  PROVE /\ asked' = [asked EXCEPT ![p] = asked'[p]] /\ asked'[p] = [n \in Methods |-> asked'[p][n]]
        /\ asked'[p][m] = asked[p][m] + 1 /\ \A n \in Methods \ {m} : asked'[p][n] = asked[p][n]
<1>1. asked'[p] = [asked[p] EXCEPT ![m] = @ + 1] BY DEF Ask, LoginShapes
<1>2. asked[p] = [n \in Methods |-> asked[p][n]] BY DEF LoginShapes
<1>3. asked' = [asked EXCEPT ![p] = asked'[p]] BY <1>1 DEF Ask, LoginShapes
<1> QED BY <1>1, <1>2, <1>3

\* No method is tried first, to learn those there are.
LEMMA NoneLogin == ASSUME NEW p \in Logins, LoginInd, None(p) PROVE LoginInd'
<1>1. LoginTyped(p) /\ Trusts(p) /\ Prompts(p) /\ LoginShapes BY DEF LoginInd, Entry
<1>2. /\ step[p] = "none" /\ UNCHANGED <<status, plan, known, agreed, key, identity, global, asked, left>>
      /\ attempt' = [attempt EXCEPT ![p] = 1]
      /\ \/ /\ \E n \in {"in", "refresh", "auto", "passphrase", "import"} :
                 Goto(p, n) /\ (n = "in" => <<>> \in left[p])
            /\ methods' = [methods EXCEPT ![p] = Offered(p)] /\ blame' = blame
         \/ Breaks(p) /\ methods' = methods
  <2>1. step[p] = "none" /\ attempt' = [attempt EXCEPT ![p] = 1]
        /\ UNCHANGED <<status, plan, known, agreed, key, identity, global, asked, left>>
    BY DEF None, Breaks, hostKeys, given
  <2>2. CASE Breaks(p) /\ methods' = methods BY <2>1, <2>2
  <2>3. CASE ~(Breaks(p) /\ methods' = methods) BY <2>1, <2>3 DEF None
  <2> QED BY <2>2, <2>3
<1>3. /\ step'[p] \in {"in", "refresh", "auto", "passphrase", "import", "failed"}
      /\ step'[p] = "in" => <<>> \in left[p]
      /\ step' = [step EXCEPT ![p] = step'[p]]
  BY <1>1, <1>2, BreaksDoes DEF Goto, LoginShapes
<1>4. blame' = [blame EXCEPT ![p] = blame'[p]] /\ blame'[p] \in BOOLEAN
  BY <1>1, <1>2, BreaksDoes, SameEntry DEF LoginTyped
<1>5. Offered(p) \subseteq Methods
  <2>1. ASSUME NEW s \in left[p] \ {<<>>} PROVE Head(s) \in Methods
    <3>1. s \in Seq(Methods) /\ s # <<>> BY <1>1, <2>1 DEF LoginTyped
    <3> QED BY <3>1
  <2> QED BY <2>1 DEF Offered
<1>6. methods' = [methods EXCEPT ![p] = methods'[p]] /\ methods'[p] \subseteq Methods
  BY <1>1, <1>2, <1>5, SameEntry DEF LoginTyped, LoginShapes
<1>7. attempt'[p] = 1 /\ attempt' = [attempt EXCEPT ![p] = attempt'[p]] BY <1>1, <1>2 DEF LoginShapes
<1>8. Authenticates(p) BY <1>1, <1>2, <1>3, <1>4, <1>6, <1>7, SameEntry DEF Authenticates
<1>9. Prompts(p)' BY <1>1, <1>2, <1>3, <1>7 DEF Prompts, BeforeKeys, BeforePassword, HostPhases
<1> QED
  BY <1>1, <1>2, <1>3, <1>4, <1>6, <1>7, <1>8, <1>9, AuthenticatesStep DEF LoginTyped, Phases, HostPhases

\* The passphrase is asked for up to three times.
LEMMA PassphraseLogin == ASSUME NEW p \in Logins, LoginInd, Passphrase(p) PROVE LoginInd'
<1>1. LoginTyped(p) /\ Trusts(p) /\ Prompts(p) /\ LoginShapes BY DEF LoginInd, Entry
<1>2. /\ step[p] = "passphrase" /\ Ask(p, "publickey") /\ attempt' = [attempt EXCEPT ![p] = @ + 1]
      /\ UNCHANGED <<status, plan, known, agreed, key, identity, global, left, methods>>
  BY DEF Passphrase, hostKeys, given
<1>3. PICK n \in {"import", "auto", "passphrase"}, cause \in BOOLEAN :
        Goto(p, n) /\ Blame(p, cause) /\ (n = "passphrase" => attempt[p] < 3)
  <2>1. PICK response \in {"right", "wrong", "refuse"} :
          /\ Blame(p, response # "right")
          /\ Goto(p, CASE response = "right" -> "import" [] response = "refuse" -> "auto"
                       [] OTHER -> Again(p, "passphrase", "auto"))
    BY DEF Passphrase
  <2> QED BY <2>1 DEF Again, MaximumAttempts
<1>4. step'[p] = n /\ step' = [step EXCEPT ![p] = step'[p]] BY <1>1, <1>3 DEF Goto, LoginShapes
<1>5. blame' = [blame EXCEPT ![p] = blame'[p]] /\ blame'[p] \in BOOLEAN BY <1>1, <1>3, BlameDoes
<1>6. attempt[p] \in 1..3 /\ attempt'[p] = attempt[p] + 1 /\ attempt' = [attempt EXCEPT ![p] = attempt'[p]]
  BY <1>1, <1>2 DEF LoginShapes, LoginTyped, Prompts
<1>7. /\ asked' = [asked EXCEPT ![p] = asked'[p]] /\ asked'[p] = [m \in Methods |-> asked'[p][m]]
      /\ asked'[p]["publickey"] = asked[p]["publickey"] + 1
      /\ asked'[p]["password"] = asked[p]["password"] /\ asked'[p]["interactive"] = asked[p]["interactive"]
  BY <1>1, <1>2, AskDoes DEF Methods
<1>8. Authenticates(p) BY <1>1, <1>2, <1>4, <1>5, <1>6, <1>7, SameEntry DEF Authenticates
<1>9. Prompts(p)' BY <1>1, <1>2, <1>3, <1>4, <1>6, <1>7 DEF Prompts, BeforeKeys, BeforePassword, HostPhases
<1> QED
  BY <1>1, <1>2, <1>3, <1>4, <1>5, <1>6, <1>8, <1>9, AuthenticatesStep DEF LoginTyped, Phases, HostPhases

\* The identity file is tried.
LEMMA ImportLogin == ASSUME NEW p \in Logins, LoginInd, Import(p) PROVE LoginInd'
<1>1. LoginTyped(p) /\ Trusts(p) /\ Prompts(p) /\ LoginShapes BY DEF LoginInd, Entry
<1>2. /\ step[p] = "import"
      /\ UNCHANGED <<status, plan, known, agreed, key, identity, global, asked, methods, attempt>>
      /\ (\E right \in BOOLEAN : Try(p, "publickey", right, "auto")) \/ Breaks(p)
  BY DEF Import, hostKeys, given
<1>3. /\ step' = [step EXCEPT ![p] = step'[p]] /\ left' = [left EXCEPT ![p] = left'[p]]
      /\ blame' = [blame EXCEPT ![p] = blame'[p]] /\ blame'[p] \in BOOLEAN /\ left'[p] \subseteq Seq(Methods)
      /\ step'[p] \in {"auto", "failed"} \/ (step'[p] = "in" /\ <<>> \in left'[p])
  <2>1. CASE \E right \in BOOLEAN : Try(p, "publickey", right, "auto")
    <3>1. Tries(p, "publickey", "auto") BY <2>1 DEF Tries
    <3>2. left[p] \subseteq Seq(Methods) BY <1>1 DEF LoginTyped
    <3> QED BY <1>1, <3>1, <3>2, TryDoes
  <2>2. CASE Breaks(p) BY <1>1, <2>2, BreaksDoes DEF LoginTyped
  <2> QED BY <1>2, <2>1, <2>2
<1>8. Authenticates(p) BY <1>1, <1>2, <1>3, SameEntry DEF Authenticates
<1>9. Prompts(p)' BY <1>1, <1>2, <1>3 DEF Prompts, BeforeKeys, BeforePassword, HostPhases
<1> QED BY <1>1, <1>2, <1>3, <1>8, <1>9, AuthenticatesStep DEF LoginTyped, Phases, HostPhases

\* The agent and the default identities are tried.
LEMMA AutomaticLogin == ASSUME NEW p \in Logins, LoginInd, Automatic(p) PROVE LoginInd'
<1>1. LoginTyped(p) /\ Trusts(p) /\ Prompts(p) /\ LoginShapes BY DEF LoginInd, Entry
<1>2. /\ step[p] = "auto"
      /\ UNCHANGED <<status, plan, known, agreed, key, identity, global, asked, methods, attempt>>
      /\ \E right \in BOOLEAN : Try(p, "publickey", right, "refresh")
  BY DEF Automatic, hostKeys, given
<1>3. /\ step' = [step EXCEPT ![p] = step'[p]] /\ left' = [left EXCEPT ![p] = left'[p]]
      /\ blame' = [blame EXCEPT ![p] = blame'[p]] /\ blame'[p] \in BOOLEAN /\ left'[p] \subseteq Seq(Methods)
      /\ step'[p] = "refresh" \/ (step'[p] = "in" /\ <<>> \in left'[p])
  <2>1. Tries(p, "publickey", "refresh") BY <1>2 DEF Tries
  <2>2. left[p] \subseteq Seq(Methods) BY <1>1 DEF LoginTyped
  <2> QED BY <1>1, <2>1, <2>2, TryDoes
<1>8. Authenticates(p) BY <1>1, <1>2, <1>3, SameEntry DEF Authenticates
<1>9. Prompts(p)' BY <1>1, <1>2, <1>3 DEF Prompts, BeforeKeys, BeforePassword, HostPhases
<1> QED BY <1>1, <1>2, <1>3, <1>8, <1>9, AuthenticatesStep DEF LoginTyped, Phases, HostPhases

\* The methods are listed anew.
LEMMA RefreshLogin == ASSUME NEW p \in Logins, LoginInd, Refresh(p) PROVE LoginInd'
<1>1. LoginTyped(p) /\ Trusts(p) /\ Prompts(p) /\ LoginShapes BY DEF LoginInd, Entry
<1>2. /\ step[p] = "refresh" /\ attempt' = [attempt EXCEPT ![p] = 1]
      /\ methods' = [methods EXCEPT ![p] = Offered(p)] /\ Goto(p, Ladder(p, Offered(p)))
      /\ UNCHANGED <<status, plan, known, agreed, key, identity, global, asked, left, blame>>
  BY DEF Refresh, Listed, hostKeys, given
<1>3. step'[p] \in {"password", "interactive", "failed"} /\ step' = [step EXCEPT ![p] = step'[p]]
  BY <1>1, <1>2 DEF Goto, Ladder, LoginShapes
<1>5. Offered(p) \subseteq Methods
  <2>1. ASSUME NEW s \in left[p] \ {<<>>} PROVE Head(s) \in Methods
    <3>1. s \in Seq(Methods) /\ s # <<>> BY <1>1, <2>1 DEF LoginTyped
    <3> QED BY <3>1
  <2> QED BY <2>1 DEF Offered
<1>6. methods' = [methods EXCEPT ![p] = methods'[p]] /\ methods'[p] \subseteq Methods
  BY <1>1, <1>2, <1>5 DEF LoginShapes
<1>7. attempt'[p] = 1 /\ attempt' = [attempt EXCEPT ![p] = attempt'[p]] BY <1>1, <1>2 DEF LoginShapes
<1>8. Authenticates(p) BY <1>1, <1>2, <1>3, <1>6, <1>7, SameEntry DEF Authenticates
<1>9. Prompts(p)' BY <1>1, <1>2, <1>3, <1>7 DEF Prompts, BeforeKeys, BeforePassword, HostPhases
<1> QED BY <1>1, <1>2, <1>3, <1>6, <1>7, <1>8, <1>9, AuthenticatesStep DEF LoginTyped, Phases, HostPhases

\* A password is asked for and tried.
LEMMA PasswordLogin == ASSUME NEW p \in Logins, LoginInd, Password(p) PROVE LoginInd'
<1>1. LoginTyped(p) /\ Trusts(p) /\ Prompts(p) /\ LoginShapes BY DEF LoginInd, Entry
<1> DEFINE next == Again(p, "password", AfterPassword(p))
<1>2. /\ step[p] = "password" /\ Ask(p, "password")
      /\ attempt' = [attempt EXCEPT ![p] = IF step'[p] = "password" THEN @ + 1 ELSE 1]
      /\ UNCHANGED <<status, plan, known, agreed, key, identity, global, methods>>
      /\ \/ \E right \in BOOLEAN : Try(p, "password", right, next)
         \/ Breaks(p)
         \/ Goto(p, AfterPassword(p)) /\ Blame(p, TRUE) /\ left' = left
  BY DEF Password, hostKeys, given
<1>3. AfterPassword(p) \in {"interactive", "failed"} BY DEF AfterPassword, Ladder
<1>4. next \in {"password", "interactive", "failed"} /\ (next = "password" => attempt[p] < 3)
  BY <1>3 DEF Again, MaximumAttempts
<1> HIDE DEF next
<1>5. /\ step' = [step EXCEPT ![p] = step'[p]] /\ left' = [left EXCEPT ![p] = left'[p]]
      /\ blame' = [blame EXCEPT ![p] = blame'[p]] /\ blame'[p] \in BOOLEAN /\ left'[p] \subseteq Seq(Methods)
      /\ \/ step'[p] \in {"interactive", "failed"}
         \/ step'[p] = "password" /\ attempt[p] < 3
         \/ step'[p] = "in" /\ <<>> \in left'[p]
  <2>1. CASE \E right \in BOOLEAN : Try(p, "password", right, next)
    <3>1. Tries(p, "password", next) BY <2>1 DEF Tries
    <3>2. left[p] \subseteq Seq(Methods) BY <1>1 DEF LoginTyped
    <3> QED BY <1>1, <1>4, <3>1, <3>2, TryDoes
  <2>2. CASE Breaks(p) BY <1>1, <2>2, BreaksDoes DEF LoginTyped
  <2>3. CASE Goto(p, AfterPassword(p)) /\ Blame(p, TRUE) /\ left' = left
    <3>1. step' = [step EXCEPT ![p] = step'[p]] /\ step'[p] = AfterPassword(p)
      BY <1>1, <2>3 DEF Goto, LoginShapes
    <3> QED BY <1>1, <1>3, <2>3, <3>1, BlameDoes, SameEntry DEF LoginTyped
  <2> QED BY <1>2, <2>1, <2>2, <2>3
<1>6. attempt' = [attempt EXCEPT ![p] = attempt'[p]] /\ attempt[p] \in 1..3
      /\ attempt'[p] = IF step'[p] = "password" THEN attempt[p] + 1 ELSE 1
  BY <1>1, <1>2 DEF LoginShapes, LoginTyped, Prompts
<1>7. /\ asked' = [asked EXCEPT ![p] = asked'[p]] /\ asked'[p] = [m \in Methods |-> asked'[p][m]]
      /\ asked'[p]["password"] = asked[p]["password"] + 1
      /\ asked'[p]["publickey"] = asked[p]["publickey"] /\ asked'[p]["interactive"] = asked[p]["interactive"]
  BY <1>1, <1>2, AskDoes DEF Methods
<1>8. Authenticates(p) BY <1>1, <1>2, <1>5, <1>6, <1>7, SameEntry DEF Authenticates
<1>9. Prompts(p)' BY <1>1, <1>2, <1>5, <1>6, <1>7 DEF Prompts, BeforeKeys, BeforePassword, HostPhases
<1>10. attempt'[p] \in 1..4 BY <1>6
<1> QED
  BY <1>1, <1>2, <1>5, <1>8, <1>9, <1>10, AuthenticatesStep DEF LoginTyped, Phases, HostPhases

\* A round of questions begins, or there is none.
LEMMA InteractiveLogin == ASSUME NEW p \in Logins, LoginInd, Interactive(p) PROVE LoginInd'
<1>1. LoginTyped(p) /\ Trusts(p) /\ Prompts(p) /\ LoginShapes BY DEF LoginInd, Entry
<1>2. /\ step[p] = "interactive"
      /\ UNCHANGED <<status, plan, known, agreed, key, identity, global, asked, methods>>
      /\ \/ Goto(p, "answer") /\ UNCHANGED <<blame, left, attempt>>
         \/ /\ Goto(p, Again(p, "interactive", "failed"))
            /\ attempt' = [attempt EXCEPT ![p] = @ + 1] /\ UNCHANGED <<blame, left>>
         \/ Breaks(p) /\ UNCHANGED attempt
  BY DEF Interactive, hostKeys, given
<1>3. /\ step' = [step EXCEPT ![p] = step'[p]] /\ left' = left
      /\ blame' = [blame EXCEPT ![p] = blame'[p]] /\ blame'[p] \in BOOLEAN
      /\ attempt' = [attempt EXCEPT ![p] = attempt'[p]]
      /\ \/ step'[p] \in {"answer", "failed"} /\ attempt'[p] = attempt[p]
         \/ step'[p] = "failed" /\ attempt'[p] = attempt[p] + 1
         \/ step'[p] = "interactive" /\ attempt[p] < 3 /\ attempt'[p] = attempt[p] + 1
  <2>1. CASE Goto(p, "answer") /\ UNCHANGED <<blame, left, attempt>>
    BY <1>1, <2>1, SameEntry DEF Goto, LoginShapes, LoginTyped
  <2>2. CASE /\ Goto(p, Again(p, "interactive", "failed"))
             /\ attempt' = [attempt EXCEPT ![p] = @ + 1] /\ UNCHANGED <<blame, left>>
    <3>1. step'[p] = Again(p, "interactive", "failed") /\ step' = [step EXCEPT ![p] = step'[p]]
      BY <1>1, <2>2 DEF Goto, LoginShapes
    <3>2. attempt'[p] = attempt[p] + 1 /\ attempt' = [attempt EXCEPT ![p] = attempt'[p]]
      BY <1>1, <2>2 DEF LoginShapes
    <3>3. blame' = [blame EXCEPT ![p] = blame'[p]] /\ blame'[p] \in BOOLEAN
      BY <1>1, <2>2, SameEntry DEF LoginTyped
    <3> QED BY <2>2, <3>1, <3>2, <3>3 DEF Again, MaximumAttempts
  <2>3. CASE Breaks(p) /\ UNCHANGED attempt BY <1>1, <2>3, BreaksDoes, SameEntry
  <2> QED BY <1>2, <2>1, <2>2, <2>3
<1>4. attempt[p] \in 1..3 /\ attempt'[p] \in 1..4 BY <1>1, <1>2, <1>3 DEF LoginTyped, Prompts
<1>8. Authenticates(p) BY <1>1, <1>2, <1>3, SameEntry DEF Authenticates
<1>9. Prompts(p)' BY <1>1, <1>2, <1>3, <1>4 DEF Prompts, BeforeKeys, BeforePassword, HostPhases
<1> QED
  BY <1>1, <1>2, <1>3, <1>4, <1>8, <1>9, AuthenticatesStep DEF LoginTyped, Phases, HostPhases

\* It is answered.
LEMMA AnswerLogin == ASSUME NEW p \in Logins, LoginInd, Answer(p) PROVE LoginInd'
<1>1. LoginTyped(p) /\ Trusts(p) /\ Prompts(p) /\ LoginShapes BY DEF LoginInd, Entry
<1> DEFINE next == Again(p, "interactive", "failed")
<1>2. /\ step[p] = "answer" /\ Ask(p, "interactive") /\ attempt' = [attempt EXCEPT ![p] = @ + 1]
      /\ UNCHANGED <<status, plan, known, agreed, key, identity, global, methods>>
      /\ (\E right \in BOOLEAN : Try(p, "interactive", right, next)) \/ Breaks(p)
  BY DEF Answer, hostKeys, given
<1>4. next \in {"interactive", "failed"} /\ (next = "interactive" => attempt[p] < 3)
  BY DEF Again, MaximumAttempts
<1> HIDE DEF next
<1>5. /\ step' = [step EXCEPT ![p] = step'[p]] /\ left' = [left EXCEPT ![p] = left'[p]]
      /\ blame' = [blame EXCEPT ![p] = blame'[p]] /\ blame'[p] \in BOOLEAN /\ left'[p] \subseteq Seq(Methods)
      /\ \/ step'[p] = "failed"
         \/ step'[p] = "interactive" /\ attempt[p] < 3
         \/ step'[p] = "in" /\ <<>> \in left'[p]
  <2>1. CASE \E right \in BOOLEAN : Try(p, "interactive", right, next)
    <3>1. Tries(p, "interactive", next) BY <2>1 DEF Tries
    <3>2. left[p] \subseteq Seq(Methods) BY <1>1 DEF LoginTyped
    <3> QED BY <1>1, <1>4, <3>1, <3>2, TryDoes
  <2>2. CASE Breaks(p) BY <1>1, <2>2, BreaksDoes DEF LoginTyped
  <2> QED BY <1>2, <2>1, <2>2
<1>6. attempt[p] \in 1..3 /\ attempt'[p] = attempt[p] + 1 /\ attempt' = [attempt EXCEPT ![p] = attempt'[p]]
  BY <1>1, <1>2 DEF LoginShapes, LoginTyped, Prompts
<1>7. /\ asked' = [asked EXCEPT ![p] = asked'[p]] /\ asked'[p] = [m \in Methods |-> asked'[p][m]]
      /\ asked'[p]["interactive"] = asked[p]["interactive"] + 1
      /\ asked'[p]["publickey"] = asked[p]["publickey"] /\ asked'[p]["password"] = asked[p]["password"]
  BY <1>1, <1>2, AskDoes DEF Methods
<1>8. Authenticates(p) BY <1>1, <1>2, <1>5, <1>6, <1>7, SameEntry DEF Authenticates
<1>9. Prompts(p)' BY <1>1, <1>2, <1>5, <1>6, <1>7 DEF Prompts, BeforeKeys, BeforePassword, HostPhases
<1>10. attempt'[p] \in 1..4 BY <1>6
<1> QED
  BY <1>1, <1>2, <1>5, <1>8, <1>9, <1>10, AuthenticatesStep DEF LoginTyped, Phases, HostPhases

-----------------------------------------------------------------------------
(* The theorem.                                                                *)

\* Every step keeps the invariant.
LEMMA LoginNextInd == LoginInd /\ [LoginNext]_login => LoginInd'
<1> SUFFICES ASSUME LoginInd, [LoginNext]_login PROVE LoginInd' OBVIOUS
<1>1. CASE UNCHANGED login
  <2> USE <1>1 DEF login
  <2>1. LoginShapes' /\ Files' BY DEF LoginInd, LoginShapes, Files
  <2>2. ASSUME NEW p \in Logins PROVE Entry(p)'
    <3>1. LoginTyped(p) /\ Trusts(p) /\ Prompts(p) BY DEF LoginInd, Entry
    <3>2. LoginTyped(p)' /\ Trusts(p)' BY <3>1 DEF LoginTyped, Trusts, Changed
    <3>3. Prompts(p)' BY <3>1 DEF Prompts
    <3> QED BY <3>2, <3>3 DEF Entry
  <2> QED BY <2>1, <2>2 DEF LoginInd
<1>2. ASSUME NEW p \in Logins,
             Name(p) \/ Verify(p) \/ PlanUser(p) \/ PlanGlobal(p) \/ AnswerHostKey(p) \/ Remove(p) \/ Save(p)
      PROVE LoginInd'
  BY <1>2, NameLogin, VerifyLogin, PlanLogin, AnswerHostKeyLogin, RemoveLogin, SaveLogin
<1>3. ASSUME NEW p \in Logins,
             None(p) \/ Passphrase(p) \/ Import(p) \/ Automatic(p) \/ Refresh(p) \/ Password(p) \/ Interactive(p) \/ Answer(p)
      PROVE LoginInd'
  BY <1>3, NoneLogin, PassphraseLogin, ImportLogin, AutomaticLogin, RefreshLogin, PasswordLogin, InteractiveLogin, AnswerLogin
<1> QED BY <1>1, <1>2, <1>3 DEF LoginNext

\* Only its own step takes a login out of "save", and that is Save.
LEMMA OnlySaves ==
  ASSUME LoginInd, LoginNext, NEW p \in Logins, step[p] = "save", step'[p] = "none" PROVE Save(p)
<1>1. LoginShapes BY DEF LoginInd
<1>2. PICK q \in Logins :
        \/ Name(q) \/ Verify(q) \/ PlanUser(q) \/ PlanGlobal(q) \/ AnswerHostKey(q) \/ Remove(q) \/ Save(q)
        \/ None(q) \/ Passphrase(q) \/ Import(q) \/ Automatic(q) \/ Refresh(q)
        \/ Password(q) \/ Interactive(q) \/ Answer(q)
  BY DEF LoginNext
<1>3. \E next : step' = [step EXCEPT ![q] = next]
  BY <1>2 DEF Name, Verify, PlanUser, PlanGlobal, AnswerHostKey, Remove, Save, None, Passphrase, Import,
              Automatic, Refresh, Password, Interactive, Answer, Try, Breaks, Goto
<1>4. q = p BY <1>1, <1>3 DEF LoginShapes
<1> QED
  BY <1>2, <1>4 DEF Name, Verify, PlanUser, PlanGlobal, AnswerHostKey, Remove, None, Passphrase, Import,
              Automatic, Refresh, Password, Interactive, Answer

\* A key is saved only beside keys that were agreed to.
LEMMA SaveStep ==
  LoginInd /\ [LoginNext]_login => [SavesAlone]_login
<1> SUFFICES ASSUME LoginInd, LoginNext, NEW p \in Logins, step[p] = "save", step'[p] = "none"
             PROVE key[p] \in known' /\ known' \subseteq agreed'
  BY DEF SavesAlone
<1>1. Save(p) BY OnlySaves
<1>2. Trusts(p) /\ LoginShapes BY DEF LoginInd, Entry
<1> QED BY <1>1, <1>2 DEF Save, Goto, Trusts, LoginShapes

\* The host is trusted before any secret is sent, a login gets in only with every factor of a
\* policy, and a key that is saved stands beside nothing that nobody agreed to
\* (ssh-channel-connection.cpp:776-853, 1040-1109, 1573-1602).
THEOREM HostTrusted == LoginSpec => LoginTrue
<1>1. LoginInit => LoginInd BY LoginInitInd
<1>2. LoginInd /\ [LoginNext]_login => LoginInd' BY LoginNextInd
<1>3. LoginInd => LoginTypeOK /\ TrustFirst /\ InComplete BY LoginIndSound
<1>4. LoginInd /\ [LoginNext]_login => [SavesAlone]_login BY SaveStep
<1> QED BY <1>1, <1>2, <1>3, <1>4, PTL DEF LoginSpec, LoginTrue, SavedAlone

=============================================================================
