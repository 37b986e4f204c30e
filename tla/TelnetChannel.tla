---------------------------- MODULE TelnetChannel ----------------------------
(***************************************************************************)
(* The TELNET channel (terminal-telnet-transport.cpp) and the negotiation of  *)
(* its protocol (telnet-protocol.cpp), against a peer that follows RFC 1143.   *)
(*                                                                         *)
(* The reader answers what it received while the writer, the resizer and a     *)
(* BREAK use the same wire; each takes the lock of the wire for one message.    *)
(* cardio's mutex is external: it serves its waiters in order, and hands the    *)
(* lock to the next one before the continuation of the last owner runs.        *)
(***************************************************************************)
EXTENDS Naturals, Sequences, SequencesExt

CONSTANTS LocalOptions,   \* options of our side that the peer asks for
          RemoteOptions,  \* options of its side that the peer offers
          Sizes,          \* window sizes; the first one is Default
          Default,
          Batch,          \* messages that one read may return
          MaxAsks, MaxSends, MaxResizes, MaxTotal   \* bounds, and one on their sum

TelnetConstants ==
  /\ "binary" \in LocalOptions \cap RemoteOptions /\ "naws" \in LocalOptions
  /\ Default \in Sizes /\ Batch \in Nat \ {0}
  /\ MaxAsks \in Nat /\ MaxSends \in Nat /\ MaxResizes \in Nat /\ MaxTotal \in Nat

VARIABLES
  local, remote,   \* options enabled on our side and on the peer's
  requested,       \* local_binary_requested, remote_binary_requested
  size,            \* columns and rows
  replies,         \* responses that the reader has still to write
  queue,           \* who waits for the wire, its owner first
  toPeer, toUs,    \* the two directions of the connection
  peerLocal, peerRemote, peerSize,   \* what the peer believes
  garbled,         \* the peer reads the rest of a torn message
  lossy,           \* whether reads are interrupted while the channel stays open
  asks, sends, resizes

protocol == <<local, remote, requested, size>>
wires == <<toPeer, toUs>>
peer == <<peerLocal, peerRemote, peerSize, garbled>>
bounds == <<asks, sends, resizes>>
vars == <<protocol, replies, queue, wires, peer, lossy, bounds>>

Msg(kind, what) == [kind |-> kind, what |-> what]
Negotiations == [kind : {"DO", "DONT"}, what : LocalOptions]
                  \cup [kind : {"WILL", "WONT"}, what : RemoteOptions]
Answers == [kind : {"WILL", "WONT"}, what : LocalOptions]
             \cup [kind : {"DO", "DONT"}, what : RemoteOptions] \cup [kind : {"SIZE"}, what : Sizes]
Messages == Answers \cup [kind : {"data"}, what : {"binary", "nvt"}]
              \cup {Msg("BREAK", "-"), Msg("torn", "-")}
Actors == {"reader", "writer", "resizer", "breaker"}
Beliefs == {"no", "yes", "wantyes", "wantno"}

Waits(a) == \E i \in DOMAIN queue : queue[i].who = a

TypeOK ==
  /\ local \in [{"binary", "naws"} -> BOOLEAN] /\ remote \in [{"binary"} -> BOOLEAN]
  /\ requested \in [{"local", "remote"} -> BOOLEAN] /\ size \in Sizes
  /\ replies \in Seq(Answers)
  /\ queue \in Seq([who : Actors, msg : Messages]) 
  /\ \A i, j \in DOMAIN queue : queue[i].who = queue[j].who => i = j
  /\ toPeer \in Seq(Messages) /\ toUs \in Seq(Negotiations)
  /\ peerLocal \in [LocalOptions -> Beliefs] /\ peerRemote \in [RemoteOptions -> Beliefs]
  /\ peerSize \in Sizes /\ garbled \in BOOLEAN
  /\ asks \in 0..MaxAsks /\ sends \in 0..MaxSends /\ resizes \in 0..MaxResizes

\* open_telnet has asked for BINARY in both directions; no option is enabled yet.
Init ==
  /\ local = [o \in {"binary", "naws"} |-> FALSE] /\ remote = [o \in {"binary"} |-> FALSE]
  /\ requested = [d \in {"local", "remote"} |-> TRUE] /\ size = Default
  /\ replies = <<>> /\ queue = <<>>
  /\ toPeer = <<Msg("WILL", "binary"), Msg("DO", "binary")>> /\ toUs = <<>>
  /\ peerLocal = [o \in LocalOptions |-> "no"] /\ peerRemote = [o \in RemoteOptions |-> "no"]
  /\ peerSize = Default /\ garbled = FALSE /\ lossy \in BOOLEAN
  /\ asks = 0 /\ sends = 0 /\ resizes = 0

-----------------------------------------------------------------------------
(* handle_negotiation: from a state of the protocol and the responses so far.  *)

Answer(s, kind, what) == [s EXCEPT !.out = Append(@, Msg(kind, what))]
AnswerIf(p, s, kind, what) == IF p THEN Answer(s, kind, what) ELSE s

Enables(s, d) == TRUE

Do(s, o) ==
  CASE o = "binary" ->
         [AnswerIf(~s.local["binary"] /\ ~s.requested["local"], s, "WILL", o)
            EXCEPT !.local["binary"] = Enables(s, "local"), !.requested["local"] = FALSE]
    [] o = "naws" ->
         [Answer(AnswerIf(~s.local["naws"], s, "WILL", o), "SIZE", size)
            EXCEPT !.local["naws"] = TRUE]
    [] OTHER -> Answer(s, "WONT", o)

\* Fault: NAWS stays enabled.
DisablesBinary(s, o) == IF o = "binary" THEN [s.local EXCEPT !["binary"] = FALSE] ELSE s.local
Disables(s, o) == [p \in DOMAIN s.local |-> p # o /\ s.local[p]]

Dont(s, o) ==
  LET t == [s EXCEPT !.local = Disables(s, o)] IN
  Answer(IF o = "binary" THEN [t EXCEPT !.requested["local"] = FALSE] ELSE t, "WONT", o)

Will(s, o) ==
  CASE o = "binary" ->
         [AnswerIf(~s.remote["binary"] /\ ~s.requested["remote"], s, "DO", o)
            EXCEPT !.remote["binary"] = Enables(s, "remote"), !.requested["remote"] = FALSE]
    [] o = "echo" -> Answer(s, "DO", o)
    [] OTHER -> Answer(s, "DONT", o)

Wont(s, o) ==
  LET t == IF o = "binary" THEN [s EXCEPT !.remote["binary"] = FALSE,
                                          !.requested["remote"] = FALSE] ELSE s
  IN Answer(t, "DONT", o)

Negotiate(s, m) ==
  CASE m.kind = "DO" -> Do(s, m.what)     [] m.kind = "DONT" -> Dont(s, m.what)
    [] m.kind = "WILL" -> Will(s, m.what) [] m.kind = "WONT" -> Wont(s, m.what)

-----------------------------------------------------------------------------
(* write_wire                                                               *)

Enqueue(q, who, msg) == Append(q, [who |-> who, msg |-> msg])

\* The owner of the wire sends its message, in as many parts as the socket takes.
Send ==
  /\ queue # <<>>
  /\ toPeer' = Append(toPeer, Head(queue).msg) /\ queue' = Tail(queue)
  /\ replies' = IF Head(queue).who = "reader" THEN Tail(replies) ELSE replies
  /\ UNCHANGED <<protocol, toUs, peer, bounds>>

-----------------------------------------------------------------------------
(* read_telnet                                                              *)

AllAnswered == replies = <<>>

\* What one read returned is handled at once; the first response asks for the wire.
Read(n) ==
  /\ AllAnswered /\ n \in 1..Len(toUs)
  /\ LET s == FoldLeft(Negotiate,
                [local |-> local, remote |-> remote, requested |-> requested, out |-> <<>>],
                SubSeq(toUs, 1, n)) IN
       /\ local' = s.local /\ remote' = s.remote /\ requested' = s.requested
       /\ replies' = s.out
       /\ queue' = IF s.out = <<>> THEN queue ELSE Enqueue(queue, "reader", Head(s.out))
  /\ toUs' = SubSeq(toUs, n + 1, Len(toUs))
  /\ UNCHANGED <<size, toPeer, peer, bounds>>

\* The reader continues with the next response when the last one is written.
NextReply ==
  /\ replies # <<>> /\ ~Waits("reader")
  /\ queue' = Enqueue(queue, "reader", Head(replies))
  /\ UNCHANGED <<protocol, replies, wires, peer, bounds>>

\* read_interrupt of the connection: an exchange of the encoding, a transfer or a
\* change of policy cancels the read, and with it the responses.  The response
\* that owns the wire may have been sent in part.
Interrupt ==
  /\ lossy /\ replies # <<>> /\ replies' = <<>>
  /\ queue' = SelectSeq(queue, LAMBDA w : w.who # "reader")
  /\ \/ UNCHANGED toPeer
     \/ /\ queue # <<>> /\ Head(queue).who = "reader"
        /\ toPeer' = Append(toPeer, Msg("torn", "-"))
  /\ UNCHANGED <<protocol, toUs, peer, bounds>>

-----------------------------------------------------------------------------
(* The other users of the wire: each waits for its message before it sends again. *)

Write ==
  /\ ~Waits("writer") /\ sends < MaxSends /\ sends' = sends + 1
  /\ queue' = Enqueue(queue, "writer", Msg("data", IF local["binary"] THEN "binary" ELSE "nvt"))
  /\ UNCHANGED <<protocol, replies, wires, peer, asks, resizes>>

SendBreak ==
  /\ ~Waits("breaker") /\ sends < MaxSends /\ sends' = sends + 1
  /\ queue' = Enqueue(queue, "breaker", Msg("BREAK", "-"))
  /\ UNCHANGED <<protocol, replies, wires, peer, asks, resizes>>

Resize(s) ==
  /\ ~Waits("resizer") /\ resizes < MaxResizes /\ resizes' = resizes + 1 /\ size' = s
  /\ queue' = IF local["naws"] THEN Enqueue(queue, "resizer", Msg("SIZE", s)) ELSE queue
  /\ UNCHANGED <<local, remote, requested, replies, wires, peer, asks, sends>>

-----------------------------------------------------------------------------
(* The peer (RFC 854, 856, 1073, 1143).                                       *)

Say(kind, what) == toUs' = Append(toUs, Msg(kind, what))

PeerAsksLocal(o) ==
  /\ asks < MaxAsks /\ asks' = asks + 1
  /\ \/ /\ peerLocal[o] = "no" /\ Say("DO", o)
        /\ peerLocal' = [peerLocal EXCEPT ![o] = "wantyes"]
     \/ /\ peerLocal[o] = "yes" /\ Say("DONT", o)
        /\ peerLocal' = [peerLocal EXCEPT ![o] = "wantno"]
  /\ UNCHANGED <<protocol, replies, queue, toPeer, peerRemote, peerSize, garbled,
                 sends, resizes>>

PeerOffers(o) ==
  /\ asks < MaxAsks /\ asks' = asks + 1
  /\ \/ /\ peerRemote[o] = "no" /\ Say("WILL", o)
        /\ peerRemote' = [peerRemote EXCEPT ![o] = "wantyes"]
     \/ /\ peerRemote[o] = "yes" /\ Say("WONT", o)
        /\ peerRemote' = [peerRemote EXCEPT ![o] = "wantno"]
  /\ UNCHANGED <<protocol, replies, queue, toPeer, peerLocal, peerSize, garbled,
                 sends, resizes>>

\* A positive or a negative message about an option, and the peer's own two words.
Hears(belief, o, positive, agree, refuse) ==
  \/ /\ positive /\ belief[o] = "no"
     /\ \/ belief' = [belief EXCEPT ![o] = "yes"] /\ Say(agree, o)
        \/ belief' = belief /\ Say(refuse, o)
  \/ /\ positive /\ belief[o] # "no" /\ UNCHANGED toUs
     /\ belief' = [belief EXCEPT ![o] = IF @ = "wantno" THEN "no" ELSE "yes"]
  \/ /\ ~positive /\ belief[o] = "yes" /\ Say(refuse, o)
     /\ belief' = [belief EXCEPT ![o] = "no"]
  \/ /\ ~positive /\ belief[o] # "yes" /\ UNCHANGED toUs
     /\ belief' = [belief EXCEPT ![o] = "no"]

PeerReads ==
  /\ toPeer # <<>> /\ toPeer' = Tail(toPeer)
  /\ LET m == Head(toPeer) IN
       /\ garbled' = (m.kind = "torn")
       /\ \/ /\ garbled \/ m.kind \in {"torn", "data", "BREAK"}
             /\ UNCHANGED <<peerLocal, peerRemote, peerSize, toUs>>
          \/ /\ ~garbled /\ m.kind \in {"WILL", "WONT"} /\ UNCHANGED <<peerRemote, peerSize>>
             /\ Hears(peerLocal, m.what, m.kind = "WILL", "DO", "DONT")
          \/ /\ ~garbled /\ m.kind \in {"DO", "DONT"} /\ UNCHANGED <<peerLocal, peerSize>>
             /\ Hears(peerRemote, m.what, m.kind = "DO", "WILL", "WONT")
          \/ /\ ~garbled /\ m.kind = "SIZE" /\ peerSize' = m.what
             /\ UNCHANGED <<peerLocal, peerRemote, toUs>>
  /\ UNCHANGED <<protocol, replies, queue, bounds>>

-----------------------------------------------------------------------------
Next ==
  /\ lossy' = lossy
  /\ \/ Send \/ \E n \in 1..Batch : Read(n)
     \/ NextReply \/ Interrupt \/ Write \/ SendBreak \/ \E s \in Sizes : Resize(s)
     \/ \E o \in LocalOptions : PeerAsksLocal(o)
     \/ \E o \in RemoteOptions : PeerOffers(o)
     \/ PeerReads
  /\ asks' + sends' + resizes' <= MaxTotal

Spec == Init /\ [][Next]_vars

-----------------------------------------------------------------------------
(* Properties                                                               *)

Quiet == replies = <<>> /\ queue = <<>> /\ toPeer = <<>> /\ toUs = <<>>

\* When nothing is under way both ends agree on every option that the protocol
\* keeps: is_binary_enabled and is_naws_enabled are true exactly "after the
\* negotiation succeeds" (telnet-protocol.h:80-93, telnet-protocol.cpp:101-179),
\* unless a read was interrupted and its responses are lost.
Agreement ==
  Quiet /\ ~lossy =>
    /\ \A o \in DOMAIN local : peerLocal[o] = IF local[o] THEN "yes" ELSE "no"
    /\ \A o \in DOMAIN remote : peerRemote[o] = IF remote[o] THEN "yes" ELSE "no"

\* However often the reader is interrupted: what the peer has settled as enabled is
\* enabled here when nothing is under way, so its data is never taken in a mode that
\* it does not use (telnet-protocol.cpp:101-179, terminal-connection.cpp:865).
NeverOverstated ==
  Quiet =>
    /\ \A o \in DOMAIN local : peerLocal[o] = "yes" => local[o]
    /\ \A o \in DOMAIN remote : peerRemote[o] = "yes" => remote[o]
=============================================================================
