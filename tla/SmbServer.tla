------------------------------ MODULE SmbServer ------------------------------
(***************************************************************************)
(* The client of an SMB server (SmbServerClient of smb-client.cpp): one session for each   *)
(* share that is used and one for the list of shares, opened when they are first wanted,   *)
(* one at a time.  The first session that ends by itself ends them all.                  *)
(*                                                                         *)
(* An operation on a session is one step here: SmbClient says how it runs.  A session      *)
(* that is told to stop ends the operation that is under way on it.                      *)
(***************************************************************************)
EXTENDS Naturals, Sequences

CONSTANTS Callers,
          Shares,   \* the shares, and "IPC$" for the list of them
          MaxLosses \* bound: sessions that fail to open or are lost

ServerConstants == "IPC$" \in Shares /\ "stop" \notin Callers /\ MaxLosses \in Nat

VARIABLES
  lifetime,  \* stopping, lost, and how often the application was told
  queue,     \* the mutex connections_: its owner first
  sessions,  \* of each share: "none", "open", "ended"; kept: in shares_ or enumeration_
  opened,    \* sessions that were opened for each share
  pc,        \* of each caller: "new", "waits", "opens", "uses", "over"
  wants,     \* the share it wants
  using,     \* of each share the caller that has its lock, "nobody" for none
  stop,      \* stop_async: "no", "waits", "stops", "over"
  losses

vars == <<lifetime, queue, sessions, opened, pc, wants, using, stop, losses>>

TypeOK ==
  /\ lifetime \in [stopping : BOOLEAN, lost : BOOLEAN, told : Nat]
  /\ queue \in Seq(Callers \cup {"stop"})
  /\ sessions \in [Shares -> [state : {"none", "open", "ended"}, kept : BOOLEAN]]
  /\ opened \in [Shares -> Nat] /\ wants \in [Callers -> Shares]
  /\ pc \in [Callers -> {"new", "waits", "opens", "uses", "over"}]
  /\ using \in [Shares -> Callers \cup {"nobody"}]
  /\ stop \in {"no", "waits", "stops", "over"} /\ losses \in 0..MaxLosses

Init ==
  /\ lifetime = [stopping |-> FALSE, lost |-> FALSE, told |-> 0] /\ queue = << >>
  /\ sessions = [s \in Shares |-> [state |-> "none", kept |-> FALSE]] /\ opened = [s \in Shares |-> 0]
  /\ pc = [c \in Callers |-> "new"] /\ wants \in [Callers -> Shares]
  /\ using = [s \in Shares |-> "nobody"] /\ stop = "no" /\ losses = 0

\* require_alive
Alive == ~lifetime.lost /\ ~lifetime.stopping
Goes(c, where) == pc' = [pc EXCEPT ![c] = where]
Owns(q) == queue # << >> /\ Head(queue) = q
Unlock == queue' = Tail(queue)

-----------------------------------------------------------------------------
(* share_async and ipc_async.                                                *)

Begins(c) ==
  /\ pc[c] = "new"
  /\ IF Alive THEN Goes(c, "waits") /\ queue' = Append(queue, c) ELSE Goes(c, "over") /\ UNCHANGED queue
  /\ UNCHANGED <<lifetime, sessions, opened, wants, using, stop, losses>>
\* Canceled while it waits, by its caller or by the stop.
Withdraws(c) ==
  /\ pc[c] = "waits" /\ ~Owns(c) /\ queue' = SelectSeq(queue, LAMBDA q : q # c) /\ Goes(c, "over")
  /\ UNCHANGED <<lifetime, sessions, opened, wants, using, stop, losses>>
Found(c) == sessions[wants[c]].kept
Enters(c) ==
  /\ pc[c] = "waits" /\ Owns(c)
  /\ IF ~Alive THEN Goes(c, "over") /\ Unlock
     ELSE IF Found(c) THEN Goes(c, "uses") /\ Unlock ELSE Goes(c, "opens") /\ UNCHANGED queue
  /\ UNCHANGED <<lifetime, sessions, opened, wants, using, stop, losses>>
\* open_session_async: opened, or refused, late or canceled.
Opens(c) ==
  /\ pc[c] = "opens" /\ Unlock
  /\ \/ /\ ~lifetime.stopping /\ Goes(c, "uses")
        /\ sessions' = [sessions EXCEPT ![wants[c]] = [state |-> "open", kept |-> TRUE]]
        /\ opened' = [opened EXCEPT ![wants[c]] = @ + 1] /\ UNCHANGED losses
     \/ lifetime.stopping /\ Goes(c, "over") /\ UNCHANGED <<sessions, opened, losses>>
     \/ /\ losses < MaxLosses /\ losses' = losses + 1 /\ Goes(c, "over") /\ UNCHANGED <<sessions, opened>>
  /\ UNCHANGED <<lifetime, wants, using, stop>>

-----------------------------------------------------------------------------
(* The sessions.                                                            *)

\* The callback of every session, which tells the application of the first loss only.
Lost ==
  lifetime' = IF Alive THEN [lifetime EXCEPT !.lost = TRUE, !.told = @ + 1] ELSE lifetime
Takes(c) ==
  /\ pc[c] = "uses" /\ using[wants[c]] = "nobody"
  /\ IF sessions[wants[c]].state = "open"
     THEN using' = [using EXCEPT ![wants[c]] = c] /\ UNCHANGED pc
     ELSE Goes(c, "over") /\ UNCHANGED using
  /\ UNCHANGED <<lifetime, queue, sessions, opened, wants, stop, losses>>
Finishes(c) ==
  /\ using[wants[c]] = c /\ Goes(c, "over") /\ using' = [using EXCEPT ![wants[c]] = "nobody"]
  /\ UNCHANGED <<lifetime, queue, sessions, opened, wants, stop, losses>>
\* The operation fails and takes the session with it, or is canceled.
Breaks(c) ==
  /\ using[wants[c]] = c /\ losses < MaxLosses /\ losses' = losses + 1
  /\ sessions' = [sessions EXCEPT ![wants[c]].state = "ended"] /\ Lost
  /\ Goes(c, "over") /\ using' = [using EXCEPT ![wants[c]] = "nobody"]
  /\ UNCHANGED <<queue, opened, wants, stop>>

-----------------------------------------------------------------------------
(* stop_async.                                                              *)

StopBegins ==
  /\ stop = "no" /\ stop' = "waits" /\ lifetime' = [lifetime EXCEPT !.stopping = TRUE]
  /\ queue' = Append(queue, "stop") /\ UNCHANGED <<sessions, opened, pc, wants, using, losses>>
\* The list of shares is told to stop first, then each share is stopped and waited for.
StopEnters ==
  /\ stop = "waits" /\ Owns("stop") /\ stop' = "stops"
  /\ UNCHANGED <<lifetime, queue, sessions, opened, pc, wants, using, losses>>
\* One session ends with the operation that is under way on it.
StopsOne(s) ==
  /\ stop = "stops" /\ sessions[s].kept /\ sessions[s].state = "open"
  /\ sessions' = [sessions EXCEPT ![s].state = "ended"]
  /\ using' = [using EXCEPT ![s] = "nobody"]
  /\ pc' = [c \in Callers |-> IF using[s] = c THEN "over" ELSE pc[c]]
  /\ UNCHANGED <<lifetime, queue, opened, wants, stop, losses>>
StopEnds ==
  /\ stop = "stops" /\ \A s \in Shares : sessions[s].state # "open"
  /\ stop' = "over" /\ Unlock
  /\ sessions' = [s \in Shares |-> [sessions[s] EXCEPT !.kept = FALSE]]
  /\ UNCHANGED <<lifetime, opened, pc, wants, using, losses>>

StopTurn == StopEnters \/ StopEnds \/ \E s \in Shares : StopsOne(s)
Turn(c) == Enters(c) \/ Opens(c) \/ Takes(c) \/ Finishes(c)
Next ==
  \/ StopBegins \/ StopTurn
  \/ \E c \in Callers : Begins(c) \/ Withdraws(c) \/ Turn(c) \/ Breaks(c)
Proceeds == StopTurn \/ \E c \in Callers : Turn(c)
Progress == WF_vars(Proceeds)
Spec == Init /\ [][Next]_vars /\ Progress

-----------------------------------------------------------------------------
(* Properties.                                                             *)

\* However many callers want a share, it has one session, and nobody drops a live one.
OneSession == \A s \in Shares : opened[s] <= 1 /\ (sessions[s].state = "open" => sessions[s].kept)

\* After a stop nothing is open, and nothing can be opened any more.
StopIsFinal == stop = "over" =>
  /\ \A s \in Shares : sessions[s].state # "open"
  /\ \A c \in Callers : pc[c] # "opens"

\* The application is told of a loss once, and not when it stops the client itself.
ToldOnce == lifetime.told = (IF lifetime.lost THEN 1 ELSE 0)

ServerSound == TypeOK /\ OneSession /\ StopIsFinal /\ ToldOnce

\* What waits for a session, uses one or stops them comes to an end.
Unsettled == stop \in {"waits", "stops"} \/ \E c \in Callers : pc[c] \notin {"new", "over"}
=============================================================================
