--------------------------- MODULE ReceivedMacros ---------------------------
(***************************************************************************)
(* Macros over received text: terminal-received-macros.cpp, fed and dispatched  *)
(* by the frames of terminal-runtime.cpp.                                    *)
(*                                                                         *)
(* The peer's text arrives in pieces of any size.  One dispatch sends a piece of *)
(* a reply, or tries one rule on the current line, or takes one part of the text. *)
(* A rule is the text it looks for (a regular expression that keeps matching when *)
(* the line grows) and the reply it sends.                                    *)
(***************************************************************************)
EXTENDS Naturals, Sequences, SequencesExt

CONSTANTS Letters,        \* what a line is made of, besides CR and LF
          CR, LF,
          Rules,          \* sequence of [seeks, reply]
          LineCapacity,   \* letters of a line that are kept (1 MiB)
          QueueCapacity,  \* letters that wait (2 MiB)
          SendChunk,      \* letters of a reply sent at once (4096)
          MaxText,        \* bound: letters received on one connection
          MaxConnections  \* bound

MacrosConstants ==
  /\ CR \notin Letters /\ LF \notin Letters /\ CR # LF
  /\ Rules \in Seq([seeks : Seq(Letters), reply : Seq(Letters)]) /\ Rules # <<>>
  /\ LineCapacity \in Nat \ {0} /\ SendChunk \in Nat \ {0} /\ QueueCapacity \in Nat

VARIABLES
  notifications,   \* pieces of text that wait, the first one without what is done
  line, carriage,  \* the line so far; pending_carriage_return
  acted,           \* action_executed: the line had its action
  rule,            \* the rule to try next, 0 when none is (matching is false)
  send,            \* what is left of the reply under way
  generation,
  text,            \* all that was received on this connection
  ended,           \* lines that ended on it: what was kept, the whole, the rule that acted
  out,             \* what the terminal was given on it
  owed             \* the replies of all rules that acted on it

queue == <<notifications, line, carriage, acted, rule, send>>
vars == <<queue, generation, text, ended, out, owed>>

Symbols == Letters \cup {CR, LF}
Queued == FlattenSeq(notifications)
LastOf(s, n) == IF Len(s) <= n THEN s ELSE SubSeq(s, Len(s) - n + 1, Len(s))
Matches(r, l) ==
  LET s == Rules[r].seeks IN
  \E i \in 0..(Len(l) - Len(s)) : SubSeq(l, i + 1, i + Len(s)) = s

\* What was taken from the queue, and what it ends with since the last LF; the CR before
\* an LF is no part of a line.
Taken == SubSeq(text, 1, Len(text) - Len(Queued))
Whole ==
  LET from == SelectLastInSeq(Taken, LAMBDA c : c = LF)
      tail == SubSeq(Taken, from + 1, Len(Taken))
  IN  IF carriage THEN Front(tail) ELSE tail

TypeOK ==
  /\ notifications \in Seq(Seq(Symbols) \ {<<>>}) /\ Len(Queued) <= QueueCapacity
  /\ line \in Seq(Symbols) /\ Len(line) <= LineCapacity
  /\ carriage \in BOOLEAN /\ acted \in {0} \cup DOMAIN Rules
  /\ rule \in {0} \cup DOMAIN Rules /\ send \in Seq(Letters)
  /\ generation \in 1..MaxConnections

Empty ==
  /\ notifications = <<>> /\ line = <<>> /\ carriage = FALSE /\ acted = 0
  /\ rule = 0 /\ send = <<>>
Init ==
  /\ Empty /\ generation = 1 /\ text = <<>> /\ ended = <<>> /\ out = <<>> /\ owed = <<>>

\* The output callback of the connection.
Feed ==
  \E piece \in SeqOf(Symbols, MaxText - Len(text)) \ {<<>>} :
    /\ Len(piece) <= QueueCapacity - Len(Queued)
    /\ notifications' = Append(notifications, piece) /\ text' = text \o piece
    /\ UNCHANGED <<line, carriage, acted, rule, send, generation, ended, out, owed>>

\* append_line; what was matched before is forgotten.
Grows(l) ==
  /\ line' = LastOf(line \o l, LineCapacity)
  /\ rule' = IF acted = 0 THEN 1 ELSE 0

Dropped == 0   \* in the place of a letter
Pending == send # <<>>
\* Fault: text is taken before all rules were tried.
NotSending == ~Pending
Idle == ~Pending /\ rule = 0

\* A full terminal is tried again; a piece for a line that is served or gone is dropped.
SendsPiece ==
  /\ Pending
  /\ LET n == IF Len(send) < SendChunk THEN Len(send) ELSE SendChunk IN
     /\ send' = SubSeq(send, n + 1, Len(send))
     /\ \E sent \in {SubSeq(send, 1, n), [i \in 1..n |-> Dropped]} : out' = out \o sent
  /\ UNCHANGED <<notifications, line, carriage, acted, rule, generation, text, ended, owed>>

NextRule(r) == IF r = Len(Rules) THEN 0 ELSE r + 1
\* advance_match and execute_action.
Tries ==
  /\ ~Pending /\ rule # 0
  /\ IF Matches(rule, line)
     THEN /\ acted' = rule /\ send' = Rules[rule].reply /\ rule' = 0
          /\ owed' = owed \o Rules[rule].reply
     ELSE rule' = NextRule(rule) /\ UNCHANGED <<acted, send, owed>>
  /\ UNCHANGED <<notifications, line, carriage, generation, text, ended, out>>

\* The front piece without its first n letters.
Consumed(n) ==
  LET rest == SubSeq(Head(notifications), n + 1, Len(Head(notifications)))
  IN  IF rest = <<>> THEN Tail(notifications) ELSE <<rest>> \o Tail(notifications)
Byte == Head(Head(notifications))
\* Letters up to the next end of a line, or of the piece.
Run == LET p == Head(notifications)
       IN  SelectInSeq(p \o <<LF>>, LAMBDA c : c \in {CR, LF}) - 1
Steps == Idle /\ notifications # <<>>

LoneCarriage ==
  /\ Steps /\ carriage /\ Byte # LF
  /\ carriage' = FALSE /\ Grows(<<CR>>)
  /\ UNCHANGED <<notifications, acted, send, generation, text, ended, out, owed>>
EndsLine ==
  /\ Steps /\ Byte = LF
  /\ ended' = Append(ended, [line |-> line, whole |-> Whole, acted |-> acted])
  /\ line' = <<>> /\ carriage' = FALSE /\ acted' = 0 /\ notifications' = Consumed(1)
  /\ UNCHANGED <<rule, send, generation, text, out, owed>>
TakesCarriage ==
  /\ Steps /\ ~carriage /\ Byte = CR
  /\ carriage' = TRUE /\ notifications' = Consumed(1)
  /\ UNCHANGED <<line, acted, rule, send, generation, text, ended, out, owed>>
TakesRun ==
  /\ Steps /\ ~carriage /\ Byte \in Letters
  /\ Grows(SubSeq(Head(notifications), 1, Run)) /\ notifications' = Consumed(Run)
  /\ UNCHANGED <<carriage, acted, send, generation, text, ended, out, owed>>

Dispatch == SendsPiece \/ Tries \/ LoneCarriage \/ EndsLine \/ TakesCarriage \/ TakesRun

\* reset_macros: the carrier is lost, the connection is stopped, also because the queue is
\* full, or it is another one.
Reset ==
  /\ generation < MaxConnections /\ generation' = generation + 1
  /\ notifications' = <<>> /\ line' = <<>> /\ carriage' = FALSE /\ acted' = 0
  /\ rule' = 0 /\ send' = <<>>
  /\ text' = <<>> /\ ended' = <<>> /\ owed' = <<>> /\ out' = <<>>

Rest == send = <<>> /\ rule = 0 /\ notifications = <<>> /\ UNCHANGED vars

Next == Feed \/ Dispatch \/ Reset \/ Rest
Spec == Init /\ [][Next]_vars
-----------------------------------------------------------------------------
(* Properties.                                                             *)

\* However the text was cut, the line is what the peer sent since the last LF.
LineExact == line = LastOf(Whole, LineCapacity)

\* A line has an action exactly when a rule finds its text: no later text overtakes a
\* match, and what acts was there.
NoneMissed ==
  \A i \in DOMAIN ended :
    LET l == ended[i] IN
    /\ l.acted = 0 => \A r \in DOMAIN Rules : ~Matches(r, l.line)
    /\ l.acted # 0 => Matches(l.acted, l.whole)

\* Replies leave in the order of the lines, on the connection that asked, and whole but
\* for what was dropped.
RepliesWhole ==
  LET all == out \o send IN
  /\ Len(all) = Len(owed)
  /\ \A i \in DOMAIN all : all[i] \in {owed[i], Dropped}

MacrosExact == TypeOK /\ LineExact /\ NoneMissed /\ RepliesWhole
=============================================================================
