---------------------------- MODULE DesktopProofs ----------------------------
(***************************************************************************)
(* Proofs about what the launcher keeps on the desktop: HotkeyBackend, for any   *)
(* lists of connections, any number of replacements, presses and failures (what  *)
(* is reported of a hotkey is so, and it opens what it was pressed for), and     *)
(* ControlServer, for any launchers that share a directory and any clients (the  *)
(* socket leads to the one that serves, and an opening is carried out once).     *)
(***************************************************************************)
EXTENDS HotkeyBackend, ControlServer, SequenceTheorems, FiniteSetTheorems, TLAPS

-----------------------------------------------------------------------------
(* The invariant.                                                          *)

\* The calls that make a session and fill it; what is on the bus, wherever it is.
IsCall(m) == m.op \in {"create", "bind"}
Differ(m, n) == IsCall(m) /\ IsCall(n) => m.generation # n.generation

\* A session that is known is of the list of now; when it is bound, with all of it.
Session ==
  /\ backend.session \in {0, backend.generation} /\ backend.bound \in {0, backend.session}
  /\ backend.session # 0 => backend.kind = "portal"
  /\ backend.bound # 0 =>
       /\ backend.registered = DOMAIN backend.actions
       /\ portal[backend.bound] =
            [state |-> "bound", list |-> backend.actions, ids |-> DOMAIN backend.actions]

\* Of every list at most one call is under way, asked, shown to the user or answered.
Once ==
  /\ \A i, j \in DOMAIN requests : i # j => Differ(requests[i], requests[j])
  /\ \A i, j \in DOMAIN inbox : i # j => Differ(inbox[i], inbox[j])
  /\ \A d, e \in dialogs : d # e => Differ(d, e)
  /\ \A i \in DOMAIN requests : \A d \in dialogs : Differ(requests[i], d)
  /\ \A i \in DOMAIN requests : \A j \in DOMAIN inbox : Differ(requests[i], inbox[j])
  /\ \A d \in dialogs : \A j \in DOMAIN inbox : Differ(d, inbox[j])

\* A call is of a list so far, and not of one that is bound already; a bind carries the list.
Due(m) ==
  IsCall(m) => /\ m.generation <= backend.generation /\ backend.kind \in {"portal", "over"}
               /\ m.generation # backend.bound
Carries(m) == m.op = "bind" /\ m.generation = backend.session => m.list = backend.actions
\* An answer for the list of now is of the known session, and says what the portal holds.
Truthful(m) ==
  m.op = "bind" /\ Live /\ m.generation = backend.generation =>
    /\ backend.session = backend.generation
    /\ m.kind = "response" => portal[m.generation] =
         [state |-> "bound", list |-> backend.actions, ids |-> m.ids]
Calls ==
  /\ \A i \in DOMAIN requests : Due(requests[i]) /\ Carries(requests[i])
  /\ \A d \in dialogs : Due(d) /\ Carries(d) /\ d.op # "close"
  /\ \A j \in DOMAIN inbox : Due(inbox[j]) /\ Truthful(inbox[j])

\* What was bound, or may still be, is the known session, or is closed after that.
ClosedAfter(g, i) ==
  \E j \in DOMAIN requests : i < j /\ requests[j].op = "close" /\ requests[j].generation = g
ClosesOld ==
  \A i \in DOMAIN requests : requests[i].op = "close" =>
    backend.kind = "over" \/ requests[i].generation < backend.generation
BindsClosed ==
  \A i \in DOMAIN requests : requests[i].op = "bind" =>
    requests[i].generation = backend.session \/ ClosedAfter(requests[i].generation, i)
DialogsClosed ==
  \A d \in dialogs : d.op = "bind" => d.generation = backend.session \/ ClosedAfter(d.generation, 0)
BoundClosed ==
  \A g \in Generations : portal[g].state = "bound" => g = backend.session \/ ClosedAfter(g, 0)
Closes == ClosesOld /\ BindsClosed /\ DialogsClosed /\ BoundClosed

\* A list that could not be registered is in the compositor or was told; bindings there
\* are of a list that failed, or excused.
Status ==
  /\ backend.kind = "pending" => ~backend.failed
  /\ backend.failed = backend.reported
  /\ backend.kind = "none" /\ backend.actions # << >> => backend.failed
  /\ backend.kind = "x11" /\ ~backend.failed => backend.registered = DOMAIN backend.actions
  /\ backend.failed /\ backend.actions # << >> => compositor = backend.actions \/ told
  /\ backend.kind \in {"pending", "portal"} /\ compositor # << >> => excused \/ backend.failed

HotkeyInv == TypeOK /\ Session /\ Once /\ Calls /\ Closes /\ Status /\ OpensMeant

-----------------------------------------------------------------------------
(* Sequences and constants.                                                *)

\* What is behind the head keeps its order, one place further to the front.
LEMMA TailIs ==
  ASSUME NEW S, NEW s \in Seq(S), s # << >>
  PROVE  /\ Tail(s) \in Seq(S) /\ Head(s) = s[1] /\ 1 \in DOMAIN s /\ Head(s) \in S
         /\ Len(s) \in Nat /\ Len(Tail(s)) = Len(s) - 1 /\ DOMAIN s = 1..Len(s)
         /\ \A i \in DOMAIN Tail(s) : i \in Nat /\ i + 1 \in DOMAIN s /\ Tail(s)[i] = s[i + 1]
<1>1. Len(s) \in Nat /\ Len(s) # 0
  BY EmptySeq
<1> QED BY <1>1, HeadTailProperties, ElementOfSeq

\* What is put at the end stands behind what was there.
LEMMA ConcatIs ==
  ASSUME NEW S, NEW s \in Seq(S), NEW t \in Seq(S)
  PROVE  /\ s \o t \in Seq(S) /\ Len(s) \in Nat /\ DOMAIN s = 1..Len(s)
         /\ \A i \in DOMAIN s : i \in DOMAIN (s \o t) /\ (s \o t)[i] = s[i]
         /\ \A i \in DOMAIN t : Len(s) + i \in DOMAIN (s \o t) /\ (s \o t)[Len(s) + i] = t[i]
         /\ \A i \in DOMAIN (s \o t) :
              i \in DOMAIN s \/ (i \notin DOMAIN s /\ i - Len(s) \in DOMAIN t /\ (s \o t)[i] = t[i - Len(s)])
<1>1. /\ Len(s) \in Nat /\ Len(t) \in Nat /\ s \o t \in Seq(S) /\ Len(s \o t) = Len(s) + Len(t)
      /\ DOMAIN s = 1..Len(s) /\ DOMAIN t = 1..Len(t) /\ DOMAIN (s \o t) = 1..(Len(s) + Len(t))
      /\ \A i \in 1..(Len(s) + Len(t)) : (s \o t)[i] = IF i <= Len(s) THEN s[i] ELSE t[i - Len(s)]
  BY ConcatProperties
<1> QED BY <1>1

\* The same for one element.
LEMMA AppendIs ==
  ASSUME NEW S, NEW s \in Seq(S), NEW e \in S
  PROVE  /\ Append(s, e) \in Seq(S) /\ Len(s) \in Nat /\ DOMAIN s = 1..Len(s)
         /\ DOMAIN Append(s, e) = DOMAIN s \cup {Len(s) + 1}
         /\ \A i \in DOMAIN s : Append(s, e)[i] = s[i]
         /\ Append(s, e)[Len(s) + 1] = e
BY AppendProperties

\* The empty list has no places, and any other has one.
LEMMA Places ==
  ASSUME HotkeyConstants
  PROVE  /\ Generations \subseteq Nat /\ 0 \notin Generations /\ 1 \in Generations
         /\ DOMAIN << >> = {}
         /\ \A l \in Lists : l # << >> => DOMAIN l # {}
         /\ \A l \in Lists : DOMAIN l \subseteq Ids
         /\ \A l \in Lists : \A i \in DOMAIN l : l[i] \in Targets
<1>1. \A l \in Lists : l # << >> => DOMAIN l # {}
  <2> SUFFICES ASSUME NEW l \in Lists, l # << >> PROVE DOMAIN l # {}
    OBVIOUS
  <2>1. l \in Seq(Targets)
    BY DEF HotkeyConstants
  <2>2. Len(l) \in Nat /\ Len(l) # 0 /\ DOMAIN l = 1..Len(l)
    BY <2>1, EmptySeq
  <2> QED BY <2>2
<1>2. DOMAIN << >> = {}
  OBVIOUS
<1>3. \A l \in Lists : DOMAIN l \subseteq Ids
  BY DEF Ids
<1>4. \A l \in Lists : \A i \in DOMAIN l : l[i] \in Targets
  BY DEF Targets
<1> QED BY <1>1, <1>2, <1>3, <1>4 DEF Generations, HotkeyConstants

-----------------------------------------------------------------------------
(* One call of a list at a time.                                           *)

Messages == [kind : {"error", "rejected", "response", "activated"},
             op : {"version", "create", "bind", "none"},
             generation : Generations, ids : SUBSET Ids]
BusTyped == requests \in Seq(Request) /\ dialogs \subseteq Request /\ inbox \in Seq(Messages)

\* A request that is taken is closed, or shown to the user; it is not under way twice.
LEMMA OnceTaken ==
  ASSUME BusTyped, Once, requests # << >>, requests' = Tail(requests), inbox' = inbox,
         dialogs' \subseteq dialogs \cup {Head(requests)}
  PROVE  Once'
<1>1. /\ Head(requests) = requests[1] /\ 1 \in DOMAIN requests
      /\ \A i \in DOMAIN requests' : i \in Nat /\ i + 1 \in DOMAIN requests
                                      /\ requests'[i] = requests[i + 1]
  BY TailIs DEF BusTyped
<1>2. \A i, j \in DOMAIN requests' : i # j => Differ(requests'[i], requests'[j])
  <2> SUFFICES ASSUME NEW i \in DOMAIN requests', NEW j \in DOMAIN requests', i # j
               PROVE  Differ(requests'[i], requests'[j])
    OBVIOUS
  <2>1. i + 1 # j + 1
    BY <1>1
  <2> QED BY <1>1, <2>1 DEF Once
<1>3. \A i \in DOMAIN requests' : Differ(requests'[i], Head(requests)) /\ Differ(Head(requests), requests'[i])
  <2> SUFFICES ASSUME NEW i \in DOMAIN requests'
               PROVE  Differ(requests'[i], requests[1]) /\ Differ(requests[1], requests'[i])
    BY <1>1
  <2>1. i + 1 # 1
    BY <1>1
  <2> QED BY <1>1, <2>1 DEF Once
<1>4. \A d \in dialogs : Differ(Head(requests), d) /\ Differ(d, Head(requests))
  BY <1>1 DEF Once, Differ
<1>5. \A j \in DOMAIN inbox : Differ(Head(requests), inbox[j])
  BY <1>1 DEF Once
<1>6. \A d, e \in dialogs' : d # e => Differ(d, e)
  BY <1>4 DEF Once
<1>7. \A i \in DOMAIN requests' : \A d \in dialogs' : Differ(requests'[i], d)
  BY <1>1, <1>3 DEF Once
<1>8. \A i \in DOMAIN requests' : \A j \in DOMAIN inbox' : Differ(requests'[i], inbox'[j])
  BY <1>1 DEF Once
<1>9. \A d \in dialogs' : \A j \in DOMAIN inbox' : Differ(d, inbox'[j])
  BY <1>5 DEF Once
<1> QED BY <1>2, <1>6, <1>7, <1>8, <1>9 DEF Once

\* What is answered is under way as its answer, and no more as what was asked.
LEMMA OnceAnswered ==
  ASSUME BusTyped, Once, NEW n \in Messages, inbox' = Append(inbox, n),
         dialogs' \subseteq dialogs,
         \A i, j \in DOMAIN requests' : i # j => Differ(requests'[i], requests'[j]),
         \A i \in DOMAIN requests' : \E k \in DOMAIN requests : requests'[i] = requests[k],
         \A i \in DOMAIN requests' : Differ(requests'[i], n),
         \A d \in dialogs' : Differ(d, n),
         \A j \in DOMAIN inbox : Differ(inbox[j], n)
  PROVE  Once'
<1>1. /\ DOMAIN inbox' = DOMAIN inbox \cup {Len(inbox) + 1}
      /\ \A j \in DOMAIN inbox : inbox'[j] = inbox[j]
      /\ inbox'[Len(inbox) + 1] = n
  BY AppendIs DEF BusTyped
<1>2. \A i, j \in DOMAIN inbox' : i # j => Differ(inbox'[i], inbox'[j])
  BY <1>1 DEF Once, Differ
<1>3. \A d, e \in dialogs' : d # e => Differ(d, e)
  BY DEF Once
<1>4. \A i \in DOMAIN requests' : \A d \in dialogs' : Differ(requests'[i], d)
  BY DEF Once
<1>5. \A i \in DOMAIN requests' : \A j \in DOMAIN inbox' : Differ(requests'[i], inbox'[j])
  BY <1>1 DEF Once
<1>6. \A d \in dialogs' : \A j \in DOMAIN inbox' : Differ(d, inbox'[j])
  BY <1>1 DEF Once
<1> QED BY <1>2, <1>3, <1>4, <1>5, <1>6 DEF Once

\* A message that says of a call what another says of it too.
Echoes(n, m) == n.op = m.op /\ n.generation = m.generation

\* A request that is refused.
LEMMA OnceRefused ==
  ASSUME BusTyped, Once, requests # << >>, requests' = Tail(requests), dialogs' = dialogs,
         NEW n \in Messages, inbox' = Append(inbox, n), Echoes(n, Head(requests))
  PROVE  Once'
<1>1. /\ Head(requests) = requests[1] /\ 1 \in DOMAIN requests
      /\ \A i \in DOMAIN requests' : i \in Nat /\ i + 1 \in DOMAIN requests
                                      /\ requests'[i] = requests[i + 1]
  BY TailIs DEF BusTyped
<1>2. \A m : (Differ(m, Head(requests)) => Differ(m, n)) /\ (Differ(Head(requests), m) => Differ(m, n))
  BY DEF Differ, IsCall, Echoes
<1>3. \A i, j \in DOMAIN requests' : i # j => Differ(requests'[i], requests'[j])
  <2> SUFFICES ASSUME NEW i \in DOMAIN requests', NEW j \in DOMAIN requests', i # j
               PROVE  Differ(requests'[i], requests'[j])
    OBVIOUS
  <2>1. i + 1 # j + 1
    BY <1>1
  <2> QED BY <1>1, <2>1 DEF Once
<1>4. \A i \in DOMAIN requests' : Differ(requests'[i], n)
  <2> SUFFICES ASSUME NEW i \in DOMAIN requests' PROVE Differ(requests'[i], requests[1])
    BY <1>1, <1>2
  <2>1. i + 1 # 1
    BY <1>1
  <2> QED BY <1>1, <2>1 DEF Once
<1>5. \A d \in dialogs' : Differ(d, n)
  BY <1>1, <1>2 DEF Once
<1>6. \A j \in DOMAIN inbox : Differ(inbox[j], n)
  BY <1>1, <1>2 DEF Once
<1> QED BY <1>1, <1>3, <1>4, <1>5, <1>6, OnceAnswered

\* A request that the user answers.
LEMMA OnceResponded ==
  ASSUME BusTyped, Once, NEW d \in dialogs, dialogs' = dialogs \ {d}, requests' = requests,
         NEW n \in Messages, inbox' = Append(inbox, n), Echoes(n, d)
  PROVE  Once'
<1>1. \A m : (Differ(m, d) => Differ(m, n)) /\ (Differ(d, m) => Differ(m, n))
  BY DEF Differ, IsCall, Echoes
<1>2. \A i \in DOMAIN requests' : Differ(requests'[i], n)
  BY <1>1 DEF Once
<1>3. \A e \in dialogs' : Differ(e, n)
  BY <1>1 DEF Once
<1>4. \A j \in DOMAIN inbox : Differ(inbox[j], n)
  BY <1>1 DEF Once
<1>5. \A i, j \in DOMAIN requests' : i # j => Differ(requests'[i], requests'[j])
  BY DEF Once
<1> QED BY <1>2, <1>3, <1>4, <1>5, OnceAnswered

\* A message that comes, and requests put behind the others, calls only of lists for which
\* no other is under way.
LEMMA OncePut ==
  ASSUME BusTyped, Once, NEW more \in Seq(Request), requests' = requests \o more,
         dialogs' = dialogs,
         \/ inbox' = inbox
         \/ inbox # << >> /\ inbox' = Tail(inbox),
         \A i, j \in DOMAIN more : i # j => Differ(more[i], more[j]),
         \A k \in DOMAIN more : \A i \in DOMAIN requests : Differ(requests[i], more[k]),
         \A k \in DOMAIN more : \A d \in dialogs : Differ(more[k], d),
         \A k \in DOMAIN more : \A j \in DOMAIN inbox' : Differ(more[k], inbox'[j])
  PROVE  Once'
<1>1. \A j \in DOMAIN inbox' : \E k \in DOMAIN inbox : inbox'[j] = inbox[k]
  <2>1. CASE inbox # << >> /\ inbox' = Tail(inbox)
    <3>1. \A j \in DOMAIN inbox' : j + 1 \in DOMAIN inbox /\ inbox'[j] = inbox[j + 1]
      BY <2>1, TailIs DEF BusTyped
    <3> QED BY <3>1
  <2> QED BY <2>1
<1>2. \A i, j \in DOMAIN inbox' : i # j => Differ(inbox'[i], inbox'[j])
  <2>1. CASE inbox' = inbox
    BY <2>1 DEF Once
  <2>2. CASE inbox # << >> /\ inbox' = Tail(inbox)
    <3>1. \A i \in DOMAIN inbox' : i \in Nat /\ i + 1 \in DOMAIN inbox /\ inbox'[i] = inbox[i + 1]
      BY <2>2, TailIs DEF BusTyped
    <3> SUFFICES ASSUME NEW i \in DOMAIN inbox', NEW j \in DOMAIN inbox', i # j
                 PROVE  Differ(inbox'[i], inbox'[j])
      OBVIOUS
    <3>2. i + 1 # j + 1
      BY <3>1
    <3> QED BY <3>1, <3>2 DEF Once
  <2> QED BY <2>1, <2>2
<1>3. /\ DOMAIN requests = 1..Len(requests) /\ Len(requests) \in Nat
      /\ \A i \in DOMAIN requests : requests'[i] = requests[i]
      /\ \A i \in DOMAIN requests' :
           \/ i \in DOMAIN requests
           \/ i \notin DOMAIN requests /\ i - Len(requests) \in DOMAIN more
              /\ requests'[i] = more[i - Len(requests)] /\ i \in Nat
  <2>1. DOMAIN requests' \subseteq Nat
    BY ConcatIs DEF BusTyped
  <2> QED BY <2>1, ConcatIs DEF BusTyped
<1>4. \A i, j \in DOMAIN requests' : i # j => Differ(requests'[i], requests'[j])
  <2> SUFFICES ASSUME NEW i \in DOMAIN requests', NEW j \in DOMAIN requests', i # j
               PROVE  Differ(requests'[i], requests'[j])
    OBVIOUS
  <2>1. CASE i \in DOMAIN requests /\ j \in DOMAIN requests
    BY <1>3, <2>1 DEF Once
  <2>2. CASE i \in DOMAIN requests /\ j \notin DOMAIN requests
    BY <1>3, <2>2
  <2>3. CASE i \notin DOMAIN requests /\ j \in DOMAIN requests
    BY <1>3, <2>3 DEF Differ
  <2>4. CASE i \notin DOMAIN requests /\ j \notin DOMAIN requests
    <3>1. i - Len(requests) # j - Len(requests)
      BY <1>3, <2>4
    <3> QED BY <1>3, <2>4, <3>1
  <2> QED BY <2>1, <2>2, <2>3, <2>4
<1>5. \A d, e \in dialogs' : d # e => Differ(d, e)
  BY DEF Once
<1>6. \A i \in DOMAIN requests' : \A d \in dialogs' : Differ(requests'[i], d)
  BY <1>3 DEF Once
<1>7. \A i \in DOMAIN requests' : \A j \in DOMAIN inbox' : Differ(requests'[i], inbox'[j])
  BY <1>1, <1>3 DEF Once
<1>8. \A d \in dialogs' : \A j \in DOMAIN inbox' : Differ(d, inbox'[j])
  BY <1>1 DEF Once
<1> QED BY <1>2, <1>4, <1>5, <1>6, <1>7, <1>8 DEF Once

-----------------------------------------------------------------------------
(* The steps of the portal.                                                 *)

\* What is under way stays due, and carries what it carried, while the backend rests.
LEMMA CallsMove ==
  ASSUME Calls, UNCHANGED backend,
         \A i \in DOMAIN requests' : \E k \in DOMAIN requests : requests'[i] = requests[k],
         \A d \in dialogs' : \/ d \in dialogs
                             \/ d.op # "close" /\ \E k \in DOMAIN requests : d = requests[k],
         \A j \in DOMAIN inbox' : \/ \E k \in DOMAIN inbox : inbox'[j] = inbox[k]
                                  \/ Due(inbox'[j]),
         (\A j \in DOMAIN inbox : Truthful(inbox[j]))'
  PROVE  Calls'
<1>1. (\A i \in DOMAIN requests : Due(requests[i]) /\ Carries(requests[i]))'
  BY DEF Calls, Due, Carries
<1>2. (\A d \in dialogs : Due(d) /\ Carries(d) /\ d.op # "close")'
  BY DEF Calls, Due, Carries
<1>3. (\A j \in DOMAIN inbox : Due(inbox[j]))'
  BY DEF Calls, Due
<1> QED BY <1>1, <1>2, <1>3 DEF Calls

\* A close is still to come when the head of the requests was none of it.
LEMMA ClosedInTail ==
  ASSUME BusTyped, requests # << >>, requests' = Tail(requests), NEW g, NEW i \in Nat,
         \/ ClosedAfter(g, i + 1)
         \/ i = 0 /\ ClosedAfter(g, 0) /\ ~(Head(requests).op = "close" /\ Head(requests).generation = g)
  PROVE  ClosedAfter(g, i)'
<1>1. /\ Head(requests) = requests[1] /\ DOMAIN requests = 1..Len(requests) /\ Len(requests) \in Nat
      /\ DOMAIN requests' = 1..(Len(requests) - 1)
      /\ \A j \in DOMAIN requests' : requests'[j] = requests[j + 1]
  <2>1. Tail(requests) \in Seq(Request)
    BY TailIs DEF BusTyped
  <2> QED BY <2>1, TailIs DEF BusTyped
<1>2. PICK j \in DOMAIN requests : /\ i + 1 < j /\ requests[j].op = "close"
                                   /\ requests[j].generation = g
  BY <1>1 DEF ClosedAfter
<1>3. j - 1 \in DOMAIN requests' /\ i < j - 1 /\ requests'[j - 1] = requests[j]
  BY <1>1, <1>2
<1> QED BY <1>2, <1>3 DEF ClosedAfter

\* A close stays to come when requests are put behind it, and may be among them.
LEMMA ClosedInConcat ==
  ASSUME BusTyped, NEW more \in Seq(Request), requests' = requests \o more, NEW g, NEW i \in Nat,
         \/ ClosedAfter(g, i)
         \/ /\ i <= Len(requests)
            /\ \E k \in DOMAIN more : more[k].op = "close" /\ more[k].generation = g
  PROVE  ClosedAfter(g, i)'
<1>1. /\ \A j \in DOMAIN requests : j \in DOMAIN requests' /\ requests'[j] = requests[j]
      /\ \A k \in DOMAIN more : Len(requests) + k \in DOMAIN requests'
                                /\ requests'[Len(requests) + k] = more[k]
      /\ Len(requests) \in Nat
  BY ConcatIs DEF BusTyped
<1>2. CASE ClosedAfter(g, i)
  BY <1>1, <1>2 DEF ClosedAfter
<1>3. CASE /\ i <= Len(requests)
           /\ \E k \in DOMAIN more : more[k].op = "close" /\ more[k].generation = g
  <2>1. PICK k \in DOMAIN more : more[k].op = "close" /\ more[k].generation = g
    BY <1>3
  <2>2. k \in Nat /\ k > 0
    OBVIOUS
  <2>3. i < Len(requests) + k
    BY <1>1, <1>3, <2>2
  <2> QED BY <1>1, <2>1, <2>3 DEF ClosedAfter
<1> QED BY <1>2, <1>3

\* What is asked stays closed in time when the first request is taken.
LEMMA BindsInTail ==
  ASSUME BusTyped, Closes, requests # << >>, requests' = Tail(requests), UNCHANGED backend
  PROVE  ClosesOld' /\ BindsClosed'
<1>1. \A i \in DOMAIN requests' : i \in Nat /\ i + 1 \in DOMAIN requests /\ requests'[i] = requests[i + 1]
  BY TailIs DEF BusTyped
<1>2. ClosesOld'
  BY <1>1 DEF Closes, ClosesOld
<1>3. BindsClosed'
  <2> SUFFICES ASSUME NEW i \in DOMAIN requests', NEW g, g = requests'[i].generation,
                      requests'[i].op = "bind", g # backend.session
               PROVE  ClosedAfter(g, i)'
    BY DEF BindsClosed, ClosedAfter
  <2>1. ClosedAfter(g, i + 1)
    BY <1>1 DEF Closes, BindsClosed
  <2> QED BY <1>1, <2>1, ClosedInTail
<1> QED BY <1>2, <1>3

\* The parts of the types.
Backends ==
  [generation : Generations, actions : Lists, kind : {"pending", "none", "x11", "portal", "over"},
   session : {0} \cup Generations, bound : {0} \cup Generations, registered : SUBSET Ids,
   failed : BOOLEAN, reported : BOOLEAN]
BackendTyped == backend \in Backends
Sessions == [state : {"none", "open", "bound", "closed"}, list : Lists, ids : SUBSET Ids]
FallbackTyped ==
  /\ compositor \in Lists /\ told \in BOOLEAN /\ excused \in BOOLEAN
  /\ counts \in [presses : 0..MaxPresses, failures : 0..MaxFailures]
OpenedTyped == opened \in [opens : Targets \cup {"nothing"}, meant : Targets \cup {"nothing"}]

Typed == /\ desktop \in Desktops /\ BackendTyped /\ BusTyped /\ FallbackTyped /\ OpenedTyped
         /\ portal \in [Generations -> Sessions]

\* Together they are the types.
LEMMA TypeParts == (TypeOK <=> Typed) /\ (TypeOK' <=> Typed')
BY DEF TypeOK, Typed, Backends, BackendTyped, BusTyped, Sessions, FallbackTyped, OpenedTyped, Messages

\* A failure that may happen is counted.
LEMMA FailureCounted ==
  ASSUME HotkeyConstants, FallbackTyped, MayFail
  PROVE  counts' \in [presses : 0..MaxPresses, failures : 0..MaxFailures]
<1>1. counts.failures \in 0..MaxFailures /\ counts.failures + 1 \in 0..MaxFailures
  BY DEF FallbackTyped, MayFail, HotkeyConstants
<1> QED BY <1>1 DEF FallbackTyped, MayFail

\* A request is taken.
LEMMA TakesKeeps ==
  ASSUME HotkeyConstants, HotkeyInv, Takes PROVE HotkeyInv'
<1> USE DEF Keeps, fallback
<1> DEFINE r == Head(requests)
<1>1. /\ TypeOK /\ Session /\ Once /\ Calls /\ Closes /\ Status /\ OpensMeant
      /\ BackendTyped /\ BusTyped /\ FallbackTyped /\ OpenedTyped /\ portal \in [Generations -> Sessions]
  BY TypeParts DEF HotkeyInv, Typed
<1>2. /\ requests # << >> /\ requests' = Tail(requests) /\ inbox' = inbox
      /\ UNCHANGED <<desktop, backend, compositor, told, excused, counts, opened>>
  BY DEF Takes
<1>3. /\ r \in Request /\ r = requests[1] /\ 1 \in DOMAIN requests /\ requests' \in Seq(Request)
      /\ \A i \in DOMAIN requests' : i \in Nat /\ i + 1 \in DOMAIN requests
                                      /\ requests'[i] = requests[i + 1]
  BY <1>1, <1>2, TailIs DEF BusTyped
<1>4. \/ /\ r.op = "close" /\ portal' = [portal EXCEPT ![r.generation].state = "closed"]
         /\ dialogs' = {d \in dialogs : d.generation # r.generation}
      \/ r.op # "close" /\ dialogs' = dialogs \cup {r} /\ UNCHANGED portal
  BY DEF Takes
<1> HIDE DEF r
<1>5. /\ r.generation \in Generations /\ portal' \in [Generations -> Sessions]
      /\ \A g \in Generations : IF r.op = "close" /\ g = r.generation THEN portal'[g].state = "closed"
                                ELSE portal'[g] = portal[g]
  <2>1. r.generation \in Generations
    BY <1>3 DEF Request
  <2>2. CASE r.op # "close" /\ UNCHANGED portal
    BY <1>1, <2>1, <2>2
  <2>3. CASE r.op = "close" /\ portal' = [portal EXCEPT ![r.generation].state = "closed"]
    <3>1. portal[r.generation] \in Sessions
      BY <1>1, <2>1
    <3>2. [portal[r.generation] EXCEPT !.state = "closed"] \in Sessions
      BY <3>1 DEF Sessions
    <3>3. portal' = [portal EXCEPT ![r.generation] = [portal[r.generation] EXCEPT !.state = "closed"]]
      BY <2>3
    <3>4. [portal[r.generation] EXCEPT !.state = "closed"].state = "closed"
      BY <3>1 DEF Sessions
    <3> QED BY <1>1, <2>1, <2>3, <3>2, <3>3, <3>4
  <2> QED BY <1>4, <2>1, <2>2, <2>3
<1>6. r.op = "close" => backend.kind = "over" \/ r.generation # backend.generation
  <2>1. backend.generation \in Nat /\ r.generation \in Nat
    BY <1>1, <1>5, Places DEF BackendTyped, Backends
  <2> QED BY <1>1, <1>3, <2>1 DEF Closes, ClosesOld
<1>7. TypeOK'
  <2>1. dialogs' \subseteq Request
    BY <1>1, <1>3, <1>4 DEF BusTyped
  <2> QED BY <1>1, <1>2, <1>3, <1>5, <2>1, TypeParts
            DEF Typed, BackendTyped, BusTyped, FallbackTyped, OpenedTyped
<1>8. Session'
  <2>1. backend.bound # 0 => portal'[backend.bound] = portal[backend.bound]
    BY <1>1, <1>5, <1>6, Places DEF Session, BackendTyped, Backends
  <2> QED BY <1>1, <1>2, <2>1 DEF Session
<1>9. Once'
  <2>1. dialogs' \subseteq dialogs \cup {Head(requests)}
    BY <1>4 DEF r
  <2> QED BY <1>1, <1>2, <2>1, OnceTaken
<1>10. Calls'
  <2>1. (\A j \in DOMAIN inbox : Truthful(inbox[j]))'
    <3> SUFFICES ASSUME NEW m, Truthful(m), m.op = "bind", Live, m.generation = backend.generation
                 PROVE  portal'[m.generation] = portal[m.generation]
      BY <1>1, <1>2 DEF Calls, Truthful, Live
    <3> QED BY <1>1, <1>5, <1>6 DEF Live, BackendTyped, Backends
  <2>2. \A i \in DOMAIN requests' : \E k \in DOMAIN requests : requests'[i] = requests[k]
    BY <1>3
  <2>3. \A d \in dialogs' : d \in dialogs \/ (d.op # "close" /\ \E k \in DOMAIN requests : d = requests[k])
    BY <1>3, <1>4
  <2> QED BY <1>1, <1>2, <2>1, <2>2, <2>3, CallsMove
<1>11. Closes'
  <2>1. ClosesOld' /\ BindsClosed'
    BY <1>1, <1>2, BindsInTail
  <2>2. ASSUME NEW g, ClosedAfter(g, 0), ~(r.op = "close" /\ r.generation = g)
        PROVE  ClosedAfter(g, 0)'
    BY <1>1, <1>2, <2>2, ClosedInTail DEF r
  <2>3. DialogsClosed'
    <3> SUFFICES ASSUME NEW d \in dialogs', d.op = "bind", d.generation # backend.session
                 PROVE  ClosedAfter(d.generation, 0)'
      BY <1>2 DEF DialogsClosed
    <3>1. CASE d \in dialogs
      BY <1>1, <1>4, <2>2, <3>1 DEF Closes, DialogsClosed
    <3>2. CASE d = r /\ r.op # "close"
      <4>1. ClosedAfter(d.generation, 1)
        BY <1>1, <1>3, <3>2 DEF Closes, BindsClosed
      <4>2. 0 + 1 = 1 /\ 0 \in Nat
        OBVIOUS
      <4> QED BY <1>1, <1>2, <4>1, <4>2, ClosedInTail
    <3> QED BY <1>4, <3>1, <3>2
  <2>4. BoundClosed'
    <3> SUFFICES ASSUME NEW g \in Generations, portal'[g].state = "bound", g # backend.session
                 PROVE  ClosedAfter(g, 0)'
      BY <1>2 DEF BoundClosed
    <3>1. portal[g].state = "bound" /\ ~(r.op = "close" /\ r.generation = g)
      BY <1>4, <1>5
    <3> QED BY <1>1, <2>2, <3>1 DEF Closes, BoundClosed
  <2> QED BY <2>1, <2>3, <2>4 DEF Closes
<1>12. Status' /\ OpensMeant'
  BY <1>1, <1>2 DEF Status, OpensMeant
<1> QED BY <1>7, <1>8, <1>9, <1>10, <1>11, <1>12 DEF HotkeyInv

\* No close of the list of now is asked for while the backend lives.
LEMMA OpenNow ==
  ASSUME HotkeyConstants, TypeOK, Closes, Live, NEW i
  PROVE  ~ClosedAfter(backend.generation, i)
BY Places, TypeParts DEF Typed, BackendTyped, Backends, Closes, ClosesOld, ClosedAfter, Live

\* A request is refused: its sender is told.
LEMMA RefusesKeeps ==
  ASSUME HotkeyConstants, HotkeyInv, Refuses PROVE HotkeyInv'
<1> DEFINE r == Head(requests)
           n == [kind |-> "error", op |-> r.op, generation |-> r.generation, ids |-> {}]
<1>1. /\ TypeOK /\ Session /\ Once /\ Calls /\ Closes /\ Status /\ OpensMeant
      /\ BackendTyped /\ BusTyped /\ FallbackTyped /\ OpenedTyped /\ portal \in [Generations -> Sessions]
  BY TypeParts DEF HotkeyInv, Typed
<1>2. /\ requests # << >> /\ requests' = Tail(requests) /\ r.op # "close" /\ MayFail
      /\ UNCHANGED <<desktop, backend, dialogs, portal, compositor, told, excused, opened>>
      /\ inbox' = Append(inbox, n)
  BY DEF Refuses, Says
<1>3. /\ r \in Request /\ r = requests[1] /\ 1 \in DOMAIN requests /\ requests' \in Seq(Request)
      /\ \A i \in DOMAIN requests' : i \in Nat /\ i + 1 \in DOMAIN requests
                                      /\ requests'[i] = requests[i + 1]
  BY <1>1, <1>2, TailIs DEF BusTyped
<1> HIDE DEF r
<1>4. n \in Messages /\ Echoes(n, r) /\ n.kind = "error"
  BY <1>2, <1>3 DEF Request, Messages, Echoes
<1> HIDE DEF n
<1>5. /\ DOMAIN inbox' = DOMAIN inbox \cup {Len(inbox) + 1} /\ inbox' \in Seq(Messages)
      /\ \A j \in DOMAIN inbox : inbox'[j] = inbox[j]
      /\ inbox'[Len(inbox) + 1] = n
  BY <1>1, <1>2, <1>4, AppendIs DEF BusTyped
<1>6. TypeOK'
  <2>1. FallbackTyped'
    BY <1>1, <1>2, FailureCounted DEF FallbackTyped
  <2> QED BY <1>1, <1>2, <1>3, <1>5, <2>1, TypeParts DEF Typed, BackendTyped, BusTyped, OpenedTyped
<1>7. Session'
  BY <1>1, <1>2 DEF Session
<1>8. Once'
  BY <1>1, <1>2, <1>4, OnceRefused DEF r
<1>9. Calls'
  <2>1. (\A j \in DOMAIN inbox : Truthful(inbox[j]))'
    <3>1. \A m : Truthful(m) => Truthful(m)'
      BY <1>2 DEF Truthful, Live
    <3>2. Truthful(n)
      <4> SUFFICES ASSUME n.op = "bind", Live, n.generation = backend.generation
                   PROVE  backend.session = backend.generation
        BY <1>4 DEF Truthful
      <4>1. r.op = "bind" /\ r.generation = backend.generation
        BY <1>4 DEF Echoes
      <4>2. r.generation = backend.session \/ ClosedAfter(r.generation, 1)
        BY <1>1, <1>3, <4>1 DEF Closes, BindsClosed
      <4>3. ~ClosedAfter(backend.generation, 1)
        BY <1>1, OpenNow
      <4> QED BY <4>1, <4>2, <4>3
    <3>3. \A j \in DOMAIN inbox' : inbox'[j] = n \/ \E k \in DOMAIN inbox : inbox'[j] = inbox[k]
      BY <1>5
    <3> QED BY <1>1, <1>2, <3>1, <3>2, <3>3 DEF Calls, Truthful, Live
  <2>2. \A i \in DOMAIN requests' : \E k \in DOMAIN requests : requests'[i] = requests[k]
    BY <1>3
  <2>3. \A j \in DOMAIN inbox' : Due(inbox'[j]) \/ \E k \in DOMAIN inbox : inbox'[j] = inbox[k]
    <3>1. Due(n)
      BY <1>1, <1>3, <1>4 DEF Calls, Due, Echoes, IsCall
    <3> QED BY <1>5, <3>1
  <2> QED BY <1>1, <1>2, <2>1, <2>2, <2>3, CallsMove
<1>10. Closes'
  <2>1. ClosesOld' /\ BindsClosed'
    BY <1>1, <1>2, BindsInTail
  <2>2. ASSUME NEW g, ClosedAfter(g, 0) PROVE ClosedAfter(g, 0)'
    BY <1>1, <1>2, <2>2, ClosedInTail DEF r
  <2>3. DialogsClosed' /\ BoundClosed'
    BY <1>1, <1>2, <2>2 DEF Closes, DialogsClosed, BoundClosed
  <2> QED BY <2>1, <2>3 DEF Closes
<1>11. Status' /\ OpensMeant'
  BY <1>1, <1>2 DEF Status, OpensMeant
<1> QED BY <1>6, <1>7, <1>8, <1>9, <1>10, <1>11 DEF HotkeyInv

\* The user answers, and what he bound is in the portal.
LEMMA RespondsKeeps ==
  ASSUME HotkeyConstants, HotkeyInv, Responds PROVE HotkeyInv'
<1>1. /\ TypeOK /\ Session /\ Once /\ Calls /\ Closes /\ Status /\ OpensMeant
      /\ BackendTyped /\ BusTyped /\ FallbackTyped /\ OpenedTyped /\ portal \in [Generations -> Sessions]
  BY TypeParts DEF HotkeyInv, Typed
<1>2. UNCHANGED <<desktop, backend, requests, compositor, told, excused, counts, opened>>
  BY DEF Responds, Keeps, fallback
<1>3. PICK d \in dialogs :
        /\ dialogs' = dialogs \ {d}
        /\ \/ Says("rejected", d, {}) /\ UNCHANGED portal
           \/ d.op = "version" /\ Says("response", d, {}) /\ UNCHANGED portal
           \/ /\ d.op = "create" /\ Says("response", d, {})
              /\ portal' = [portal EXCEPT ![d.generation].state = "open"]
           \/ /\ d.op = "bind"
              /\ \E ids \in SUBSET DOMAIN d.list :
                   /\ Says("response", d, ids)
                   /\ portal' = [portal EXCEPT ![d.generation] = [state |-> "bound", list |-> d.list, ids |-> ids]]
  BY DEF Responds
<1>30. PICK kind \in {"rejected", "response"}, ids \in SUBSET DOMAIN d.list :
        /\ Says(kind, d, ids)
        /\ \/ UNCHANGED portal /\ (kind = "response" => d.op = "version")
           \/ kind = "response" /\ d.op = "create" /\ portal' = [portal EXCEPT ![d.generation].state = "open"]
           \/ /\ kind = "response" /\ d.op = "bind"
              /\ portal' = [portal EXCEPT ![d.generation] = [state |-> "bound", list |-> d.list, ids |-> ids]]
  BY <1>3
<1> DEFINE n == [kind |-> kind, op |-> d.op, generation |-> d.generation, ids |-> ids]
<1>4. /\ d \in Request /\ d.op # "close" /\ d.generation \in Generations /\ ids \subseteq Ids
      /\ Due(d) /\ Carries(d) /\ d.list \in Lists
  <2>1. d \in Request /\ d.op # "close" /\ Due(d) /\ Carries(d)
    BY <1>1 DEF BusTyped, Calls
  <2> QED BY <2>1, Places DEF Request
<1>5. inbox' = Append(inbox, n)
  BY <1>30 DEF Says
<1>6. /\ n \in Messages /\ Echoes(n, d) /\ n.kind = kind /\ n.ids = ids
  BY <1>4 DEF Request, Messages, Echoes
<1> HIDE DEF n
<1>7. /\ DOMAIN inbox' = DOMAIN inbox \cup {Len(inbox) + 1} /\ inbox' \in Seq(Messages)
      /\ \A j \in DOMAIN inbox : inbox'[j] = inbox[j]
      /\ inbox'[Len(inbox) + 1] = n
  BY <1>1, <1>5, <1>6, AppendIs DEF BusTyped
<1>8. /\ portal' \in [Generations -> Sessions]
      /\ \A g \in Generations : g # d.generation => portal'[g] = portal[g]
      /\ d.op \notin {"create", "bind"} => portal' = portal
      /\ kind # "response" => portal' = portal
      /\ d.op = "create" => portal'[d.generation].state = "open" \/ portal' = portal
      /\ d.op = "bind" /\ kind = "response" =>
           portal'[d.generation] = [state |-> "bound", list |-> d.list, ids |-> ids]
  <2>1. CASE UNCHANGED portal /\ (kind = "response" => d.op = "version")
    BY <1>1, <2>1
  <2>2. CASE kind = "response" /\ d.op = "create" /\ portal' = [portal EXCEPT ![d.generation].state = "open"]
    <3>1. portal[d.generation] \in Sessions
      BY <1>1, <1>4
    <3>2. /\ [portal[d.generation] EXCEPT !.state = "open"] \in Sessions
          /\ [portal[d.generation] EXCEPT !.state = "open"].state = "open"
      BY <3>1 DEF Sessions
    <3>3. portal' = [portal EXCEPT ![d.generation] = [portal[d.generation] EXCEPT !.state = "open"]]
      BY <2>2
    <3> QED BY <1>1, <1>4, <2>2, <3>2, <3>3
  <2>3. CASE /\ kind = "response" /\ d.op = "bind"
             /\ portal' = [portal EXCEPT ![d.generation] = [state |-> "bound", list |-> d.list, ids |-> ids]]
    <3>1. [state |-> "bound", list |-> d.list, ids |-> ids] \in Sessions
      BY <1>4 DEF Sessions
    <3> QED BY <1>1, <1>4, <2>3, <3>1
  <2> QED BY <1>30, <2>1, <2>2, <2>3
<1>9. TypeOK'
  <2>1. dialogs' \subseteq Request
    BY <1>1, <1>3 DEF BusTyped
  <2> QED BY <1>1, <1>2, <1>7, <1>8, <2>1, TypeParts
          DEF Typed, BackendTyped, BusTyped, FallbackTyped, OpenedTyped
<1>10. Session'
  <2>1. backend.bound # 0 => portal'[backend.bound] = portal[backend.bound]
    BY <1>1, <1>4, <1>8 DEF Due, IsCall, BackendTyped, Backends
  <2> QED BY <1>1, <1>2, <2>1 DEF Session
<1>11. Once'
  BY <1>1, <1>2, <1>3, <1>5, <1>6, OnceResponded
<1>12. d.op = "bind" => d.generation = backend.session \/ ClosedAfter(d.generation, 0)
  BY <1>1 DEF Closes, DialogsClosed
<1>13. Calls'
  <2>1. (\A j \in DOMAIN inbox : Truthful(inbox[j]))'
    <3>1. ASSUME NEW m \in Messages, Truthful(m), Differ(d, m) PROVE Truthful(m)'
      <4> SUFFICES ASSUME m.op = "bind", Live, m.generation = backend.generation
                   PROVE  portal'[m.generation] = portal[m.generation]
        BY <1>2, <3>1 DEF Truthful, Live
      <4> QED BY <1>8, <3>1 DEF Differ, IsCall, Messages
    <3>2. Truthful(n)'
      <4> SUFFICES ASSUME n.op = "bind", Live, n.generation = backend.generation
                   PROVE  /\ backend.session = backend.generation
                          /\ kind = "response" => portal'[n.generation] =
                               [state |-> "bound", list |-> backend.actions, ids |-> ids]
        BY <1>2, <1>6 DEF Truthful, Live
      <4>1. d.op = "bind" /\ d.generation = backend.generation /\ n.generation = d.generation
        BY <1>6 DEF Echoes
      <4>2. d.generation = backend.session
        BY <1>1, <1>12, <4>1, OpenNow
      <4> QED BY <1>4, <1>8, <4>1, <4>2 DEF Carries
    <3>3. \A j \in DOMAIN inbox' : \/ inbox'[j] = n
                                   \/ \E k \in DOMAIN inbox : inbox'[j] = inbox[k]
      BY <1>7
    <3>4. \A k \in DOMAIN inbox : Truthful(inbox[k]) /\ Differ(d, inbox[k]) /\ inbox[k] \in Messages
      BY <1>1, ElementOfSeq DEF Calls, Once, BusTyped
    <3>5. ASSUME NEW j \in DOMAIN inbox', NEW m, m = inbox'[j] PROVE Truthful(m)'
      BY <3>1, <3>2, <3>3, <3>4, <3>5
    <3> QED BY <3>5 DEF Truthful, Live
  <2>2. \A j \in DOMAIN inbox' : Due(inbox'[j]) \/ \E k \in DOMAIN inbox : inbox'[j] = inbox[k]
    <3>1. Due(n)
      BY <1>4, <1>6 DEF Due, Echoes, IsCall
    <3> QED BY <1>7, <3>1
  <2>3. \A e \in dialogs' : e \in dialogs
    BY <1>3
  <2> QED BY <1>1, <1>2, <2>1, <2>2, <2>3, CallsMove
<1>14. Closes'
  <2>1. ClosesOld' /\ BindsClosed' /\ DialogsClosed'
    BY <1>1, <1>2, <1>3 DEF Closes, ClosesOld, BindsClosed, DialogsClosed, ClosedAfter
  <2>2. BoundClosed'
    <3> SUFFICES ASSUME NEW g \in Generations, portal'[g].state = "bound", g # backend.session
                 PROVE  ClosedAfter(g, 0)
      BY <1>2 DEF BoundClosed, ClosedAfter
    <3>1. CASE portal[g].state = "bound"
      BY <1>1, <3>1 DEF Closes, BoundClosed
    <3>2. CASE portal[g].state # "bound"
      <4>1. g = d.generation /\ d.op = "bind"
        BY <1>8, <3>2
      <4> QED BY <1>12, <4>1
    <3> QED BY <3>1, <3>2
  <2> QED BY <2>1, <2>2 DEF Closes
<1>15. Status' /\ OpensMeant'
  BY <1>1, <1>2 DEF Status, OpensMeant
<1> QED BY <1>9, <1>10, <1>11, <1>13, <1>14, <1>15 DEF HotkeyInv

\* A key is pressed, which is no answer to a call.
LEMMA PressKeeps ==
  ASSUME HotkeyConstants, HotkeyInv, Press PROVE HotkeyInv'
<1>1. /\ TypeOK /\ Session /\ Once /\ Calls /\ Closes /\ Status /\ OpensMeant
      /\ BackendTyped /\ BusTyped /\ FallbackTyped /\ OpenedTyped /\ portal \in [Generations -> Sessions]
  BY TypeParts DEF HotkeyInv, Typed
<1>2. PICK g \in Generations, i \in Ids :
        inbox' = Append(inbox, [kind |-> "activated", op |-> "none", generation |-> g, ids |-> {i}])
  BY <1>1 DEF Press, Sessions
<1>3. /\ UNCHANGED <<desktop, backend, requests, dialogs, portal, compositor, told, excused, opened>>
      /\ counts' \in [presses : 0..MaxPresses, failures : 0..MaxFailures]
  <2>1. counts.presses \in 0..MaxPresses /\ counts.presses + 1 \in 0..MaxPresses
    BY <1>1 DEF FallbackTyped, Press, HotkeyConstants
  <2> QED BY <1>1, <2>1 DEF Press, FallbackTyped
<1> DEFINE n == [kind |-> "activated", op |-> "none", generation |-> g, ids |-> {i}]
<1>4. n \in Messages /\ n.op = "none"
  BY DEF Messages
<1>5. inbox' = Append(inbox, n)
  BY <1>2
<1> HIDE DEF n
<1>6. /\ DOMAIN inbox' = DOMAIN inbox \cup {Len(inbox) + 1} /\ inbox' \in Seq(Messages)
      /\ \A j \in DOMAIN inbox : inbox'[j] = inbox[j]
      /\ inbox'[Len(inbox) + 1] = n
  BY <1>1, <1>4, <1>5, AppendIs DEF BusTyped
<1>7. TypeOK'
  BY <1>1, <1>3, <1>6, TypeParts
  DEF Typed, BackendTyped, BusTyped, FallbackTyped, OpenedTyped
<1>8. Once'
  <2>1. \A m : Differ(m, n)
    BY <1>4 DEF Differ, IsCall
  <2> QED BY <1>1, <1>3, <1>4, <1>5, <2>1, OnceAnswered DEF Once
<1>9. Calls'
  <2>1. (\A j \in DOMAIN inbox : Truthful(inbox[j]))'
    <3>1. \A j \in DOMAIN inbox' : \/ inbox'[j] = n
                                   \/ \E k \in DOMAIN inbox : inbox'[j] = inbox[k]
      BY <1>6
    <3> QED BY <1>1, <1>3, <1>4, <3>1 DEF Calls, Truthful, Live
  <2>2. \A j \in DOMAIN inbox' : Due(inbox'[j]) \/ \E k \in DOMAIN inbox : inbox'[j] = inbox[k]
    BY <1>4, <1>6 DEF Due, IsCall
  <2> QED BY <1>1, <1>3, <2>1, <2>2, CallsMove
<1>10. Session' /\ Closes' /\ Status' /\ OpensMeant'
  BY <1>1, <1>3 DEF Session, Closes, ClosesOld, BindsClosed, DialogsClosed, BoundClosed,
     ClosedAfter, Status, OpensMeant
<1> QED BY <1>7, <1>8, <1>9, <1>10 DEF HotkeyInv

-----------------------------------------------------------------------------
(* The steps of the backend.                                                *)

\* The backend keeps its list and its session; a detection that is refused ends as "none".
SameCore ==
  /\ backend'.generation = backend.generation /\ backend'.actions = backend.actions
  /\ backend'.session = backend.session /\ backend'.bound = backend.bound
  /\ backend'.registered = backend.registered
  /\ backend'.kind = backend.kind \/ (backend.kind = "pending" /\ backend'.kind = "none")
\* A message is heard, or none.
Hears == inbox' = inbox \/ (inbox # << >> /\ inbox' = Tail(inbox))

\* Then what is on the bus stays as it is.
LEMMA BusKeeps ==
  ASSUME BusTyped, Session, Once, Calls, Closes, SameCore, Hears,
         UNCHANGED <<requests, dialogs, portal>>
  PROVE  BusTyped' /\ Session' /\ Once' /\ Calls' /\ Closes'
<1>1. inbox' \in Seq(Messages) /\ \A j \in DOMAIN inbox' : \E k \in DOMAIN inbox : inbox'[j] = inbox[k]
  <2>1. CASE inbox # << >> /\ inbox' = Tail(inbox)
    <3>1. /\ inbox' \in Seq(Messages)
          /\ \A j \in DOMAIN inbox' : j + 1 \in DOMAIN inbox /\ inbox'[j] = inbox[j + 1]
      BY <2>1, TailIs DEF BusTyped
    <3> QED BY <3>1
  <2> QED BY <2>1 DEF Hears, BusTyped
<1>2. BusTyped'
  BY <1>1 DEF BusTyped
<1>3. Session'
  BY DEF Session, SameCore
<1>4. Once'
  <2> DEFINE more == << >>
  <2>1. more \in Seq(Request) /\ DOMAIN more = {} /\ requests' = requests \o more
    BY DEF BusTyped
  <2> HIDE DEF more
  <2> QED BY <2>1, OncePut DEF Hears
<1>5. Calls'
  <2>1. \A m : Due(m) => Due(m)'
    BY DEF Due, SameCore
  <2>2. \A m : Carries(m) => Carries(m)'
    BY DEF Carries, SameCore
  <2>3. \A m : Truthful(m) => Truthful(m)'
    BY DEF Truthful, SameCore, Live
  <2>4. (\A i \in DOMAIN requests : Due(requests[i]) /\ Carries(requests[i]))'
    BY <2>1, <2>2 DEF Calls, Due, Carries
  <2>5. (\A d \in dialogs : Due(d) /\ Carries(d) /\ d.op # "close")'
    BY <2>1, <2>2 DEF Calls
  <2>6. (\A j \in DOMAIN inbox : Due(inbox[j]) /\ Truthful(inbox[j]))'
    <3> SUFFICES ASSUME NEW j \in DOMAIN inbox', NEW m, m = inbox'[j]
                 PROVE  Due(m)' /\ Truthful(m)'
      BY DEF Due, Truthful, Live
    <3> QED BY <1>1, <2>1, <2>3 DEF Calls
  <2> QED BY <2>4, <2>5, <2>6 DEF Calls
<1>6. Closes'
  BY DEF Closes, ClosesOld, BindsClosed, DialogsClosed, BoundClosed, ClosedAfter, SameCore
<1> QED BY <1>2, <1>3, <1>4, <1>5, <1>6

\* A setup writes the list, or tells the user when it must, or he stays as he was.
LEMMA SetupExternalDoes ==
  ASSUME HotkeyConstants, FallbackTyped, NEW l \in Lists, NEW warns \in BOOLEAN,
         SetupExternal(l, warns)
  PROVE  /\ FallbackTyped' /\ excused' = excused
         /\ compositor' = l \/ (compositor' = compositor /\ told' = (told \/ warns))
         /\ told => told'
BY FailureCounted DEF SetupExternal, FallbackTyped

\* Clearing empties the compositor, or its list is excused.
LEMMA ClearExternalDoes ==
  ASSUME HotkeyConstants, FallbackTyped, ClearExternal
  PROVE  /\ FallbackTyped' /\ told' = told
         /\ compositor' # << >> => excused'
BY FailureCounted DEF ClearExternal, FallbackTyped, HotkeyConstants

\* A registration that fails is noted, and its list goes to the compositor or the user is told.
Noted(b) == /\ b.failed = b.reported
            /\ b.failed /\ b.actions # << >> => compositor = b.actions \/ told
LEMMA FailsNoted ==
  ASSUME HotkeyConstants, FallbackTyped, NEW b \in Backends, Noted(b), Fails(b)
  PROVE  /\ FallbackTyped' /\ BackendTyped'
         /\ backend'.generation = b.generation /\ backend'.actions = b.actions
         /\ backend'.session = b.session /\ backend'.bound = b.bound
         /\ backend'.registered = b.registered /\ backend'.kind = b.kind
         /\ backend'.failed = backend'.reported
         /\ b.actions # << >> => backend'.failed /\ (compositor' = b.actions \/ told')
         /\ b.actions = << >> => backend' = b /\ UNCHANGED fallback
<1>1. CASE b.actions = << >>
  BY <1>1 DEF Fails, fallback, FallbackTyped, Noted, BackendTyped
<1>2. CASE b.actions # << >>
  <2>1. backend' = [b EXCEPT !.failed = TRUE, !.reported = TRUE]
    BY <1>2 DEF Fails
  <2>2. /\ backend' \in Backends /\ backend'.failed = TRUE /\ backend'.reported = TRUE
        /\ backend'.generation = b.generation /\ backend'.actions = b.actions
        /\ backend'.session = b.session /\ backend'.bound = b.bound
        /\ backend'.registered = b.registered /\ backend'.kind = b.kind
    BY <2>1 DEF Backends
  <2>3. FallbackTyped' /\ (compositor' = b.actions \/ told')
    <3>1. CASE b.reported
      BY <1>2, <3>1 DEF Fails, fallback, FallbackTyped, Noted
    <3>2. CASE ~b.reported
      <4>1. b.actions \in Lists /\ SetupExternal(b.actions, TRUE)
        BY <1>2, <3>2 DEF Fails, Backends
      <4> QED BY <4>1, SetupExternalDoes
    <3> QED BY <3>1, <3>2
  <2> QED BY <1>2, <2>2, <2>3 DEF BackendTyped
<1> QED BY <1>1, <1>2

\* A backend that is sound but for what a failure notes is sound when it is noted.
LEMMA FailsKeeps ==
  ASSUME HotkeyConstants, HotkeyInv, NEW b \in Backends,
         \/ b = backend /\ backend.kind # "pending"
         \/ b = [backend EXCEPT !.kind = "none"] /\ backend.kind = "pending",
         Fails(b), Hears, UNCHANGED <<desktop, requests, dialogs, portal, opened>>
  PROVE  HotkeyInv'
<1>1. /\ TypeOK /\ Session /\ Once /\ Calls /\ Closes /\ Status /\ OpensMeant
      /\ BackendTyped /\ BusTyped /\ FallbackTyped /\ OpenedTyped /\ portal \in [Generations -> Sessions]
  BY TypeParts DEF HotkeyInv, Typed
<1>2. /\ b.generation = backend.generation /\ b.actions = backend.actions
      /\ b.session = backend.session /\ b.bound = backend.bound
      /\ b.registered = backend.registered /\ b.failed = backend.failed
      /\ b.reported = backend.reported /\ b.kind # "pending"
      /\ b.kind = backend.kind \/ (backend.kind = "pending" /\ b.kind = "none")
  BY <1>1 DEF BackendTyped, Backends
<1>3. Noted(b)
  BY <1>1, <1>2 DEF Noted, Status
<1>4. /\ FallbackTyped' /\ BackendTyped'
      /\ backend'.generation = b.generation /\ backend'.actions = b.actions
      /\ backend'.session = b.session /\ backend'.bound = b.bound
      /\ backend'.registered = b.registered /\ backend'.kind = b.kind
      /\ backend'.failed = backend'.reported
      /\ b.actions # << >> => backend'.failed /\ (compositor' = b.actions \/ told')
      /\ b.actions = << >> => backend' = b /\ UNCHANGED fallback
  BY <1>1, <1>3, FailsNoted
<1>5. SameCore
  BY <1>2, <1>4 DEF SameCore
<1>6. BusTyped' /\ Session' /\ Once' /\ Calls' /\ Closes'
  BY <1>1, <1>5, BusKeeps
<1>7. TypeOK'
  BY <1>1, <1>4, <1>6, TypeParts DEF Typed, OpenedTyped
<1>8. Status'
  <2>1. CASE b.actions # << >>
    BY <1>2, <1>4, <2>1 DEF Status
  <2>2. CASE b.actions = << >>
    BY <1>1, <1>2, <1>4, <2>2 DEF Status, fallback
  <2> QED BY <2>1, <2>2
<1>9. OpensMeant'
  BY <1>1 DEF OpensMeant
<1> QED BY <1>6, <1>7, <1>8, <1>9 DEF HotkeyInv

\* A step that changes neither the backend nor the fallback.
LEMMA RestsKeeps ==
  ASSUME HotkeyConstants, HotkeyInv, Hears,
         UNCHANGED <<desktop, backend, requests, dialogs, portal, compositor, told, excused, counts>>,
         OpenedTyped', OpensMeant'
  PROVE  HotkeyInv'
<1>1. /\ TypeOK /\ Session /\ Once /\ Calls /\ Closes /\ Status
      /\ BackendTyped /\ BusTyped /\ FallbackTyped /\ portal \in [Generations -> Sessions]
  BY TypeParts DEF HotkeyInv, Typed
<1>2. BusTyped' /\ Session' /\ Once' /\ Calls' /\ Closes'
  BY <1>1, BusKeeps DEF SameCore
<1>3. TypeOK'
  BY <1>1, <1>2, TypeParts DEF Typed, BackendTyped, FallbackTyped
<1>4. Status'
  BY <1>1 DEF Status
<1> QED BY <1>2, <1>3, <1>4 DEF HotkeyInv

\* A call that failed, or is not answered in time.
LEMMA RejectedKeeps ==
  ASSUME HotkeyConstants, HotkeyInv, Rejected \/ TimesOut PROVE HotkeyInv'
<1>1. /\ TypeOK /\ Session /\ Once /\ Calls /\ Closes /\ Status /\ OpensMeant
      /\ BackendTyped /\ BusTyped /\ FallbackTyped /\ OpenedTyped /\ portal \in [Generations -> Sessions]
  BY TypeParts DEF HotkeyInv, Typed
<1>2. CASE Rejected
  <2>1. /\ inbox # << >> /\ inbox' = Tail(inbox) /\ Head(inbox).op \in {"create", "bind"}
        /\ UNCHANGED <<desktop, dialogs, portal, requests, opened>>
        /\ IF Heard THEN Fails(backend) ELSE UNCHANGED <<backend, compositor, told, excused, counts>>
    BY <1>2 DEF Rejected, Gets, fallback
  <2>2. CASE Heard
    <3>1. Due(Head(inbox))
      BY <1>1, <2>1, TailIs DEF BusTyped, Calls
    <3>2. backend.kind # "pending"
      BY <2>1, <3>1 DEF Due, IsCall
    <3> QED BY <1>1, <2>1, <2>2, <3>2, FailsKeeps DEF Hears, BackendTyped
  <2>3. CASE ~Heard
    BY <1>1, <2>1, <2>3, RestsKeeps DEF Hears, OpenedTyped, OpensMeant
  <2> QED BY <2>2, <2>3
<1>3. CASE TimesOut
  <2>1. PICK i \in DOMAIN requests : requests[i].op \in {"create", "bind"}
    BY <1>3 DEF TimesOut
  <2>2. backend.kind # "pending"
    BY <1>1, <2>1 DEF Calls, Due, IsCall
  <2> QED BY <1>1, <1>3, <2>2, FailsKeeps DEF TimesOut, Hears, BackendTyped, bus
<1> QED BY <1>2, <1>3

\* etctl has the compositor set up, or cleared.
LEMMA SetupKeeps ==
  ASSUME HotkeyConstants, HotkeyInv, Setup PROVE HotkeyInv'
<1>1. /\ TypeOK /\ Session /\ Once /\ Calls /\ Closes /\ Status /\ OpensMeant
      /\ BackendTyped /\ BusTyped /\ FallbackTyped /\ OpenedTyped /\ portal \in [Generations -> Sessions]
  BY TypeParts DEF HotkeyInv, Typed
<1>2. /\ UNCHANGED <<desktop, backend, requests, dialogs, inbox, portal, opened>> /\ Live
      /\ IF backend.actions = << >> THEN ClearExternal
         ELSE ~Pending /\ ~Registered /\ SetupExternal(backend.actions, FALSE)
  BY DEF Setup, bus
<1>3. BusTyped' /\ Session' /\ Once' /\ Calls' /\ Closes'
  BY <1>1, <1>2, BusKeeps DEF SameCore, Hears
<1>4. FallbackTyped' /\ Status'
  <2>1. CASE backend.actions = << >>
    BY <1>1, <1>2, <2>1, ClearExternalDoes DEF Status
  <2>2. CASE backend.actions # << >>
    <3>1. backend.actions \in Lists /\ SetupExternal(backend.actions, FALSE) /\ FALSE \in BOOLEAN
      BY <1>1, <1>2, <2>2 DEF BackendTyped, Backends
    <3>2. FallbackTyped' /\ excused' = excused
          /\ (compositor' = backend.actions \/ (compositor' = compositor /\ told' = (told \/ FALSE)))
      BY <1>1, <3>1, SetupExternalDoes
    <3>3. backend.kind \in {"pending", "portal"} => backend.failed
      BY <1>1, <1>2, <2>2, Places DEF Pending, Registered, Session, BackendTyped, Backends
    <3> QED BY <1>1, <1>2, <2>2, <3>2, <3>3 DEF Status
  <2> QED BY <2>1, <2>2
<1>5. TypeOK'
  BY <1>1, <1>2, <1>3, <1>4, TypeParts DEF Typed, BackendTyped, OpenedTyped
<1>6. OpensMeant'
  BY <1>1, <1>2 DEF OpensMeant
<1> QED BY <1>3, <1>4, <1>5, <1>6 DEF HotkeyInv

\* A key opens what the list says that the portal bound for it.
LEMMA ActivatedKeeps ==
  ASSUME HotkeyConstants, HotkeyInv, Activated PROVE HotkeyInv'
<1>1. /\ TypeOK /\ Session /\ BackendTyped /\ BusTyped /\ OpenedTyped /\ OpensMeant
  BY TypeParts DEF HotkeyInv, Typed
<1> DEFINE m == Head(inbox)
           i == CHOOSE i \in m.ids : TRUE
<1>2. /\ inbox # << >> /\ inbox' = Tail(inbox)
      /\ UNCHANGED <<desktop, backend, requests, dialogs, portal, compositor, told, excused, counts>>
      /\ IF backend.kind = "portal" /\ OfThisBinding(m) /\ i \in DOMAIN backend.actions
         THEN opened' = [opens |-> backend.actions[i], meant |-> portal[m.generation].list[i]]
         ELSE UNCHANGED opened
  BY DEF Activated, Gets, fallback
<1>3. m \in Messages
  BY <1>1, <1>2, TailIs DEF BusTyped
<1> HIDE DEF m, i
<1>4. OpenedTyped' /\ OpensMeant'
  <2>1. CASE backend.kind = "portal" /\ OfThisBinding(m) /\ i \in DOMAIN backend.actions
    <3>1. backend.bound = backend.generation /\ backend.session = m.generation
      BY <2>1 DEF OfThisBinding
    <3>2. m.generation = backend.bound /\ backend.bound # 0
      BY <1>1, <1>3, <3>1, Places DEF Session, Messages
    <3>3. portal[m.generation].list = backend.actions
      BY <1>1, <3>2 DEF Session
    <3>4. backend.actions[i] \in Targets
      BY <1>1, <2>1, Places DEF BackendTyped, Backends
    <3> QED BY <1>2, <2>1, <3>3, <3>4 DEF OpenedTyped, OpensMeant
  <2>2. CASE ~(backend.kind = "portal" /\ OfThisBinding(m) /\ i \in DOMAIN backend.actions)
    BY <1>1, <1>2, <2>2 DEF OpenedTyped, OpensMeant
  <2> QED BY <2>1, <2>2
<1> QED BY <1>2, <1>4, RestsKeeps DEF Hears

\* The user's answer is all of the list, or it failed.
LEMMA BoundKeeps ==
  ASSUME HotkeyConstants, HotkeyInv, Bound PROVE HotkeyInv'
<1>1. /\ TypeOK /\ Session /\ Once /\ Calls /\ Closes /\ Status /\ OpensMeant
      /\ BackendTyped /\ BusTyped /\ FallbackTyped /\ OpenedTyped /\ portal \in [Generations -> Sessions]
  BY TypeParts DEF HotkeyInv, Typed
<1> DEFINE m == Head(inbox)
<1>2. /\ inbox # << >> /\ inbox' = Tail(inbox) /\ m.kind = "response" /\ m.op = "bind"
      /\ UNCHANGED <<desktop, requests, dialogs, portal, opened>>
  BY DEF Bound, Gets
<1>3. CASE ~Heard
  BY <1>1, <1>2, <1>3, RestsKeeps DEF Bound, fallback, Hears, OpenedTyped, OpensMeant
<1>4. CASE Heard
  <2>1. m = inbox[1] /\ 1 \in DOMAIN inbox /\ Live /\ m.generation = backend.generation
        /\ \A j \in DOMAIN inbox' : j \in Nat /\ j + 1 \in DOMAIN inbox /\ inbox'[j] = inbox[j + 1]
        /\ inbox' \in Seq(Messages)
    BY <1>1, <1>2, <1>4, TailIs DEF BusTyped, Heard
  <2>2. Due(m) /\ Truthful(m)
    BY <1>1, <2>1 DEF Calls
  <2> HIDE DEF m
  <2>3. /\ backend.session = backend.generation /\ backend.kind = "portal"
        /\ portal[backend.generation] =
             [state |-> "bound", list |-> backend.actions, ids |-> m.ids]
    BY <1>2, <2>1, <2>2 DEF Due, IsCall, Truthful, Live
  <2>4. CASE m.ids # DOMAIN backend.actions
    <3>1. Fails(backend)
      BY <1>4, <2>4 DEF Bound, m
    <3> QED BY <1>1, <1>2, <2>3, <3>1, FailsKeeps DEF Hears, BackendTyped
  <2>5. CASE m.ids = DOMAIN backend.actions
    <3> DEFINE g == backend.generation
    <3>1. /\ backend' = [backend EXCEPT !.bound = backend.generation, !.registered = DOMAIN backend.actions]
          /\ UNCHANGED <<compositor, told, excused, counts>>
      BY <1>4, <2>5 DEF Bound, m, fallback
    <3>2. /\ backend'.generation = g /\ backend'.actions = backend.actions
          /\ backend'.session = g /\ backend'.bound = g /\ backend'.kind = "portal"
          /\ backend'.registered = DOMAIN backend.actions
          /\ backend'.failed = backend.failed /\ backend'.reported = backend.reported
      BY <1>1, <2>3, <3>1 DEF BackendTyped, Backends
    <3>3. backend' \in Backends
      <4>1. backend.generation \in Generations /\ DOMAIN backend.actions \in SUBSET Ids
        BY <1>1, Places DEF BackendTyped, Backends
      <4> QED BY <1>1, <3>1, <4>1 DEF BackendTyped, Backends
    <3>4. TypeOK'
      BY <1>1, <1>2, <2>1, <3>1, <3>3, TypeParts DEF Typed, BackendTyped, BusTyped, FallbackTyped, OpenedTyped
    <3>5. Session'
      BY <1>2, <2>3, <2>5, <3>2 DEF Session
    <3>6. Once'
      <4> DEFINE more == << >>
      <4>1. more \in Seq(Request) /\ DOMAIN more = {} /\ requests' = requests \o more
        BY <1>1, <1>2 DEF BusTyped
      <4> HIDE DEF more
      <4> QED BY <1>1, <1>2, <4>1, OncePut
    <3>7. Calls'
      <4>1. \A n : Due(n) /\ Differ(m, n) => Due(n)'
        BY <1>2, <2>1, <2>3, <3>2 DEF Due, Differ, IsCall
      <4>2. \A n : Carries(n) => Carries(n)'
        BY <2>3, <3>2 DEF Carries
      <4>3. \A n : Truthful(n) => Truthful(n)'
        BY <1>2, <2>3, <3>2 DEF Truthful, Live
      <4>4. /\ \A i \in DOMAIN requests : Differ(m, requests[i])
            /\ \A d \in dialogs : Differ(m, d)
            /\ \A j \in DOMAIN inbox : j # 1 => Differ(m, inbox[j])
        BY <1>1, <2>1 DEF Once, Differ
      <4>5. (\A i \in DOMAIN requests : Due(requests[i]) /\ Carries(requests[i]))'
        <5> SUFFICES ASSUME NEW i \in DOMAIN requests', NEW n, n = requests'[i]
                     PROVE  Due(n)' /\ Carries(n)'
          BY DEF Due, Carries
        <5> QED BY <1>1, <1>2, <4>1, <4>2, <4>4 DEF Calls
      <4>6. (\A d \in dialogs : Due(d) /\ Carries(d) /\ d.op # "close")'
        BY <1>1, <1>2, <4>1, <4>2, <4>4 DEF Calls
      <4>7. (\A j \in DOMAIN inbox : Due(inbox[j]) /\ Truthful(inbox[j]))'
        <5> SUFFICES ASSUME NEW j \in DOMAIN inbox', NEW n, n = inbox'[j]
                     PROVE  Due(n)' /\ Truthful(n)'
          BY DEF Due, Truthful, Live
        <5>1. n = inbox[j + 1] /\ j + 1 \in DOMAIN inbox /\ j + 1 # 1
          BY <2>1
        <5> QED BY <1>1, <4>1, <4>3, <4>4, <5>1 DEF Calls
      <4> QED BY <4>5, <4>6, <4>7 DEF Calls
    <3>8. Closes'
      BY <1>1, <1>2, <2>3, <3>2 DEF Closes, ClosesOld, BindsClosed, DialogsClosed, BoundClosed, ClosedAfter
    <3>9. Status' /\ OpensMeant'
      BY <1>1, <1>2, <2>3, <3>1, <3>2 DEF Status, OpensMeant
    <3> QED BY <3>4, <3>5, <3>6, <3>7, <3>8, <3>9 DEF HotkeyInv
  <2> QED BY <2>4, <2>5
<1> QED BY <1>3, <1>4

\* The session that was asked for is known, and the list is bound in it.
LEMMA CreatedKeeps ==
  ASSUME HotkeyConstants, HotkeyInv, Created PROVE HotkeyInv'
<1>1. /\ TypeOK /\ Session /\ Once /\ Calls /\ Closes /\ Status /\ OpensMeant
      /\ BackendTyped /\ BusTyped /\ FallbackTyped /\ OpenedTyped /\ portal \in [Generations -> Sessions]
  BY TypeParts DEF HotkeyInv, Typed
<1>0. PICK g, n : /\ g = backend.generation
                  /\ n = [op |-> "bind", generation |-> g, list |-> backend.actions]
  OBVIOUS
<1> DEFINE m == Head(inbox)
           more == <<n>>
<1>2. /\ inbox # << >> /\ inbox' = Tail(inbox) /\ m.kind = "response" /\ m.op = "create"
      /\ UNCHANGED <<desktop, dialogs, portal, opened, compositor, told, excused, counts>>
  BY DEF Created, Gets, fallback
<1>3. CASE ~Heard
  BY <1>1, <1>2, <1>3, RestsKeeps DEF Created, Hears, OpenedTyped, OpensMeant
<1>4. CASE Heard
  <2>1. m = inbox[1] /\ 1 \in DOMAIN inbox /\ Live /\ m.generation = g
        /\ \A j \in DOMAIN inbox' : j \in Nat /\ j + 1 \in DOMAIN inbox /\ inbox'[j] = inbox[j + 1]
        /\ inbox' \in Seq(Messages)
    BY <1>0, <1>1, <1>2, <1>4, TailIs DEF BusTyped, Heard
  <2>2. backend' = [backend EXCEPT !.session = g] /\ requests' = Append(requests, n)
    BY <1>0, <1>4 DEF Created, Asking
  <2>3. Due(m)
    BY <1>1, <2>1 DEF Calls
  <2> HIDE DEF m
  <2>4. /\ g \in Generations /\ n \in Request /\ backend.kind = "portal" /\ backend.bound = 0
        /\ g # 0
    BY <1>0, <1>1, <1>2, <2>1, <2>3, Places
    DEF BackendTyped, Backends, Request, Due, IsCall, Live, Session
  <2>5. n.op = "bind" /\ n.generation = g /\ n.list = backend.actions
    BY <1>0
  <2>6. /\ backend'.generation = g /\ backend'.actions = backend.actions
        /\ backend'.session = g /\ backend'.bound = 0 /\ backend'.kind = "portal"
        /\ backend'.registered = backend.registered
        /\ backend'.failed = backend.failed /\ backend'.reported = backend.reported
        /\ backend' \in Backends
    BY <1>0, <1>1, <2>2, <2>4 DEF BackendTyped, Backends
  <2>7. /\ requests' \in Seq(Request) /\ DOMAIN requests' = DOMAIN requests \cup {Len(requests) + 1}
        /\ \A i \in DOMAIN requests : requests'[i] = requests[i]
        /\ requests'[Len(requests) + 1] = n
        /\ DOMAIN requests = 1..Len(requests) /\ Len(requests) \in Nat
    BY <1>1, <2>2, <2>4, AppendIs DEF BusTyped
  <2>8. /\ \A i \in DOMAIN requests : Differ(requests[i], n)
        /\ \A d \in dialogs : Differ(n, d)
        /\ \A j \in DOMAIN inbox' : Differ(n, inbox'[j])
    <3>1. \A e : Differ(e, m) \/ Differ(m, e) => Differ(e, n) /\ Differ(n, e)
      BY <1>2, <2>1, <2>5 DEF Differ, IsCall
    <3>2. \A i \in DOMAIN requests : Differ(requests[i], n)
      BY <1>1, <2>1, <3>1 DEF Once
    <3>3. \A d \in dialogs : Differ(n, d)
      BY <1>1, <2>1, <3>1 DEF Once
    <3>4. \A j \in DOMAIN inbox' : Differ(n, inbox'[j])
      <4> SUFFICES ASSUME NEW j \in DOMAIN inbox' PROVE Differ(n, inbox'[j])
        OBVIOUS
      <4>1. j + 1 # 1 /\ j + 1 \in DOMAIN inbox /\ inbox'[j] = inbox[j + 1]
        BY <2>1
      <4> QED BY <1>1, <2>1, <3>1, <4>1 DEF Once
    <3> QED BY <3>2, <3>3, <3>4
  <2>9. TypeOK'
    BY <1>1, <1>2, <2>1, <2>6, <2>7, TypeParts DEF Typed, BackendTyped, BusTyped, FallbackTyped, OpenedTyped
  <2>10. Session'
    BY <2>6 DEF Session
  <2>11. Once'
    <3>1. more \in Seq(Request) /\ DOMAIN more = {1} /\ more[1] = n /\ requests' = requests \o more
      BY <1>1, <2>2, <2>4, AppendIsConcat DEF BusTyped
    <3> HIDE DEF more
    <3> QED BY <1>1, <1>2, <2>8, <3>1, OncePut
  <2>12. Calls'
    <3>1. \A e : Due(e) => Due(e)'
      BY <1>0, <2>4, <2>6 DEF Due
    <3>2. \A e \in Request : Carries(e) /\ Differ(n, e) => Carries(e)'
      BY <2>4, <2>5, <2>6 DEF Carries, Differ, IsCall
    <3>3. \A e : Due(e) /\ Differ(n, e) => Truthful(e)'
      BY <2>5, <2>6 DEF Truthful, Differ, IsCall, Live
    <3>4. Due(n)' /\ Carries(n)'
      <4>1. g \in Nat
        BY <2>4, Places
      <4> QED BY <2>4, <2>5, <2>6, <4>1 DEF Due, Carries, IsCall
    <3>5. (\A i \in DOMAIN requests : Due(requests[i]) /\ Carries(requests[i]))'
      <4> SUFFICES ASSUME NEW i \in DOMAIN requests', NEW e, e = requests'[i]
                   PROVE  Due(e)' /\ Carries(e)'
        BY DEF Due, Carries
      <4>1. CASE i \in DOMAIN requests
        <5>1. e \in Request /\ Due(e) /\ Carries(e) /\ Differ(n, e)
          <6>1. e = requests[i]
            BY <2>7, <4>1
          <6>2. Differ(n, e)
            BY <2>8, <4>1, <6>1 DEF Differ
          <6> QED BY <1>1, <4>1, <6>1, <6>2, ElementOfSeq DEF Calls, BusTyped
        <5> QED BY <3>1, <3>2, <5>1
      <4>2. CASE i = Len(requests) + 1
        BY <2>7, <3>4, <4>2
      <4> QED BY <2>7, <4>1, <4>2
    <3>6. (\A d \in dialogs : Due(d) /\ Carries(d) /\ d.op # "close")'
      BY <1>1, <1>2, <2>8, <3>1, <3>2 DEF Calls, BusTyped
    <3>7. (\A j \in DOMAIN inbox : Due(inbox[j]) /\ Truthful(inbox[j]))'
      <4> SUFFICES ASSUME NEW j \in DOMAIN inbox', NEW e, e = inbox'[j]
                   PROVE  Due(e)' /\ Truthful(e)'
        BY DEF Due, Truthful, Live
      <4>1. e = inbox[j + 1] /\ j + 1 \in DOMAIN inbox /\ Differ(n, e)
        BY <2>1, <2>8
      <4> QED BY <1>1, <3>1, <3>3, <4>1 DEF Calls
    <3> QED BY <3>5, <3>6, <3>7 DEF Calls
  <2>13. Closes'
    <3>1. ASSUME NEW h, NEW i \in Nat, ClosedAfter(h, i) PROVE ClosedAfter(h, i)'
      BY <2>7, <3>1 DEF ClosedAfter
    <3>2. \A h \in Generations : h = backend.session => h = backend'.session
      BY <1>0, <1>1, <2>6, Places DEF Session
    <3>3. ClosesOld'
      <4> SUFFICES ASSUME NEW i \in DOMAIN requests', requests'[i].op = "close"
                   PROVE  requests'[i].generation < backend'.generation
        BY DEF ClosesOld
      <4>1. i \in DOMAIN requests /\ requests'[i] = requests[i]
        BY <2>5, <2>7
      <4>2. requests[i].generation < backend.generation
        BY <1>1, <2>4, <4>1 DEF Closes, ClosesOld
      <4> QED BY <1>0, <2>6, <4>1, <4>2
    <3>4. BindsClosed'
      <4> SUFFICES ASSUME NEW i \in DOMAIN requests', NEW h, h = requests'[i].generation,
                          requests'[i].op = "bind", h # backend'.session
                   PROVE  ClosedAfter(h, i)'
        BY DEF BindsClosed, ClosedAfter
      <4>1. i \in DOMAIN requests /\ requests'[i] = requests[i] /\ i \in Nat
        BY <2>5, <2>6, <2>7
      <4>2. h \in Generations
        <5>1. requests[i] \in Request
          BY <1>1, <4>1, ElementOfSeq DEF BusTyped
        <5> QED BY <4>1, <5>1 DEF Request
      <4>3. ClosedAfter(h, i)
        BY <1>1, <3>2, <4>1, <4>2 DEF Closes, BindsClosed
      <4> QED BY <3>1, <4>1, <4>3
    <3>5. DialogsClosed'
      <4> SUFFICES ASSUME NEW d \in dialogs, NEW h, h = d.generation, d.op = "bind", h # backend'.session
                   PROVE  ClosedAfter(h, 0)'
        BY <1>2 DEF DialogsClosed, ClosedAfter
      <4>1. h \in Generations
        BY <1>1 DEF BusTyped, Request
      <4>2. ClosedAfter(h, 0)
        BY <1>1, <3>2, <4>1 DEF Closes, DialogsClosed
      <4> QED BY <3>1, <4>2
    <3>6. BoundClosed'
      BY <1>1, <1>2, <3>1, <3>2 DEF Closes, BoundClosed
    <3> QED BY <3>3, <3>4, <3>5, <3>6 DEF Closes
  <2>14. Status' /\ OpensMeant'
    BY <1>1, <1>2, <2>4, <2>6 DEF Status, OpensMeant
  <2> QED BY <2>9, <2>10, <2>11, <2>12, <2>13, <2>14 DEF HotkeyInv
<1> QED BY <1>3, <1>4

-----------------------------------------------------------------------------
(* A new list, the end, and the first of both.                               *)

\* How the backend goes on without its session.
Afresh ==
  /\ backend'.session = 0 /\ backend'.bound = 0
  /\ \/ /\ backend.kind = "pending" /\ backend'.kind = "portal"
        /\ backend'.generation = backend.generation
     \/ Live /\ backend'.kind = backend.kind /\ backend'.generation = backend.generation + 1
     \/ Live /\ backend'.kind = "over" /\ backend'.generation = backend.generation
\* What is asked then: that the session is closed, and that the portal makes another.
Asked(more) ==
  /\ \A k \in DOMAIN more :
       \/ more[k].op = "close" /\ more[k].generation = backend.session /\ backend.session # 0
       \/ /\ more[k].op = "create" /\ more[k].generation = backend'.generation
          /\ backend'.kind = "portal"
  /\ \A i, j \in DOMAIN more : i # j => Differ(more[i], more[j])
  /\ backend.session # 0 =>
       \E k \in DOMAIN more : more[k].op = "close" /\ more[k].generation = backend.session

\* What is on the bus stays in order.
LEMMA AfreshKeeps ==
  ASSUME HotkeyConstants, BackendTyped, BackendTyped', BusTyped, portal \in [Generations -> Sessions],
         Session, Once, Calls, Closes,
         Afresh, NEW more \in Seq(Request), Asked(more), requests' = requests \o more, Hears,
         UNCHANGED <<dialogs, portal>>
  PROVE  BusTyped' /\ Session' /\ Once' /\ Calls' /\ Closes'
<1>1. inbox' \in Seq(Messages) /\ \A j \in DOMAIN inbox' : \E k \in DOMAIN inbox : inbox'[j] = inbox[k]
  <2>1. CASE inbox # << >> /\ inbox' = Tail(inbox)
    <3>1. /\ inbox' \in Seq(Messages)
          /\ \A j \in DOMAIN inbox' : j + 1 \in DOMAIN inbox /\ inbox'[j] = inbox[j + 1]
      BY <2>1, TailIs DEF BusTyped
    <3> QED BY <3>1
  <2> QED BY <2>1 DEF Hears, BusTyped
<1>2. /\ requests' \in Seq(Request) /\ Len(requests) \in Nat /\ DOMAIN requests = 1..Len(requests)
      /\ \A i \in DOMAIN requests' :
           \/ i \in DOMAIN requests /\ requests'[i] = requests[i]
           \/ i \notin DOMAIN requests /\ \E k \in DOMAIN more : requests'[i] = more[k]
  BY ConcatIs DEF BusTyped
<1>3. /\ backend.generation \in Generations /\ backend'.generation \in Generations
      /\ backend.generation \in Nat /\ backend'.generation \in Nat
      /\ backend.generation <= backend'.generation
  BY Places DEF BackendTyped, Backends, Afresh
<1>4. BusTyped'
  BY <1>1, <1>2 DEF BusTyped
<1>5. Session'
  BY DEF Session, Afresh
<1>6. \A m \in Request \cup Messages :
        Due(m) => /\ Due(m)'
                  /\ backend'.kind = "portal" /\ IsCall(m) => m.generation # backend'.generation
  <2> SUFFICES ASSUME NEW m \in Request \cup Messages, Due(m), IsCall(m)
               PROVE  /\ Due(m)'
                      /\ backend'.kind = "portal" => m.generation # backend'.generation
    BY DEF Due
  <2>1. m.generation \in Nat /\ m.generation # 0
    BY Places DEF Request, Messages
  <2> QED BY <1>3, <2>1 DEF Due, Afresh, Live
<1>7. /\ \A i \in DOMAIN requests : Due(requests[i]) /\ requests[i] \in Request
      /\ \A d \in dialogs : Due(d) /\ d \in Request
      /\ \A j \in DOMAIN inbox' : Due(inbox'[j]) /\ inbox'[j] \in Messages
  BY <1>1, ElementOfSeq DEF Calls, BusTyped
<1>8. Once'
  <2>1. \A k \in DOMAIN more : \A m \in Request \cup Messages :
          Due(m) => Differ(more[k], m) /\ Differ(m, more[k])
    BY <1>6 DEF Asked, Differ, IsCall
  <2>2. /\ \A k \in DOMAIN more : \A i \in DOMAIN requests : Differ(requests[i], more[k])
        /\ \A k \in DOMAIN more : \A d \in dialogs : Differ(more[k], d)
        /\ \A k \in DOMAIN more : \A j \in DOMAIN inbox' : Differ(more[k], inbox'[j])
    BY <1>7, <2>1
  <2> QED BY <2>2, OncePut DEF Hears, Asked
<1>9. Calls'
  <2>1. \A m \in Request : Carries(m)'
    BY Places DEF Carries, Afresh, Request
  <2>2. \A m \in Messages : Due(m) => Truthful(m)'
    <3> SUFFICES ASSUME NEW m \in Messages, Due(m), m.op = "bind", Live',
                        m.generation = backend'.generation
                 PROVE  FALSE
      BY DEF Truthful
    <3>1. IsCall(m) /\ backend'.kind # "over"
      BY DEF IsCall, Live
    <3> QED BY <1>3, <1>6, <3>1 DEF Due, Afresh, Live
  <2>3. (\A i \in DOMAIN requests : Due(requests[i]) /\ Carries(requests[i]))'
    <3> SUFFICES ASSUME NEW i \in DOMAIN requests', NEW m, m = requests'[i]
                 PROVE  Due(m)' /\ Carries(m)'
      BY DEF Due, Carries
    <3>1. m \in Request
      BY <1>2, ElementOfSeq
    <3>2. CASE i \in DOMAIN requests
      BY <1>2, <1>6, <1>7, <2>1, <3>1, <3>2
    <3>3. CASE \E k \in DOMAIN more : m = more[k]
      BY <1>3, <2>1, <3>1, <3>3, Places DEF Asked, Due, IsCall, Afresh
    <3> QED BY <1>2, <3>2, <3>3
  <2>4. (\A d \in dialogs : Due(d) /\ Carries(d) /\ d.op # "close")'
    BY <1>6, <1>7, <2>1 DEF Calls
  <2>5. (\A j \in DOMAIN inbox : Due(inbox[j]) /\ Truthful(inbox[j]))'
    <3> SUFFICES ASSUME NEW j \in DOMAIN inbox', NEW m, m = inbox'[j]
                 PROVE  Due(m)' /\ Truthful(m)'
      BY DEF Due, Truthful, Live
    <3> QED BY <1>6, <1>7, <2>2
  <2> QED BY <2>3, <2>4, <2>5 DEF Calls
<1>10. Closes'
  <2>1. ASSUME NEW g \in Generations, NEW i \in 0..Len(requests),
               g = backend.session \/ ClosedAfter(g, i)
        PROVE  ClosedAfter(g, i)'
    <3>1. g # 0 /\ i \in Nat /\ i <= Len(requests)
      BY <1>2, Places
    <3>2. \/ ClosedAfter(g, i)
          \/ \E k \in DOMAIN more : more[k].op = "close" /\ more[k].generation = g
      BY <2>1, <3>1 DEF Asked
    <3> QED BY <3>1, <3>2, ClosedInConcat
  <2>2. ClosesOld'
    <3> SUFFICES ASSUME NEW i \in DOMAIN requests', requests'[i].op = "close"
                 PROVE  backend'.kind = "over" \/ requests'[i].generation < backend'.generation
      BY DEF ClosesOld
    <3>1. CASE i \in DOMAIN requests
      <4>1. requests[i].generation \in Nat
        BY <1>7, <3>1, Places DEF Request
      <4> QED BY <1>2, <1>3, <3>1, <4>1 DEF Closes, ClosesOld, Afresh, Live
    <3>2. CASE \E k \in DOMAIN more : requests'[i] = more[k]
      <4>1. backend.session = backend.generation /\ requests'[i].generation = backend.generation
            /\ backend.kind = "portal"
        BY <3>2 DEF Asked, Session
      <4> QED BY <1>3, <4>1 DEF Afresh
    <3> QED BY <1>2, <3>1, <3>2
  <2>3. BindsClosed'
    <3> SUFFICES ASSUME NEW i \in DOMAIN requests', requests'[i].op = "bind"
                 PROVE  \E j \in DOMAIN requests' : /\ i < j /\ requests'[j].op = "close"
                                                    /\ requests'[j].generation = requests'[i].generation
      BY DEF BindsClosed, ClosedAfter
    <3>0. PICK g : g = requests'[i].generation
      OBVIOUS
    <3>1. i \in DOMAIN requests /\ requests'[i] = requests[i]
      BY <1>2 DEF Asked
    <3>2. g \in Generations /\ i \in 0..Len(requests) /\ (g = backend.session \/ ClosedAfter(g, i))
      BY <1>2, <1>7, <3>0, <3>1 DEF Request, Closes, BindsClosed
    <3>3. ClosedAfter(g, i)'
      BY <2>1, <3>2
    <3> QED BY <3>0, <3>3 DEF ClosedAfter
  <2>4. DialogsClosed'
    <3> SUFFICES ASSUME NEW d \in dialogs, NEW g, g = d.generation, d.op = "bind"
                 PROVE  ClosedAfter(g, 0)'
      BY DEF DialogsClosed, ClosedAfter
    <3>1. g \in Generations /\ 0 \in 0..Len(requests) /\ (g = backend.session \/ ClosedAfter(g, 0))
      BY <1>2, <1>7 DEF Request, Closes, DialogsClosed
    <3> QED BY <2>1, <3>1
  <2>5. BoundClosed'
    <3> SUFFICES ASSUME NEW g \in Generations, portal[g].state = "bound"
                 PROVE  ClosedAfter(g, 0)'
      BY DEF BoundClosed
    <3>1. 0 \in 0..Len(requests) /\ (g = backend.session \/ ClosedAfter(g, 0))
      BY <1>2 DEF Closes, BoundClosed
    <3> QED BY <2>1, <3>1
  <2> QED BY <2>2, <2>3, <2>4, <2>5 DEF Closes
<1> QED BY <1>4, <1>5, <1>8, <1>9, <1>10

\* The close of a session, when there is one.
LEMMA ClosingIs ==
  ASSUME HotkeyConstants, BackendTyped
  PROVE  /\ Closing \in Seq(Request) /\ DOMAIN Closing \subseteq {1}
         /\ \A k \in DOMAIN Closing : /\ Closing[k].op = "close" /\ backend.session # 0
                                      /\ Closing[k].generation = backend.session
         /\ backend.session # 0 => 1 \in DOMAIN Closing
<1>1. CASE backend.session = 0
  BY <1>1 DEF Closing
<1>2. CASE backend.session # 0
  <2> DEFINE c == [op |-> "close", generation |-> backend.session, list |-> << >>]
  <2>1. c \in Request
    BY <1>2 DEF BackendTyped, Backends, Request, HotkeyConstants
  <2>2. Closing = <<c>> /\ c.op = "close" /\ c.generation = backend.session
    BY <1>2 DEF Closing
  <2> HIDE DEF c
  <2> QED BY <1>2, <2>1, <2>2
<1> QED BY <1>1, <1>2

\* A registration that starts closes the session before, and asks for one.
LEMMA StartAsks ==
  ASSUME HotkeyConstants, BackendTyped, requests \in Seq(Request), NEW b \in Backends, StartPortal(b), b.kind = "portal"
  PROVE  /\ \E more \in Seq(Request) : requests' = requests \o more /\ Asked(more)
         /\ BackendTyped'
         /\ backend'.generation = b.generation /\ backend'.actions = b.actions
         /\ backend'.session = 0 /\ backend'.bound = 0 /\ backend'.kind = "portal"
         /\ backend'.failed = b.failed /\ backend'.reported = b.reported
<1>1. /\ BackendTyped'
      /\ backend'.generation = b.generation /\ backend'.actions = b.actions
      /\ backend'.session = 0 /\ backend'.bound = 0 /\ backend'.kind = "portal"
      /\ backend'.failed = b.failed /\ backend'.reported = b.reported
  <2>1. backend' = [b EXCEPT !.session = 0, !.bound = 0, !.registered = {}]
    BY DEF StartPortal
  <2> QED BY <2>1 DEF BackendTyped, Backends
<1> DEFINE cs == Closing
           r == Asking("create", b)
           cr == IF b.actions = << >> THEN << >> ELSE <<r>>
           more == cs \o cr
<1>2. /\ cs \in Seq(Request) /\ DOMAIN cs \subseteq {1}
      /\ \A k \in DOMAIN cs : /\ cs[k].op = "close" /\ backend.session # 0
                              /\ cs[k].generation = backend.session
      /\ backend.session # 0 => 1 \in DOMAIN cs
  BY ClosingIs
<1>3. requests' = requests \o cs \o cr
  BY DEF StartPortal
<1>4. r \in Request /\ r.op = "create" /\ r.generation = b.generation
  BY DEF Asking, Backends, Request, HotkeyConstants
<1> HIDE DEF cs, r
<1>5. cr \in Seq(Request) /\ DOMAIN cr \subseteq {1} /\ \A k \in DOMAIN cr : cr[k] = r
  BY <1>4
<1> HIDE DEF cr
<1>6. /\ more \in Seq(Request)
      /\ \A k \in DOMAIN more :
           \/ k = 1 /\ k \in DOMAIN cs /\ more[k] = cs[k]
           \/ k = Len(cs) + 1 /\ more[k] = r
      /\ \A k \in DOMAIN cs : k \in DOMAIN more /\ more[k] = cs[k]
  <2>1. /\ more \in Seq(Request) /\ Len(cs) \in Nat /\ Len(cr) \in Nat /\ Len(more) = Len(cs) + Len(cr)
        /\ DOMAIN cs = 1..Len(cs) /\ DOMAIN cr = 1..Len(cr) /\ DOMAIN more = 1..(Len(cs) + Len(cr))
        /\ \A k \in 1..(Len(cs) + Len(cr)) : more[k] = IF k <= Len(cs) THEN cs[k] ELSE cr[k - Len(cs)]
    BY <1>2, <1>5, ConcatProperties
  <2> HIDE DEF more
  <2>2. ASSUME NEW k \in DOMAIN more
        PROVE  \/ k = 1 /\ k \in DOMAIN cs /\ more[k] = cs[k]
               \/ k = Len(cs) + 1 /\ more[k] = r
    <3>1. CASE k <= Len(cs)
      BY <1>2, <2>1, <3>1
    <3>2. CASE k > Len(cs)
      <4>1. k - Len(cs) \in DOMAIN cr
        BY <2>1, <3>2
      <4>2. k - Len(cs) = 1 /\ more[k] = cr[k - Len(cs)]
        BY <1>5, <2>1, <3>2, <4>1
      <4>3. k = Len(cs) + 1
        BY <2>1, <4>2
      <4> QED BY <1>5, <4>1, <4>2, <4>3
    <3> QED BY <2>1, <3>1, <3>2
  <2> QED BY <2>1, <2>2
<1>7. requests' = requests \o more
  BY <1>2, <1>3, <1>5, ConcatAssociative
<1> HIDE DEF more
<1>8. Asked(more)
  <2>1. \A k \in DOMAIN more :
          \/ more[k].op = "close" /\ more[k].generation = backend.session /\ backend.session # 0
          \/ /\ more[k].op = "create" /\ more[k].generation = backend'.generation
             /\ backend'.kind = "portal"
    BY <1>1, <1>2, <1>4, <1>6
  <2>2. \A i, j \in DOMAIN more : i # j => Differ(more[i], more[j])
    BY <1>2, <1>6 DEF Differ, IsCall
  <2>3. backend.session # 0 =>
          1 \in DOMAIN more /\ more[1].op = "close" /\ more[1].generation = backend.session
    BY <1>2, <1>6
  <2> QED BY <2>1, <2>2, <2>3 DEF Asked
<1> QED BY <1>1, <1>6, <1>7, <1>8

\* The portal is detected, or there is none.
LEMMA DetectsKeeps ==
  ASSUME HotkeyConstants, HotkeyInv, Detects PROVE HotkeyInv'
<1>1. /\ TypeOK /\ Session /\ Once /\ Calls /\ Closes /\ Status /\ OpensMeant
      /\ BackendTyped /\ BusTyped /\ FallbackTyped /\ OpenedTyped /\ portal \in [Generations -> Sessions]
  BY TypeParts DEF HotkeyInv, Typed
<1>2. inbox # << >> /\ inbox' = Tail(inbox) /\ UNCHANGED <<desktop, dialogs, portal, opened>>
  BY DEF Detects, Gets
<1>3. CASE backend.kind # "pending"
  <2>1. UNCHANGED <<backend, requests, compositor, told, excused, counts>>
    BY <1>3 DEF Detects, fallback
  <2> QED BY <1>1, <1>2, <2>1, RestsKeeps DEF Hears, OpenedTyped, OpensMeant
<1>4. CASE backend.kind = "pending" /\ Gets("response", "version")
  <2> DEFINE b == [backend EXCEPT !.kind = "portal"]
  <2>1. StartPortal(b) /\ UNCHANGED <<compositor, told, excused, counts>>
    BY <1>4 DEF Detects, Gets, fallback
  <2>2. /\ b \in Backends /\ b.kind = "portal" /\ b.generation = backend.generation
        /\ b.actions = backend.actions /\ b.failed = backend.failed /\ b.reported = backend.reported
    BY <1>1 DEF BackendTyped, Backends
  <2> HIDE DEF b
  <2>3. /\ \E more \in Seq(Request) : requests' = requests \o more /\ Asked(more)
        /\ BackendTyped'
        /\ backend'.generation = b.generation /\ backend'.actions = b.actions
        /\ backend'.session = 0 /\ backend'.bound = 0 /\ backend'.kind = "portal"
        /\ backend'.failed = b.failed /\ backend'.reported = b.reported
    BY <1>1, <2>1, <2>2, StartAsks DEF BusTyped
  <2>4. BusTyped' /\ Session' /\ Once' /\ Calls' /\ Closes'
    BY <1>1, <1>2, <1>4, <2>2, <2>3, AfreshKeeps DEF Afresh, Hears
  <2>5. TypeOK'
    BY <1>1, <1>2, <2>1, <2>3, <2>4, TypeParts DEF Typed, FallbackTyped, OpenedTyped
  <2>6. Status' /\ OpensMeant'
    BY <1>1, <1>2, <1>4, <2>1, <2>2, <2>3 DEF Status, OpensMeant
  <2> QED BY <2>4, <2>5, <2>6 DEF HotkeyInv
<1>5. CASE backend.kind = "pending" /\ (Gets("rejected", "version") \/ Gets("error", "version"))
  <2> DEFINE b == [backend EXCEPT !.kind = "none"]
  <2>1. Fails(b) /\ UNCHANGED requests
    BY <1>5 DEF Detects, Gets
  <2>2. b \in Backends
    BY <1>1 DEF BackendTyped, Backends
  <2> QED BY <1>2, <1>5, <2>1, <2>2, FailsKeeps DEF Hears
<1> QED BY <1>3, <1>4, <1>5 DEF Detects

\* The launcher has another list.
LEMMA ReplaceKeeps ==
  ASSUME HotkeyConstants, HotkeyInv, NEW l \in Lists, Replace(l) PROVE HotkeyInv'
<1>1. /\ TypeOK /\ Session /\ Once /\ Calls /\ Closes /\ Status /\ OpensMeant
      /\ BackendTyped /\ BusTyped /\ FallbackTyped /\ OpenedTyped /\ portal \in [Generations -> Sessions]
  BY TypeParts DEF HotkeyInv, Typed
<1> DEFINE b == [backend EXCEPT !.generation = @ + 1, !.actions = l, !.failed = FALSE, !.reported = FALSE,
                               !.registered = IF backend.kind = "x11" THEN @ ELSE {}]
<1>2. /\ Live /\ backend.generation < MaxGenerations
      /\ UNCHANGED <<desktop, dialogs, inbox, portal, opened>>
      /\ \/ backend.kind = "portal" /\ StartPortal(b) /\ ClearExternal
         \/ backend.kind = "x11" /\ GrabX11(b) /\ UNCHANGED requests
         \/ /\ backend.kind \in {"pending", "none"} /\ UNCHANGED requests
            /\ IF l = << >> THEN backend' = b /\ ClearExternal
               ELSE IF backend.kind = "none" THEN Fails(b) ELSE backend' = b /\ UNCHANGED fallback
  BY DEF Replace
<1>3. /\ b \in Backends /\ b.generation = backend.generation + 1 /\ b.actions = l
      /\ b.kind = backend.kind /\ b.session = backend.session /\ b.bound = backend.bound
      /\ b.failed = FALSE /\ b.reported = FALSE
  <2>1. backend.generation + 1 \in Generations
    BY <1>1, <1>2 DEF BackendTyped, Backends, Generations, HotkeyConstants
  <2> QED BY <1>1, <2>1 DEF BackendTyped, Backends
<1> HIDE DEF b
<1>4. CASE backend.kind = "portal"
  <2>1. StartPortal(b) /\ ClearExternal
    BY <1>2, <1>4
  <2>2. /\ \E more \in Seq(Request) : requests' = requests \o more /\ Asked(more)
        /\ BackendTyped'
        /\ backend'.generation = b.generation /\ backend'.actions = b.actions
        /\ backend'.session = 0 /\ backend'.bound = 0 /\ backend'.kind = "portal"
        /\ backend'.failed = b.failed /\ backend'.reported = b.reported
    BY <1>1, <1>3, <1>4, <2>1, StartAsks DEF BusTyped
  <2>3. BusTyped' /\ Session' /\ Once' /\ Calls' /\ Closes'
    BY <1>1, <1>2, <1>3, <1>4, <2>2, AfreshKeeps DEF Afresh, Hears
  <2>4. FallbackTyped' /\ (compositor' # << >> => excused')
    BY <1>1, <2>1, ClearExternalDoes
  <2>5. TypeOK'
    BY <1>1, <1>2, <2>2, <2>3, <2>4, TypeParts DEF Typed, OpenedTyped
  <2>6. Status' /\ OpensMeant'
    BY <1>1, <1>2, <1>3, <2>2, <2>4 DEF Status, OpensMeant
  <2> QED BY <2>3, <2>5, <2>6 DEF HotkeyInv
<1>5. ASSUME UNCHANGED requests, backend.kind # "portal", BackendTyped', FallbackTyped',
             backend'.generation = b.generation, backend'.session = b.session,
             backend'.bound = b.bound, backend'.kind = b.kind, Status'
      PROVE  HotkeyInv'
  <2> DEFINE more == << >>
  <2>1. more \in Seq(Request) /\ requests' = requests \o more /\ DOMAIN more = {}
    BY <1>1, <1>5 DEF BusTyped
  <2> HIDE DEF more
  <2>2. backend.session = 0 /\ backend.bound = 0
    BY <1>1, <1>5 DEF Session
  <2>3. Asked(more) /\ Afresh /\ Hears
    BY <1>2, <1>3, <1>5, <2>1, <2>2 DEF Asked, Afresh, Hears
  <2>4. BusTyped' /\ Session' /\ Once' /\ Calls' /\ Closes'
    BY <1>1, <1>2, <1>5, <2>1, <2>3, AfreshKeeps
  <2>5. TypeOK' /\ OpensMeant'
    BY <1>1, <1>2, <1>5, <2>4, TypeParts DEF Typed, OpenedTyped, OpensMeant
  <2> QED BY <1>5, <2>4, <2>5 DEF HotkeyInv
<1>6. CASE backend.kind = "x11"
  <2>1. PICK ids \in SUBSET DOMAIN l :
          IF ids = DOMAIN l THEN backend' = [b EXCEPT !.registered = ids] /\ UNCHANGED fallback
          ELSE Fails([b EXCEPT !.registered = ids])
    BY <1>2, <1>3, <1>6 DEF GrabX11
  <2> DEFINE c == [b EXCEPT !.registered = ids]
  <2>2. /\ c \in Backends /\ c.generation = b.generation /\ c.actions = l
        /\ c.kind = "x11" /\ c.session = b.session /\ c.bound = b.bound
        /\ c.failed = FALSE /\ c.reported = FALSE /\ c.registered = ids
    <3>1. ids \in SUBSET Ids
      BY <2>1, Places
    <3> QED BY <1>3, <1>6, <3>1 DEF Backends
  <2>3. UNCHANGED requests
    BY <1>2, <1>6
  <2>4. CASE ids = DOMAIN l
    <3>1. backend' = c /\ UNCHANGED <<compositor, told, excused, counts>>
      BY <2>1, <2>4 DEF fallback
    <3> HIDE DEF c
    <3>2. Status' /\ BackendTyped' /\ FallbackTyped'
      BY <1>1, <2>2, <2>4, <3>1 DEF Status, BackendTyped, FallbackTyped
    <3> QED BY <1>3, <1>5, <1>6, <2>2, <2>3, <3>1, <3>2
  <2>5. CASE ids # DOMAIN l
    <3>1. Fails(c)
      BY <2>1, <2>5
    <3> HIDE DEF c
    <3>2. l # << >>
      BY <2>1, <2>5, Places
    <3>3. Noted(c)
      BY <2>2 DEF Noted
    <3>4. /\ FallbackTyped' /\ BackendTyped'
          /\ backend'.generation = c.generation /\ backend'.actions = c.actions
          /\ backend'.session = c.session /\ backend'.bound = c.bound /\ backend'.kind = c.kind
          /\ backend'.failed = backend'.reported
          /\ backend'.failed /\ (compositor' = c.actions \/ told')
      BY <1>1, <2>2, <3>1, <3>2, <3>3, FailsNoted
    <3>5. Status'
      BY <2>2, <3>4 DEF Status
    <3> QED BY <1>3, <1>5, <1>6, <2>2, <2>3, <3>4, <3>5
  <2> QED BY <2>4, <2>5
<1>7. CASE backend.kind = "none" /\ l # << >>
  <2>1. Fails(b) /\ UNCHANGED requests /\ Noted(b)
    BY <1>2, <1>3, <1>7 DEF Noted
  <2>2. /\ FallbackTyped' /\ BackendTyped'
        /\ backend'.generation = b.generation /\ backend'.actions = b.actions
        /\ backend'.session = b.session /\ backend'.bound = b.bound /\ backend'.kind = b.kind
        /\ backend'.failed = backend'.reported
        /\ backend'.failed /\ (compositor' = b.actions \/ told')
    BY <1>1, <1>3, <1>7, <2>1, FailsNoted
  <2>3. Status'
    BY <1>3, <1>7, <2>2 DEF Status
  <2> QED BY <1>5, <1>7, <2>1, <2>2, <2>3
<1>8. CASE backend.kind \in {"pending", "none"} /\ l = << >>
  <2>1. backend' = b /\ ClearExternal /\ UNCHANGED requests
    BY <1>2, <1>8
  <2>2. FallbackTyped' /\ (compositor' # << >> => excused')
    BY <1>1, <2>1, ClearExternalDoes
  <2>3. Status' /\ BackendTyped'
    BY <1>3, <1>8, <2>1, <2>2 DEF Status, BackendTyped
  <2> QED BY <1>5, <1>8, <2>1, <2>2, <2>3
<1>9. CASE backend.kind = "pending" /\ l # << >>
  <2>1. backend' = b /\ UNCHANGED <<compositor, told, excused, counts, requests>>
    BY <1>2, <1>9 DEF fallback
  <2>2. Status' /\ BackendTyped' /\ FallbackTyped'
    BY <1>1, <1>3, <1>9, <2>1 DEF Status, BackendTyped, FallbackTyped
  <2> QED BY <1>5, <1>9, <2>1, <2>2
<1> QED BY <1>2, <1>4, <1>6, <1>7, <1>8, <1>9

\* The launcher ends.
LEMMA DestroyKeeps ==
  ASSUME HotkeyConstants, HotkeyInv, Destroy PROVE HotkeyInv'
<1>1. /\ TypeOK /\ Session /\ Once /\ Calls /\ Closes /\ Status /\ OpensMeant
      /\ BackendTyped /\ BusTyped /\ FallbackTyped /\ OpenedTyped /\ portal \in [Generations -> Sessions]
  BY TypeParts DEF HotkeyInv, Typed
<1>2. /\ Live /\ requests' = requests \o Closing
      /\ backend' = [backend EXCEPT !.kind = "over", !.session = 0, !.bound = 0, !.registered = {}]
      /\ UNCHANGED <<desktop, dialogs, inbox, portal, compositor, told, excused, counts, opened>>
  BY DEF Destroy, fallback
<1>3. /\ BackendTyped' /\ backend'.generation = backend.generation /\ backend'.kind = "over"
      /\ backend'.session = 0 /\ backend'.bound = 0 /\ backend'.actions = backend.actions
      /\ backend'.failed = backend.failed /\ backend'.reported = backend.reported
  BY <1>1, <1>2 DEF BackendTyped, Backends
<1>4. /\ Closing \in Seq(Request) /\ DOMAIN Closing \subseteq {1}
      /\ \A k \in DOMAIN Closing : /\ Closing[k].op = "close" /\ backend.session # 0
                                   /\ Closing[k].generation = backend.session
      /\ backend.session # 0 => 1 \in DOMAIN Closing
  BY <1>1, ClosingIs
<1>5. BusTyped' /\ Session' /\ Once' /\ Calls' /\ Closes'
  <2>1. Asked(Closing)
    BY <1>4 DEF Asked
  <2> QED BY <1>1, <1>2, <1>3, <1>4, <2>1, AfreshKeeps DEF Afresh, Hears
<1>6. TypeOK' /\ Status' /\ OpensMeant'
  BY <1>1, <1>2, <1>3, <1>5, TypeParts DEF Typed, FallbackTyped, OpenedTyped, Status, OpensMeant
<1> QED BY <1>5, <1>6 DEF HotkeyInv

-----------------------------------------------------------------------------
(* The theorems.                                                           *)

\* The invariant holds at first.
LEMMA InitHolds == ASSUME HotkeyConstants, Init PROVE HotkeyInv
<1>1. PICK l \in Lists, kind \in {"pending", "none", "x11"}, grabbed \in SUBSET Ids :
        /\ IF desktop = "x11" THEN kind # "pending" ELSE kind = "pending"
        /\ grabbed \subseteq DOMAIN l /\ (kind # "x11" => grabbed = {})
        /\ told = (kind # "pending" /\ grabbed # DOMAIN l)
        /\ backend = [generation |-> 1, actions |-> l, kind |-> kind, session |-> 0, bound |-> 0,
                      registered |-> grabbed, failed |-> told, reported |-> told]
  BY DEF Init
<1>2. /\ desktop \in Desktops /\ dialogs = {} /\ inbox = << >> /\ compositor \in Lists
      /\ portal = [g \in Generations |-> [state |-> "none", list |-> << >>, ids |-> {}]]
      /\ opened = [opens |-> "nothing", meant |-> "nothing"]
      /\ excused = (compositor # << >>) /\ counts = [presses |-> 0, failures |-> 0]
  BY DEF Init
<1> DEFINE v == [op |-> "version", generation |-> 1, list |-> << >>]
<1>3. /\ requests \in Seq(Request)
      /\ \A i, j \in DOMAIN requests : i = j /\ requests[i].op = "version"
  <2>1. v \in Request /\ v.op = "version"
    BY Places DEF Request, HotkeyConstants
  <2>2. requests = << >> \/ requests = <<v>>
    BY DEF Init
  <2> HIDE DEF v
  <2>3. <<v>> \in Seq(Request) /\ DOMAIN <<v>> = {1} /\ <<v>>[1] = v
    BY <2>1
  <2>4. << >> \in Seq(Request) /\ DOMAIN << >> = {}
    OBVIOUS
  <2>5. CASE requests = <<v>>
    BY <2>1, <2>3, <2>5
  <2>6. CASE requests = << >>
    BY <2>4, <2>6
  <2> QED BY <2>2, <2>5, <2>6
<1>4. told \in BOOLEAN
  BY <1>1
<1>5. TypeOK
  <2>1. BackendTyped
    BY <1>1, <1>4, Places DEF BackendTyped, Backends
  <2>2. portal \in [Generations -> Sessions]
    BY <1>2 DEF Sessions, HotkeyConstants
  <2>3. FallbackTyped /\ OpenedTyped
    BY <1>2, <1>4 DEF FallbackTyped, OpenedTyped, HotkeyConstants
  <2>4. BusTyped
    BY <1>2, <1>3 DEF BusTyped
  <2> QED BY <1>2, <2>1, <2>2, <2>3, <2>4, TypeParts DEF Typed
<1>6. Session
  BY <1>1 DEF Session
<1>7. Once /\ Calls /\ Closes
  BY <1>2, <1>3 DEF Once, Calls, Due, IsCall, Differ, Carries, Closes, ClosesOld, BindsClosed,
     DialogsClosed, BoundClosed
<1>8. Status
  BY <1>1, <1>2, <1>4, Places DEF Status
<1> QED BY <1>2, <1>5, <1>6, <1>7, <1>8 DEF HotkeyInv, OpensMeant

\* Every step keeps it.
LEMMA StepKeeps == ASSUME HotkeyConstants, HotkeyInv, [Next]_vars PROVE HotkeyInv'
<1>1. CASE UNCHANGED vars
  <2>1. UNCHANGED <<desktop, backend, requests, dialogs, inbox, portal, compositor, told, excused,
                    counts, opened>>
    BY <1>1 DEF vars, bus, fallback
  <2>2. OpenedTyped' /\ OpensMeant'
    BY <2>1, TypeParts DEF HotkeyInv, Typed, OpenedTyped, OpensMeant
  <2> QED BY <2>1, <2>2, RestsKeeps DEF Hears
<1>2. CASE Bus
  BY <1>2, TakesKeeps, RespondsKeeps, DetectsKeeps, CreatedKeeps, BoundKeeps, RejectedKeeps,
     ActivatedKeeps DEF Bus
<1>3. CASE Refuses \/ Press \/ TimesOut
  BY <1>3, RefusesKeeps, PressKeeps, RejectedKeeps
<1>4. CASE (\E l \in Lists : Replace(l)) \/ Setup \/ Destroy
  BY <1>4, ReplaceKeeps, SetupKeeps, DestroyKeeps
<1> QED BY <1>1, <1>2, <1>3, <1>4 DEF Next

\* The invariant gives what the launcher relies on.
LEMMA InvSound == ASSUME HotkeyConstants, HotkeyInv PROVE HotkeySound
<1>1. /\ TypeOK /\ Session /\ Once /\ Calls /\ Closes /\ Status /\ OpensMeant
      /\ BackendTyped /\ portal \in [Generations -> Sessions]
  BY TypeParts DEF HotkeyInv, Typed
<1>2. StatusTrue
  <2>1. ASSUME Registered, backend.kind = "portal", backend.actions # << >>
        PROVE  /\ backend.session # 0
               /\ portal[backend.session] =
                    [state |-> "bound", list |-> backend.actions, ids |-> DOMAIN backend.actions]
    <3>1. backend.bound = backend.generation /\ backend.bound # 0
      BY <1>1, <2>1, Places DEF Registered, Pending, BackendTyped, Backends
    <3> QED BY <1>1, <3>1 DEF Session
  <2>2. \A g \in Generations : portal[g].state = "bound" =>
          g = backend.session \/ \E i \in DOMAIN requests : requests[i].op = "close" /\ requests[i].generation = g
    BY <1>1 DEF Closes, BoundClosed, ClosedAfter
  <2> QED BY <2>1, <2>2 DEF StatusTrue
<1>3. Works
  <2> SUFFICES ASSUME Live, ~Pending, backend.actions # << >>, ~backend.failed PROVE Registered
    BY <1>1 DEF Works, Status
  <2> QED BY <1>1, Places DEF Live, Pending, Registered, Status, Session, BackendTyped, Backends
<1>4. NoDouble
  BY <1>1 DEF NoDouble, Twice, Status
<1> QED BY <1>1, <1>2, <1>3, <1>4 DEF HotkeySound

\* Of every list at most one call is under way, what is bound is the known session or is
\* closed after it, and every failure is noted (hotkey-backend.cpp, main.cpp).
THEOREM HotkeyInvariant == HotkeyConstants => (Spec => []HotkeyInv)
<1> SUFFICES ASSUME HotkeyConstants PROVE Spec => []HotkeyInv
  OBVIOUS
<1>1. Init => HotkeyInv
  BY InitHolds
<1>2. HotkeyInv /\ [Next]_vars => HotkeyInv'
  BY StepKeeps
<1> QED BY <1>1, <1>2, PTL DEF Spec

\* For any lists and any order of answers: a hotkey opens what it was pressed for, what is
\* reported as registered is bound, every other list is in the compositor or was told, and no
\* key is bound twice without an excuse.
THEOREM HotkeysAreSound == HotkeyConstants => (Spec => []HotkeySound)
<1> SUFFICES ASSUME HotkeyConstants PROVE Spec => []HotkeySound
  OBVIOUS
<1>1. Spec => []HotkeyInv
  BY HotkeyInvariant
<1>2. HotkeyInv => HotkeySound
  BY InvSound
<1> QED BY <1>1, <1>2, PTL

-----------------------------------------------------------------------------
(* The control socket: the invariant.                                        *)

LauncherTypes ==
  /\ server \in [Launchers -> Stages] /\ shutting \in [Launchers -> BOOLEAN]
  /\ lockfile \in Nat \ {0} /\ locks \in [Launchers -> Nat]
  /\ path \in {None} \cup [owner : Launchers, live : BOOLEAN]
  /\ starts \in 0..MaxStarts /\ born \in [Launchers -> 0..MaxStarts]
RequestTypes ==
  /\ served \in [Launchers -> SUBSET Clients] /\ finished \in [Launchers -> Nat]
  /\ conn \in [Clients -> Launchers \cup {None}] /\ turn \in [Clients -> {"none", "reading", "done", "refused"}]
  /\ reply \in [Clients -> {"none", "OK", "PENDING", "ERROR", "closed"}]
  /\ executed \in [Clients -> Nat]
  /\ client \in [Clients -> {"begin", "connected", "sent"} \cup Ended]
EtctlTypes ==
  /\ child \in [Clients -> 0..MaxStarts] /\ late \in [Clients -> BOOLEAN]
WithinLimit == \A l \in Launchers : Cardinality(served[l]) <= Limit

\* There is one lock file, which all that get so far have open; one of them holds its lock.
OneFile == \A l \in Launchers : server[l] \in Locked \cup {"opened"} => locks[l] = lockfile
OneOwner == \A l, m \in Launchers : server[l] \in Locked /\ server[m] \in Locked => l = m

\* A launcher serves while it is up, and only those that are connected to it.
ServesOwn ==
  \A l \in Launchers : /\ server[l] # "up" => served[l] = {}
                       /\ \A c \in served[l] : conn[c] = l

\* A connection has no answer so far; without one nothing is being handled.
Unanswered ==
  \A c \in Clients : /\ conn[c] # None => reply[c] = "none" /\ client[c] # "begin"
                     /\ conn[c] = None => turn[c] = "none"

\* What opens something has been carried out if its handler says so, or its answer.
CarriedOnce ==
  \A c \in Clients \ Setups :
    /\ executed[c] \in {0, 1}
    /\ executed[c] = 1 => client[c] # "begin" /\ (conn[c] # None => turn[c] = "done")
    /\ executed[c] = 0 => turn[c] # "done" /\ reply[c] # "OK" /\ client[c] # "ok"

LockInvariant == LauncherTypes /\ OneFile /\ OneOwner /\ Reachable /\ FreeToBind
RequestInvariant == RequestTypes /\ WithinLimit /\ ServesOwn /\ Unanswered /\ CarriedOnce
SocketInvariant == LockInvariant /\ RequestInvariant /\ EtctlTypes

\* The parts make up the types that the module names.
LEMMA SocketTypes == SocketTypeOK <=> LauncherTypes /\ RequestTypes /\ EtctlTypes /\ WithinLimit
BY DEF SocketTypeOK, LauncherTypes, RequestTypes, EtctlTypes, WithinLimit

\* The stages in which a launcher holds the lock, and all the stages.
LEMMA StageFacts ==
  /\ Locked \subseteq Stages
  /\ \A s \in {"off", "starting", "opened", "without"} : s \in Stages /\ s \notin Locked
  /\ \A s \in {"locked", "clean", "bound", "up", "closing", "unlinked"} : s \in Locked
BY DEF Locked, Stages

-----------------------------------------------------------------------------
(* The lock and the name of the socket.                                      *)

\* Whoever leaves both alone and starts no launcher.
LEMMA LockRests ==
  ASSUME LockInvariant, UNCHANGED <<files, launchers>>
  PROVE  LockInvariant'
BY DEF LockInvariant, LauncherTypes, OneFile, OneOwner, Reachable, FreeToBind, files, launchers,
       Locked

\* Of a launcher that goes on, the new stage is what matters.
LEMMA StageSet ==
  ASSUME LauncherTypes, NEW l \in Launchers, NEW s \in Stages, To(l, s)
  PROVE  /\ server' \in [Launchers -> Stages] /\ server'[l] = s
         /\ \A m \in Launchers \ {l} : server'[m] = server[m]
BY DEF LauncherTypes, To

\* The same of the lock file it has open.
LEMMA LockClosed ==
  ASSUME LauncherTypes, NEW l \in Launchers, CloseLock(l)
  PROVE  /\ locks' \in [Launchers -> Nat] /\ \A m \in Launchers \ {l} : locks'[m] = locks[m]
BY DEF LauncherTypes, CloseLock

\* A launcher leaves the lock: it had it, or not, and the name stays that of the others.
LEMMA Leaves ==
  ASSUME LockInvariant, NEW l \in Launchers, NEW s \in {"off", "without"}, To(l, s), CloseLock(l),
         UNCHANGED <<lockfile, shutting, starts, born>>,
         path' \in {None} \cup [owner : Launchers, live : BOOLEAN],
         path # None /\ path.owner # l => path' = path,
         path = None => path' = None
  PROVE  LockInvariant'
<1>1. /\ server' \in [Launchers -> Stages] /\ server'[l] = s
      /\ \A m \in Launchers \ {l} : server'[m] = server[m]
  BY StageSet, StageFacts DEF LockInvariant
<1>2. locks' \in [Launchers -> Nat] /\ \A m \in Launchers \ {l} : locks'[m] = locks[m]
  BY LockClosed DEF LockInvariant
<1>3. \A m \in Launchers : server'[m] \in Locked \cup {"opened", "clean", "bound", "up"} =>
        m # l /\ server[m] = server'[m] /\ locks'[m] = locks[m]
  BY <1>1, <1>2, StageFacts
<1>4. LauncherTypes'
  BY <1>1, <1>2 DEF LockInvariant, LauncherTypes
<1>5. OneFile' /\ OneOwner'
  BY <1>3 DEF LockInvariant, OneFile, OneOwner
<1>6. Reachable' /\ FreeToBind'
  BY <1>3 DEF LockInvariant, Reachable, FreeToBind
<1> QED
  BY <1>4, <1>5, <1>6 DEF LockInvariant

\* The owner of the lock, or one that becomes it, goes on: the name is its own.
LEMMA Proceeds ==
  ASSUME LockInvariant, NEW l \in Launchers, NEW s \in Locked, To(l, s), locks[l] = lockfile,
         \A m \in Launchers \ {l} : server[m] \notin Locked,
         UNCHANGED <<lockfile, locks, shutting, starts, born>>,
         path' \in {None} \cup [owner : Launchers, live : BOOLEAN],
         s \in {"bound", "up"} => path' = [owner |-> l, live |-> TRUE],
         s = "clean" => path' = None
  PROVE  LockInvariant'
<1>1. /\ server' \in [Launchers -> Stages] /\ server'[l] = s
      /\ \A m \in Launchers \ {l} : server'[m] = server[m]
  BY StageSet, StageFacts DEF LockInvariant
<1>2. LauncherTypes'
  BY <1>1 DEF LockInvariant, LauncherTypes
<1>3. OneFile'
  BY <1>1 DEF LockInvariant, OneFile
<1>4. \A m \in Launchers : server'[m] \in Locked => m = l
  BY <1>1
<1>5. OneOwner'
  BY <1>4 DEF OneOwner
<1>6. Reachable' /\ FreeToBind'
  BY <1>1, <1>4, StageFacts DEF Reachable, FreeToBind
<1> QED
  BY <1>2, <1>3, <1>5, <1>6 DEF LockInvariant

\* The one owner is the one with the lock.
LEMMA OnlyOwner ==
  ASSUME LockInvariant, NEW l \in Launchers, server[l] \in Locked
  PROVE  locks[l] = lockfile /\ \A m \in Launchers \ {l} : server[m] \notin Locked
BY DEF LockInvariant, OneFile, OneOwner

\* Before it has the lock: a launcher starts, and opens the file.
LEMMA Approaches ==
  ASSUME LockInvariant, NEW l \in Launchers, NEW s \in {"off", "starting", "opened", "without"},
         To(l, s), server[l] \notin Locked, path' = path, lockfile' = lockfile,
         shutting' \in [Launchers -> BOOLEAN], locks' \in [Launchers -> Nat],
         starts' \in 0..MaxStarts, born' \in [Launchers -> 0..MaxStarts],
         s = "opened" => locks'[l] = lockfile,
         \A m \in Launchers \ {l} : locks'[m] = locks[m]
  PROVE  LockInvariant'
<1>1. /\ server' \in [Launchers -> Stages] /\ server'[l] = s
      /\ \A m \in Launchers \ {l} : server'[m] = server[m]
  BY StageSet, StageFacts DEF LockInvariant
<1>2. LauncherTypes'
  BY <1>1 DEF LockInvariant, LauncherTypes
<1>3. \A m \in Launchers : server'[m] \in Locked => m # l /\ server[m] = server'[m]
  BY <1>1, StageFacts
<1>4. OneFile'
  BY <1>1, <1>3 DEF LockInvariant, OneFile
<1>5. OneOwner'
  BY <1>3 DEF LockInvariant, OneOwner
<1>6. Reachable' /\ FreeToBind'
  BY <1>3, StageFacts DEF LockInvariant, Reachable, FreeToBind
<1> QED
  BY <1>2, <1>4, <1>5, <1>6 DEF LockInvariant

\* A launcher starts, for whomever.
LEMMA StartedKeeps ==
  ASSUME LockInvariant, NEW l \in Launchers, Started(l), UNCHANGED files
  PROVE  LockInvariant'
<1>1. /\ shutting' \in [Launchers -> BOOLEAN] /\ starts' \in 0..MaxStarts
      /\ born' \in [Launchers -> 0..MaxStarts]
  BY ControlAssumption DEF LockInvariant, LauncherTypes, Started
<1>2. To(l, "starting") /\ server[l] \notin Locked /\ path' = path /\ lockfile' = lockfile /\ locks' = locks
  BY StageFacts DEF Started, files
<1>3. locks' \in [Launchers -> Nat]
  BY <1>2 DEF LockInvariant, LauncherTypes
<1> QED
  BY <1>1, <1>2, <1>3, Approaches

\* A failed creation closes the lock and leaves the name alone.
LEMMA GivenUp ==
  ASSUME LockInvariant, NEW l \in Launchers, GivesUp(l),
         UNCHANGED <<lockfile, shutting, starts, born>>
  PROVE  LockInvariant'
<1>1. To(l, "without") /\ CloseLock(l) /\ path' = path
  BY DEF GivesUp, UnlinksUnbound
<1>2. path' \in {None} \cup [owner : Launchers, live : BOOLEAN]
  BY <1>1 DEF LockInvariant, LauncherTypes
<1> QED
  BY <1>1, <1>2, Leaves

\* A step of the creation or destruction of a control server.
LEMMA LauncherKeepsLock ==
  ASSUME LockInvariant, NEW l \in Launchers, LauncherStep(l)
  PROVE  LockInvariant'
<1>t. path \in {None} \cup [owner : Launchers, live : BOOLEAN] /\ locks \in [Launchers -> Nat]
      /\ lockfile \in Nat /\ shutting \in [Launchers -> BOOLEAN] /\ starts \in 0..MaxStarts
      /\ born \in [Launchers -> 0..MaxStarts]
  BY DEF LockInvariant, LauncherTypes
<1>n. None \in {None} \cup [owner : Launchers, live : BOOLEAN]
      /\ [owner |-> l, live |-> TRUE] \in {None} \cup [owner : Launchers, live : BOOLEAN]
  OBVIOUS
<1>1. CASE Start(l)
  BY <1>1, StartedKeeps DEF Start
<1>2. CASE OpenLock(l)
  <2>0. /\ server[l] \notin Locked /\ path' = path /\ lockfile' = lockfile /\ shutting' = shutting
        /\ starts' = starts /\ born' = born
    BY <1>2, StageFacts DEF OpenLock
  <2>1. CASE To(l, "opened") /\ locks' = [locks EXCEPT ![l] = lockfile]
    <3>1. locks' \in [Launchers -> Nat] /\ locks'[l] = lockfile
          /\ \A m \in Launchers \ {l} : locks'[m] = locks[m]
      BY <1>t, <2>1
    <3> QED BY <1>t, <2>0, <2>1, <3>1, Approaches
  <2>2. CASE To(l, "without") /\ UNCHANGED locks
    BY <1>t, <2>0, <2>2, Approaches
  <2> QED BY <1>2, <2>1, <2>2 DEF OpenLock
<1>3. CASE TakeLock(l)
  <2>0. UNCHANGED <<lockfile, shutting, starts, born>> /\ server[l] = "opened"
    BY <1>3 DEF TakeLock
  <2>1. CASE Taken(locks[l])
    BY <1>3, <2>0, <2>1, GivenUp DEF TakeLock
  <2>2. CASE ~Taken(locks[l])
    <3>1. To(l, "locked") /\ locks' = locks /\ path' = path
      BY <1>3, <2>2 DEF TakeLock
    <3>2. locks[l] = lockfile
      BY <2>0 DEF LockInvariant, OneFile
    <3>3. \A m \in Launchers \ {l} : server[m] \notin Locked
      BY <2>2, <3>2 DEF LockInvariant, OneFile, Taken
    <3> QED BY <1>t, <2>0, <3>1, <3>2, <3>3, StageFacts, Proceeds
  <2> QED BY <2>1, <2>2
<1>4. CASE Reclaim(l)
  <2>0. UNCHANGED <<lockfile, shutting, starts, born>> /\ server[l] \in Locked
    BY <1>4, StageFacts DEF Reclaim
  <2>1. CASE To(l, "clean") /\ path' = None /\ UNCHANGED locks
    BY <1>n, <2>0, <2>1, StageFacts, OnlyOwner, Proceeds
  <2>2. CASE GivesUp(l)
    BY <2>0, <2>2, GivenUp
  <2> QED BY <1>4, <2>1, <2>2 DEF Reclaim
<1>5. CASE Bind(l)
  <2>0. UNCHANGED <<lockfile, shutting, starts, born>> /\ server[l] \in Locked
    BY <1>5, StageFacts DEF Bind
  <2>1. CASE To(l, "bound") /\ path' = [owner |-> l, live |-> TRUE] /\ UNCHANGED locks
    BY <1>n, <2>0, <2>1, StageFacts, OnlyOwner, Proceeds
  <2>2. CASE GivesUp(l)
    BY <2>0, <2>2, GivenUp
  <2> QED BY <1>5, <2>1, <2>2 DEF Bind
<1>6. CASE Listen(l)
  <2>0. /\ UNCHANGED <<lockfile, locks, shutting, starts, born>> /\ path' = path
        /\ server[l] \in Locked /\ server[l] = "bound"
    BY <1>6, StageFacts DEF Listen, files
  <2>1. path = [owner |-> l, live |-> TRUE]
    BY <2>0 DEF LockInvariant, Reachable
  <2>2. PICK s \in {"up", "closing"} : To(l, s)
    BY <1>6 DEF Listen
  <2> QED BY <1>t, <2>0, <2>1, <2>2, StageFacts, OnlyOwner, Proceeds
<1>7. CASE Quit(l)
  <2>1. UNCHANGED <<files, server, starts, born>> /\ shutting' \in [Launchers -> BOOLEAN]
    BY <1>7, <1>t DEF Quit
  <2> QED BY <2>1 DEF LockInvariant, LauncherTypes, OneFile, OneOwner, Reachable, FreeToBind, files,
                      Locked
<1>8. CASE Shutdown(l)
  <2>0. /\ UNCHANGED <<lockfile, locks, shutting, starts, born>> /\ path' = path
        /\ server[l] \in Locked /\ To(l, "closing")
    BY <1>8, StageFacts DEF Shutdown, files
  <2> QED BY <1>t, <2>0, StageFacts, OnlyOwner, Proceeds
<1>9. CASE UnlinkSocket(l)
  <2>0. /\ UNCHANGED <<lockfile, locks, shutting, starts, born>> /\ path' = None
        /\ server[l] \in Locked /\ To(l, "unlinked")
    BY <1>9, StageFacts DEF UnlinkSocket
  <2> QED BY <1>n, <2>0, StageFacts, OnlyOwner, Proceeds
<1>10. CASE Release(l)
  <2>0. /\ UNCHANGED <<lockfile, shutting, starts, born>> /\ path' = path /\ CloseLock(l)
    BY <1>10 DEF Release, LockfileAfter
  <2>1. PICK s \in {"off", "without"} : To(l, s)
    BY <1>10 DEF Release
  <2> QED BY <1>t, <2>0, <2>1, Leaves
<1>11. CASE End(l)
  <2>0. /\ UNCHANGED <<lockfile, locks, shutting, starts, born>> /\ path' = path
        /\ server[l] \notin Locked /\ To(l, "off")
    BY <1>11, StageFacts DEF End, files
  <2> QED BY <1>t, <2>0, Approaches
<1>12. CASE Crash(l)
  <2>0. /\ UNCHANGED <<lockfile, shutting, starts, born>> /\ CloseLock(l) /\ To(l, "off")
        /\ path' = IF path # None /\ path.owner = l THEN [path EXCEPT !.live = FALSE] ELSE path
    BY <1>12 DEF Crash
  <2>1. /\ path' \in {None} \cup [owner : Launchers, live : BOOLEAN]
        /\ path # None /\ path.owner # l => path' = path
        /\ path = None => path' = None
    BY <2>0, <1>t
  <2> QED BY <2>0, <2>1, Leaves
<1> QED
  BY <1>1, <1>2, <1>3, <1>4, <1>5, <1>6, <1>7, <1>8, <1>9, <1>10, <1>11, <1>12 DEF LauncherStep

-----------------------------------------------------------------------------
(* The clients that are served.                                              *)

\* Fewer are served; nobody is added.
LEMMA FewerServed ==
  ASSUME RequestTypes, WithinLimit, served' \in [Launchers -> SUBSET Clients],
         \A m \in Launchers : served'[m] \subseteq served[m]
  PROVE  WithinLimit'
<1> SUFFICES ASSUME NEW m \in Launchers PROVE Cardinality(served'[m]) <= Limit
  BY DEF WithinLimit
<1>1. IsFiniteSet(served[m])
  BY ControlAssumption, FS_Subset DEF RequestTypes
<1>2. Cardinality(served[m]) \in Nat /\ IsFiniteSet(served'[m]) /\ Cardinality(served'[m]) \in Nat
      /\ Cardinality(served'[m]) <= Cardinality(served[m])
  BY <1>1, FS_Subset, FS_CardinalityType
<1>3. Cardinality(served[m]) <= Limit /\ Limit \in Nat
  BY ControlAssumption DEF WithinLimit
<1> QED
  BY <1>2, <1>3

\* Whoever leaves the requests alone, and ends no serving.
LEMMA RequestsRest ==
  ASSUME RequestInvariant, UNCHANGED <<tasks, request>>, NEW c \in Clients,
         client' \in [Clients -> {"begin", "connected", "sent"} \cup Ended],
         \A d \in Clients \ {c} : client'[d] = client[d],
         client'[c] = client[c] \/ (client[c] # "begin" /\ client'[c] # "begin" /\ client'[c] # "ok")
           \/ (client[c] = "begin" /\ client'[c] # "ok"),
         \A l \in Launchers : server[l] = "up" => server'[l] = "up"
  PROVE  RequestInvariant'
<1>1. RequestTypes' /\ WithinLimit'
  BY DEF RequestInvariant, RequestTypes, WithinLimit, tasks, request
<1>2. ServesOwn'
  BY DEF RequestInvariant, ServesOwn, tasks, request
<1>3. Unanswered'
  BY DEF RequestInvariant, Unanswered, request
<1>4. CarriedOnce'
  BY DEF RequestInvariant, CarriedOnce, request
<1> QED
  BY <1>1, <1>2, <1>3, <1>4 DEF RequestInvariant

\* Connections are closed, and those that are served on them are let go.
LEMMA ClosingKeeps ==
  ASSUME RequestInvariant, NEW gone \in SUBSET Clients, CloseConnections(gone), UNCHANGED client,
         served' \in [Launchers -> SUBSET Clients], finished' \in [Launchers -> Nat],
         \A m \in Launchers : served'[m] \subseteq served[m] \ gone,
         \A m \in Launchers : server'[m] # "up" => served'[m] = {}
  PROVE  RequestInvariant'
<1>1. /\ executed' = executed
      /\ \A c \in gone : conn'[c] = None /\ turn'[c] = "none"
                         /\ reply'[c] = IF reply[c] = "none" THEN "closed" ELSE reply[c]
      /\ \A c \in Clients \ gone : conn'[c] = conn[c] /\ turn'[c] = turn[c] /\ reply'[c] = reply[c]
  BY DEF CloseConnections
<1>2. RequestTypes'
  BY DEF CloseConnections, RequestInvariant, RequestTypes
<1>3. WithinLimit'
  BY FewerServed DEF RequestInvariant
<1>4. ServesOwn'
  <2> SUFFICES ASSUME NEW m \in Launchers
               PROVE  /\ server'[m] # "up" => served'[m] = {}
                      /\ \A c \in served'[m] : conn'[c] = m
    BY DEF ServesOwn
  <2> QED BY <1>1 DEF RequestInvariant, ServesOwn
<1>5. Unanswered'
  BY <1>1, ControlAssumption DEF RequestInvariant, Unanswered
<1>6. CarriedOnce'
  BY <1>1 DEF RequestInvariant, CarriedOnce
<1> QED
  BY <1>2, <1>3, <1>4, <1>5, <1>6 DEF RequestInvariant

\* A request is answered: what says "OK" to an opening has carried it out.
LEMMA AnswerKeeps ==
  ASSUME RequestInvariant, NEW l \in Launchers, NEW c \in Clients, Serving(l, c),
         NEW answer \in {"OK", "PENDING", "ERROR", "closed"}, Answer(l, c, answer),
         UNCHANGED <<executed, client, server>>,
         answer = "OK" /\ c \notin Setups => turn[c] = "done"
  PROVE  RequestInvariant'
<1>1. /\ served' \in [Launchers -> SUBSET Clients] /\ served'[l] = served[l] \ {c}
      /\ \A m \in Launchers \ {l} : served'[m] = served[m]
      /\ finished' \in [Launchers -> Nat]
  BY DEF RequestInvariant, RequestTypes, Answer
<1>2. /\ conn'[c] = None /\ turn'[c] = "none" /\ reply'[c] = answer
      /\ \A d \in Clients \ {c} : conn'[d] = conn[d] /\ turn'[d] = turn[d] /\ reply'[d] = reply[d]
  BY DEF RequestInvariant, RequestTypes, Answer
<1>3. RequestTypes'
  BY <1>1 DEF RequestInvariant, RequestTypes, Answer
<1>4. WithinLimit'
  BY <1>1, FewerServed DEF RequestInvariant
<1>5. ServesOwn'
  BY <1>1, <1>2 DEF RequestInvariant, ServesOwn, Serving, RequestTypes
<1>6. Unanswered'
  BY <1>2, ControlAssumption DEF RequestInvariant, Unanswered
<1>7. CarriedOnce'
  <2> SUFFICES ASSUME NEW d \in Clients \ Setups
               PROVE  /\ executed'[d] \in {0, 1}
                      /\ executed'[d] = 1 => client'[d] # "begin" /\ (conn'[d] # None => turn'[d] = "done")
                      /\ executed'[d] = 0 => turn'[d] # "done" /\ reply'[d] # "OK" /\ client'[d] # "ok"
    BY DEF CarriedOnce
  <2>1. CASE d = c
    BY <1>2, <2>1, ControlAssumption DEF RequestInvariant, CarriedOnce
  <2>2. CASE d # c
    BY <1>2, <2>2 DEF RequestInvariant, CarriedOnce
  <2> QED BY <2>1, <2>2
<1> QED
  BY <1>3, <1>4, <1>5, <1>6, <1>7 DEF RequestInvariant

\* A launcher is connected to by those it serves only.
LEMMA ServedConnected ==
  ASSUME RequestInvariant, NEW l \in Launchers, NEW c \in Clients, Serving(l, c)
  PROVE  conn[c] = l /\ conn[c] # None /\ reply[c] = "none" /\ client[c] # "begin"
BY ControlAssumption DEF RequestInvariant, ServesOwn, Unanswered, Serving

\* An opening is begun, refused or carried out, the first time.
LEMMA CarryKeeps ==
  ASSUME RequestInvariant, NEW l \in Launchers, NEW c \in Clients, Serving(l, c),
         turn[c] \in {"none", "reading"}, NEW t \in {"reading", "refused", "done"},
         turn' = [turn EXCEPT ![c] = t],
         NEW n \in {0, 1}, n = (IF t = "done" THEN 1 ELSE 0), executed' = [executed EXCEPT ![c] = @ + n],
         UNCHANGED <<conn, reply, tasks, client, server>>
  PROVE  RequestInvariant'
<1>1. conn[c] # None /\ reply[c] = "none" /\ client[c] # "begin"
  BY ServedConnected
<1>2. /\ turn'[c] = t /\ \A d \in Clients \ {c} : turn'[d] = turn[d] /\ executed'[d] = executed[d]
      /\ executed[c] \in Nat /\ executed'[c] = executed[c] + n
  BY DEF RequestInvariant, RequestTypes
<1>3. RequestTypes'
  BY DEF RequestInvariant, RequestTypes, tasks
<1>4. WithinLimit' /\ ServesOwn'
  BY DEF RequestInvariant, WithinLimit, ServesOwn, tasks
<1>5. Unanswered'
  BY <1>1, <1>2 DEF RequestInvariant, Unanswered
<1>6. CarriedOnce'
  <2> SUFFICES ASSUME NEW d \in Clients \ Setups
               PROVE  /\ executed'[d] \in {0, 1}
                      /\ executed'[d] = 1 => client'[d] # "begin" /\ (conn'[d] # None => turn'[d] = "done")
                      /\ executed'[d] = 0 => turn'[d] # "done" /\ reply'[d] # "OK" /\ client'[d] # "ok"
    BY DEF CarriedOnce
  <2>1. CASE d = c
    <3>1. executed[c] = 0 /\ client[c] # "ok"
      BY <1>1, <2>1 DEF RequestInvariant, CarriedOnce
    <3> QED BY <1>1, <1>2, <2>1, <3>1
  <2>2. CASE d # c
    BY <1>2, <2>2 DEF RequestInvariant, CarriedOnce
  <2> QED BY <2>1, <2>2
<1> QED
  BY <1>3, <1>4, <1>5, <1>6 DEF RequestInvariant

\* The same, as dispatch_launcher_action does it.
LEMMA CarryIsOne ==
  ASSUME RequestInvariant, NEW l \in Launchers, NEW c \in Clients, Serving(l, c),
         turn[c] \in {"none", "reading"}, Carry(l, c), UNCHANGED <<client, server>>
  PROVE  RequestInvariant'
<1>1. CASE shutting[l]
  <2>1. /\ turn' = [turn EXCEPT ![c] = "refused"] /\ executed' = [executed EXCEPT ![c] = @ + 0]
        /\ UNCHANGED <<conn, reply, tasks>>
    BY <1>1, Zenon DEF Carry
  <2> QED BY <2>1, CarryKeeps
<1>2. CASE ~shutting[l]
  <2>1. /\ turn' = [turn EXCEPT ![c] = "done"] /\ executed' = [executed EXCEPT ![c] = @ + 1]
        /\ UNCHANGED <<conn, reply, tasks>>
    BY <1>2, Zenon DEF Carry
  <2> QED BY <2>1, CarryKeeps
<1> QED
  BY <1>1, <1>2

\* Where a client is now.
LEMMA Becomes ==
  ASSUME RequestInvariant, NEW c \in Clients,
         NEW where \in {"begin", "connected", "sent"} \cup Ended, Become(c, where)
  PROVE  /\ client' \in [Clients -> {"begin", "connected", "sent"} \cup Ended]
         /\ client'[c] = where /\ \A d \in Clients \ {c} : client'[d] = client[d]
BY DEF RequestInvariant, RequestTypes, Become

\* A connection is made to who listens.
LEMMA ConnectKeeps ==
  ASSUME LockInvariant, RequestInvariant, NEW c \in Clients, Connect(c)
  PROVE  RequestInvariant'
<1>1. /\ client[c] = "begin" /\ Become(c, "connected") /\ conn' = [conn EXCEPT ![c] = path.owner]
      /\ reply' = [reply EXCEPT ![c] = "none"]
      /\ UNCHANGED <<server, served, finished, turn, executed>> /\ path # None
  BY DEF Connect, Listening, launchers, tasks
<1>2. path.owner \in Launchers
  BY <1>1 DEF LockInvariant, LauncherTypes
<1>3. /\ client' \in [Clients -> {"begin", "connected", "sent"} \cup Ended]
      /\ client'[c] = "connected" /\ \A d \in Clients \ {c} : client'[d] = client[d]
  BY <1>1, Becomes
<1>4. /\ conn'[c] = path.owner /\ reply'[c] = "none"
      /\ \A d \in Clients \ {c} : conn'[d] = conn[d] /\ reply'[d] = reply[d]
  BY <1>1 DEF RequestInvariant, RequestTypes
<1>5. RequestTypes'
  BY <1>1, <1>2, <1>3 DEF RequestInvariant, RequestTypes
<1>6. conn[c] = None /\ turn[c] = "none"
  BY <1>1 DEF RequestInvariant, Unanswered
<1>7. WithinLimit' /\ ServesOwn'
  <2>1. \A m \in Launchers : c \notin served[m]
    BY <1>6, ControlAssumption DEF RequestInvariant, ServesOwn
  <2> QED BY <1>1, <1>4, <2>1 DEF RequestInvariant, WithinLimit, ServesOwn, RequestTypes
<1>8. Unanswered'
  BY <1>1, <1>2, <1>3, <1>4, ControlAssumption DEF RequestInvariant, Unanswered
<1>9. CarriedOnce'
  BY <1>1, <1>3, <1>4, <1>6 DEF RequestInvariant, CarriedOnce
<1> QED
  BY <1>5, <1>7, <1>8, <1>9 DEF RequestInvariant

\* An answer is read: "OK" was true.
LEMMA ReadKeeps ==
  ASSUME RequestInvariant, NEW c \in Clients, ReadReply(c)
  PROVE  RequestInvariant'
<1>1. /\ reply[c] # "none" /\ UNCHANGED <<server, served, finished, conn, turn, reply, executed>>
  BY DEF ReadReply, launchers, tasks, request
<1>2. PICK where \in {"ok", "failed", "begin"} :
        /\ Become(c, where) /\ (where = "ok" => reply[c] = "OK") /\ (where = "begin" => c \in Setups)
  BY DEF ReadReply, AsksAgain
<1>3. /\ client' \in [Clients -> {"begin", "connected", "sent"} \cup Ended]
      /\ client'[c] = where /\ \A d \in Clients \ {c} : client'[d] = client[d]
  BY <1>2, Becomes DEF Ended
<1>4. RequestTypes' /\ WithinLimit' /\ ServesOwn'
  BY <1>1, <1>3 DEF RequestInvariant, RequestTypes, WithinLimit, ServesOwn
<1>5. Unanswered'
  BY <1>1, <1>3 DEF RequestInvariant, Unanswered
<1>6. CarriedOnce'
  BY <1>1, <1>2, <1>3 DEF RequestInvariant, CarriedOnce
<1> QED
  BY <1>4, <1>5, <1>6 DEF RequestInvariant

\* A turn of the client's loop.
LEMMA ClientKeepsRequests ==
  ASSUME LockInvariant, RequestInvariant, NEW c \in Clients, ClientStep(c)
  PROVE  RequestInvariant'
<1>t. client \in [Clients -> {"begin", "connected", "sent"} \cup Ended]
  BY DEF RequestInvariant, RequestTypes
<1>1. CASE Connect(c)
  BY <1>1, ConnectKeeps
<1>2. CASE Send(c)
  <2>1. Become(c, "sent") /\ client[c] # "begin" /\ UNCHANGED <<tasks, request>> /\ server' = server
    BY <1>2 DEF Send, launchers
  <2>2. client' \in [Clients -> {"begin", "connected", "sent"} \cup Ended] /\ client'[c] = "sent"
        /\ \A d \in Clients \ {c} : client'[d] = client[d]
    BY <2>1, Becomes
  <2> QED BY <2>1, <2>2, RequestsRest
<1>3. CASE Unavailable(c)
  <2>1. client[c] = "begin" /\ UNCHANGED <<tasks, request>>
    BY <1>3 DEF Unavailable
  <2>2. CASE Become(c, "failed") /\ UNCHANGED launchers
    <3>1. client' \in [Clients -> {"begin", "connected", "sent"} \cup Ended] /\ client'[c] = "failed"
          /\ \A d \in Clients \ {c} : client'[d] = client[d]
      BY <2>2, Becomes DEF Ended
    <3> QED BY <2>1, <2>2, <3>1, RequestsRest DEF launchers
  <2>3. CASE UNCHANGED client /\ \E l \in Launchers : Started(l)
    <3>1. PICK l \in Launchers : Started(l)
      BY <2>3
    <3>2. server[l] = "off" /\ To(l, "starting")
      BY <3>1 DEF Started
    <3>3. \A m \in Launchers : server[m] = "up" => server'[m] = "up"
      BY <3>2 DEF LockInvariant, LauncherTypes, To
    <3> QED BY <1>t, <2>1, <2>3, <3>3, RequestsRest
  <2> QED BY <1>3, <2>2, <2>3 DEF Unavailable
<1>4. CASE ReadReply(c)
  BY <1>4, ReadKeeps
<1>5. CASE GiveUp(c)
  <2>1. Become(c, "failed") /\ client[c] # "begin" /\ UNCHANGED <<tasks, request>> /\ server' = server
    BY <1>5 DEF GiveUp, launchers
  <2>2. client' \in [Clients -> {"begin", "connected", "sent"} \cup Ended] /\ client'[c] = "failed"
        /\ \A d \in Clients \ {c} : client'[d] = client[d]
    BY <2>1, Becomes DEF Ended
  <2> QED BY <2>1, <2>2, RequestsRest
<1>6. CASE Deadline(c)
  <2>1. UNCHANGED <<tasks, request, client>> /\ server' = server
    BY <1>6 DEF Deadline, launchers
  <2> QED BY <1>t, <2>1, RequestsRest
<1> QED
  BY <1>1, <1>2, <1>3, <1>4, <1>5, <1>6 DEF ClientStep, Answered

\* A step of the server's loop for a client.
LEMMA ServeKeeps ==
  ASSUME RequestInvariant, NEW l \in Launchers, NEW c \in Clients, Serve(l, c)
  PROVE  RequestInvariant'
<1>0. UNCHANGED <<files, launchers, etctl>> /\ client' = client /\ server' = server
  BY DEF Serve, Accept, Handle, Resolved, Respond, Expire, launchers, etctl
<1>t. /\ served \in [Launchers -> SUBSET Clients] /\ finished \in [Launchers -> Nat]
      /\ \A m \in Launchers : server[m] # "up" => served[m] = {}
      /\ \A m \in Launchers : \A d \in served[m] : conn[d] = m
  BY DEF RequestInvariant, RequestTypes, ServesOwn
<1>1. CASE Accept(l, c)
  <2>1. /\ server[l] = "up" /\ conn[c] = l /\ c \notin served[l] /\ reply[c] = "none"
        /\ finished' = [finished EXCEPT ![l] = 0]
    BY <1>1 DEF Accept, Backlog, Connected
  <2>2. \A m \in Launchers : c \notin served[m]
    BY <1>t, <2>1
  <2>3. CASE Full(l)
    <3>1. CloseConnections({c}) /\ served' = served
      BY <1>1, <2>3 DEF Accept
    <3>2. finished' \in [Launchers -> Nat]
      BY <1>t, <2>1
    <3>3. /\ \A m \in Launchers : served'[m] \subseteq served[m] \ {c}
          /\ \A m \in Launchers : server'[m] # "up" => served'[m] = {}
      BY <1>0, <1>t, <2>2, <3>1
    <3> QED BY <1>0, <1>t, <3>1, <3>2, <3>3, ClosingKeeps
  <2>4. CASE ~Full(l)
    <3>1. served' = [served EXCEPT ![l] = @ \cup {c}] /\ UNCHANGED request
      BY <1>1, <2>4 DEF Accept
    <3>2. RequestTypes'
      BY <1>0, <1>t, <2>1, <3>1 DEF RequestInvariant, RequestTypes, request
    <3>3. WithinLimit'
      <4>1. IsFiniteSet(served[l])
        BY <1>t, ControlAssumption, FS_Subset
      <4>2. Cardinality(served[l]) \in Nat
            /\ Cardinality(served[l] \cup {c}) = Cardinality(served[l]) + 1
        BY <2>1, <4>1, FS_AddElement, FS_CardinalityType
      <4>3. Cardinality(served[l] \cup {c}) <= Limit
        BY <2>4, <4>2, ControlAssumption DEF Full
      <4>4. served'[l] = served[l] \cup {c} /\ \A m \in Launchers \ {l} : served'[m] = served[m]
        BY <1>t, <3>1
      <4> QED BY <4>3, <4>4 DEF RequestInvariant, WithinLimit
    <3>4. ServesOwn'
      BY <1>0, <1>t, <2>1, <3>1 DEF ServesOwn, request
    <3>5. Unanswered' /\ CarriedOnce'
      BY <1>0, <3>1 DEF RequestInvariant, Unanswered, CarriedOnce, request
    <3> QED BY <3>2, <3>3, <3>4, <3>5 DEF RequestInvariant
  <2> QED BY <2>3, <2>4
<1>2. CASE Handle(l, c)
  <2>0. Serving(l, c) /\ turn[c] = "none"
    BY <1>2 DEF Handle
  <2>1. CASE c \in Setups /\ \E answer \in SetupAnswers : Answer(l, c, answer) /\ UNCHANGED executed
    <3>1. PICK answer \in SetupAnswers : Answer(l, c, answer) /\ UNCHANGED executed
      BY <2>1
    <3> QED BY <1>0, <2>0, <2>1, <3>1, AnswerKeeps DEF SetupAnswers
  <2>2. CASE Answer(l, c, "ERROR") /\ UNCHANGED executed
    BY <1>0, <2>0, <2>2, AnswerKeeps
  <2>3. CASE Carry(l, c)
    BY <1>0, <2>0, <2>3, CarryIsOne
  <2>4. CASE turn' = [turn EXCEPT ![c] = "reading"] /\ UNCHANGED <<conn, reply, executed, tasks>>
    <3>1. executed' = [executed EXCEPT ![c] = @ + 0]
      BY <2>4 DEF RequestInvariant, RequestTypes
    <3> QED BY <1>0, <2>0, <2>4, <3>1, CarryKeeps
  <2> QED BY <1>2, <2>1, <2>2, <2>3, <2>4 DEF Handle
<1>3. CASE Resolved(l, c)
  <2>0. Serving(l, c) /\ turn[c] = "reading"
    BY <1>3 DEF Resolved
  <2>1. CASE Answer(l, c, "ERROR") /\ UNCHANGED executed
    BY <1>0, <2>0, <2>1, AnswerKeeps
  <2>2. CASE Carry(l, c)
    BY <1>0, <2>0, <2>2, CarryIsOne
  <2> QED BY <1>3, <2>1, <2>2 DEF Resolved
<1>4. CASE Respond(l, c)
  <2>1. Serving(l, c) /\ Answer(l, c, Told(c)) /\ UNCHANGED executed
        /\ Told(c) \in {"OK", "PENDING", "ERROR", "closed"} /\ (Told(c) = "OK" => turn[c] = "done")
    BY <1>4 DEF Respond, Told
  <2> QED BY <1>0, <2>1, AnswerKeeps
<1>5. CASE Expire(l, c)
  <2>1. Serving(l, c) /\ Answer(l, c, "closed") /\ UNCHANGED executed
    BY <1>5 DEF Expire
  <2> QED BY <1>0, <2>1, AnswerKeeps
<1> QED
  BY <1>1, <1>2, <1>3, <1>4, <1>5 DEF Serve

\* A launcher starts, ends or dies.
LEMMA LauncherKeepsRequests ==
  ASSUME LockInvariant, RequestInvariant, NEW l \in Launchers, LauncherStep(l)
  PROVE  RequestInvariant'
<1>t. /\ served \in [Launchers -> SUBSET Clients] /\ finished \in [Launchers -> Nat]
      /\ client \in [Clients -> {"begin", "connected", "sent"} \cup Ended]
      /\ \A m \in Launchers : server[m] # "up" => served[m] = {}
      /\ \A m \in Launchers : \A d \in served[m] : conn[d] = m
  BY DEF RequestInvariant, RequestTypes, ServesOwn
<1>c. client' = client
  BY DEF LauncherStep, Start, OpenLock, TakeLock, Reclaim, Bind, Listen, Quit, Shutdown,
         UnlinkSocket, Release, End, Crash, etctl
<1>s. server \in [Launchers -> Stages]
  BY DEF LockInvariant, LauncherTypes
<1>1. CASE UNCHANGED <<tasks, request>> /\ \A m \in Launchers : server[m] = "up" => server'[m] = "up"
  <2>1. served' = served /\ UNCHANGED <<finished, conn, turn, reply, executed>>
    BY <1>1 DEF tasks, request
  <2>2. RequestTypes' /\ WithinLimit'
    BY <1>c, <2>1 DEF RequestInvariant, RequestTypes, WithinLimit
  <2>3. ServesOwn' /\ Unanswered' /\ CarriedOnce'
    BY <1>c, <1>1, <2>1 DEF RequestInvariant, ServesOwn, Unanswered, CarriedOnce
  <2> QED BY <2>2, <2>3 DEF RequestInvariant
<1>2. CASE Shutdown(l)
  <2>1. /\ To(l, "closing") /\ served' = [served EXCEPT ![l] = {}]
        /\ finished' = [finished EXCEPT ![l] = 0] /\ CloseConnections(served[l])
    BY <1>2 DEF Shutdown
  <2>2. /\ served' \in [Launchers -> SUBSET Clients] /\ finished' \in [Launchers -> Nat]
        /\ served'[l] = {} /\ \A m \in Launchers \ {l} : served'[m] = served[m]
    BY <1>t, <2>1
  <2>3. \A m \in Launchers : served'[m] \subseteq served[m] \ served[l]
    BY <1>t, <2>2
  <2>4. \A m \in Launchers : server'[m] # "up" => served'[m] = {}
    BY <1>t, <1>s, <2>1, <2>2 DEF To
  <2> QED BY <1>c, <1>t, <2>1, <2>2, <2>3, <2>4, ClosingKeeps
<1>3. CASE Release(l)
  <2>1. /\ server[l] = "unlinked" /\ UNCHANGED <<served, finished>> /\ CloseConnections(Connected(l))
        /\ \A m \in Launchers \ {l} : server'[m] = server[m]
    BY <1>3, <1>s DEF Release, tasks, To
  <2>2. \A m \in Launchers : served'[m] \subseteq served[m] \ Connected(l)
    BY <1>t, <2>1 DEF Connected
  <2>3. \A m \in Launchers : server'[m] # "up" => served'[m] = {}
    BY <1>t, <2>1
  <2>4. Connected(l) \in SUBSET Clients
    BY DEF Connected
  <2> QED BY <1>c, <1>t, <2>1, <2>2, <2>3, <2>4, ClosingKeeps
<1>4. CASE Crash(l)
  <2>1. /\ To(l, "off") /\ served' = [served EXCEPT ![l] = {}]
        /\ finished' = [finished EXCEPT ![l] = 0] /\ CloseConnections(Connected(l))
    BY <1>4 DEF Crash
  <2>2. /\ served' \in [Launchers -> SUBSET Clients] /\ finished' \in [Launchers -> Nat]
        /\ served'[l] = {} /\ \A m \in Launchers \ {l} : served'[m] = served[m]
    BY <1>t, <2>1
  <2>3. \A m \in Launchers : served'[m] \subseteq served[m] \ Connected(l)
    BY <1>t, <2>2 DEF Connected
  <2>4. \A m \in Launchers : server'[m] # "up" => served'[m] = {}
    BY <1>t, <1>s, <2>1, <2>2 DEF To
  <2>5. Connected(l) \in SUBSET Clients
    BY DEF Connected
  <2> QED BY <1>c, <1>t, <2>1, <2>2, <2>3, <2>4, <2>5, ClosingKeeps
<1>5. CASE \/ Start(l) \/ OpenLock(l) \/ TakeLock(l) \/ Reclaim(l) \/ Bind(l) \/ Listen(l)
           \/ Quit(l) \/ UnlinkSocket(l) \/ End(l)
  <2>1. UNCHANGED <<tasks, request>>
    BY <1>5 DEF Start, OpenLock, TakeLock, Reclaim, Bind, Listen, Quit, UnlinkSocket, End
  <2>2. server' = server \/ (server[l] # "up" /\ \E s \in Stages : To(l, s))
    BY <1>5 DEF Start, Started, OpenLock, TakeLock, Reclaim, Bind, Listen, Quit, UnlinkSocket, End,
                GivesUp, Stages
  <2>3. \A m \in Launchers : server[m] = "up" => server'[m] = "up"
    BY <1>s, <2>2 DEF To
  <2> QED BY <1>1, <2>1, <2>3
<1> QED
  BY <1>2, <1>3, <1>4, <1>5 DEF LauncherStep

-----------------------------------------------------------------------------
(* The invariant of the whole, and the theorem.                              *)

\* A client's own state.
LEMMA EtctlKeeps ==
  ASSUME LockInvariant, EtctlTypes, SocketNext
  PROVE  EtctlTypes'
<1>1. ASSUME NEW c \in Clients, ClientStep(c) PROVE EtctlTypes'
  <2>1. CASE Unavailable(c) /\ ~UNCHANGED child
    <3>1. /\ \E l \in Launchers : Started(l)
          /\ child' = [child EXCEPT ![c] = starts'] /\ late' = late
      BY <2>1 DEF Unavailable
    <3>2. starts' \in 0..MaxStarts
      BY <3>1, ControlAssumption DEF Started, LockInvariant, LauncherTypes
    <3> QED BY <3>1, <3>2 DEF EtctlTypes
  <2>2. CASE Deadline(c)
    BY <2>2 DEF Deadline, EtctlTypes
  <2>3. CASE UNCHANGED <<child, late>>
    BY <2>3 DEF EtctlTypes
  <2>4. Unavailable(c) => late' = late
    BY DEF Unavailable
  <2> QED BY <1>1, <2>1, <2>2, <2>3, <2>4
          DEF ClientStep, Connect, Send, Answered, ReadReply, GiveUp
<1>2. ASSUME NEW l \in Launchers, LauncherStep(l) PROVE EtctlTypes'
  <2>1. UNCHANGED etctl
    BY <1>2 DEF LauncherStep, Start, OpenLock, TakeLock, Reclaim, Bind, Listen, Quit, Shutdown,
                UnlinkSocket, Release, End, Crash
  <2> QED BY <2>1 DEF etctl, EtctlTypes
<1>3. ASSUME NEW l \in Launchers, NEW c \in Clients, Serve(l, c) PROVE EtctlTypes'
  <2>1. UNCHANGED etctl
    BY <1>3 DEF Serve, Accept, Handle, Resolved, Respond, Expire
  <2> QED BY <2>1 DEF etctl, EtctlTypes
<1> QED
  BY <1>1, <1>2, <1>3 DEF SocketNext

\* The name of the socket does not change by what clients do, or is done for them.
LEMMA OthersKeepLock ==
  ASSUME LockInvariant, NEW c \in Clients,
         ClientStep(c) \/ \E l \in Launchers : Serve(l, c)
  PROVE  LockInvariant'
<1>1. CASE UNCHANGED <<files, launchers>>
  BY <1>1, LockRests
<1>2. CASE UNCHANGED files /\ \E l \in Launchers : Started(l)
  BY <1>2, StartedKeeps
<1>3. ASSUME Unavailable(c) PROVE UNCHANGED files /\ (UNCHANGED launchers \/ \E l \in Launchers : Started(l))
  BY <1>3 DEF Unavailable
<1>4. ASSUME NEW l \in Launchers, Serve(l, c) PROVE UNCHANGED <<files, launchers>>
  BY <1>4 DEF Serve, Accept, Handle, Resolved, Respond, Expire
<1>5. Connect(c) \/ Send(c) \/ Answered(c) \/ Deadline(c) => UNCHANGED <<files, launchers>>
  BY DEF Connect, Send, Answered, ReadReply, GiveUp, Deadline
<1> QED
  BY <1>1, <1>2, <1>3, <1>4, <1>5 DEF ClientStep

\* Nobody has done anything.
LEMMA SocketStarts == SocketInit => SocketInvariant
<1> SUFFICES ASSUME SocketInit PROVE SocketInvariant
  OBVIOUS
<1>1. LauncherTypes /\ EtctlTypes
  BY ControlAssumption DEF SocketInit, LauncherTypes, EtctlTypes, Stages
<1>2. OneFile /\ OneOwner /\ Reachable /\ FreeToBind
  BY DEF SocketInit, OneFile, OneOwner, Reachable, FreeToBind, Locked
<1>3. RequestTypes
  BY DEF SocketInit, RequestTypes
<1>4. WithinLimit
  BY FS_EmptySet, ControlAssumption DEF SocketInit, WithinLimit
<1>5. ServesOwn /\ Unanswered /\ CarriedOnce
  BY DEF SocketInit, ServesOwn, Unanswered, CarriedOnce
<1> QED
  BY <1>1, <1>2, <1>3, <1>4, <1>5 DEF SocketInvariant, LockInvariant, RequestInvariant

\* Every step keeps the invariant.
LEMMA SocketStep == SocketInvariant /\ [SocketNext]_socket => SocketInvariant'
<1> SUFFICES ASSUME LockInvariant, RequestInvariant, EtctlTypes, [SocketNext]_socket
             PROVE  LockInvariant' /\ RequestInvariant' /\ EtctlTypes'
  BY DEF SocketInvariant
<1>1. CASE UNCHANGED socket
  <2>1. UNCHANGED <<files, launchers, server, tasks, request, client, child, late>>
    BY <1>1 DEF socket, launchers, etctl
  <2>2. LockInvariant'
    BY <2>1, LockRests
  <2>3. RequestTypes' /\ WithinLimit' /\ ServesOwn' /\ Unanswered' /\ CarriedOnce'
    BY <2>1 DEF RequestInvariant, RequestTypes, WithinLimit, ServesOwn, Unanswered, CarriedOnce,
                tasks, request
  <2> QED BY <2>1, <2>2, <2>3 DEF EtctlTypes, RequestInvariant
<1>2. CASE SocketNext
  <2>1. EtctlTypes'
    BY <1>2, EtctlKeeps
  <2>2. ASSUME NEW l \in Launchers, LauncherStep(l) PROVE LockInvariant' /\ RequestInvariant'
    BY <2>2, LauncherKeepsLock, LauncherKeepsRequests
  <2>3. ASSUME NEW l \in Launchers, NEW c \in Clients, Serve(l, c)
        PROVE  LockInvariant' /\ RequestInvariant'
    BY <2>3, OthersKeepLock, ServeKeeps
  <2>4. ASSUME NEW c \in Clients, ClientStep(c) PROVE LockInvariant' /\ RequestInvariant'
    BY <2>4, OthersKeepLock, ClientKeepsRequests
  <2> QED BY <1>2, <2>1, <2>2, <2>3, <2>4 DEF SocketNext
<1> QED
  BY <1>1, <1>2

\* Whoever waits to be accepted is told nothing, but if it is turned away.
LEMMA TurnedAway ==
  ASSUME LockInvariant, RequestInvariant, SocketNext, NEW l \in Launchers, NEW c \in Clients,
         c \in Backlog(l), reply'[c] = "closed", server[l] = "up", server'[l] = "up"
  PROVE  Cardinality(served[l]) = Limit
<1>t. /\ conn[c] = l /\ c \notin served[l] /\ reply[c] = "none"
      /\ \A m \in Launchers : c \notin served[m]
      /\ server \in [Launchers -> Stages] /\ reply \in [Clients -> {"none", "OK", "PENDING", "ERROR", "closed"}]
  BY DEF Backlog, Connected, RequestInvariant, ServesOwn, LockInvariant, LauncherTypes, RequestTypes
<1>r. reply'[c] # reply[c] /\ reply' # reply
  BY <1>t
<1>1. ASSUME NEW m \in Launchers, LauncherStep(m) PROVE FALSE
  <2>1. \/ Shutdown(m) \/ Release(m) \/ Crash(m)
    BY <1>r, <1>1 DEF LauncherStep, Start, OpenLock, TakeLock, Reclaim, Bind, Listen, Quit,
                      UnlinkSocket, End, request
  <2>2. server'[m] # "up"
    BY <1>t, <2>1 DEF Shutdown, Release, Crash, To
  <2>3. PICK gone \in {served[m], Connected(m)} : CloseConnections(gone)
    BY <2>1 DEF Shutdown, Release, Crash
  <2>4. c \notin gone
    BY <1>t, <2>2, <2>3 DEF Connected
  <2> QED BY <1>r, <2>3, <2>4 DEF CloseConnections
<1>2. ASSUME NEW m \in Launchers, NEW d \in Clients, Serve(m, d), ~Accept(m, d) PROVE FALSE
  <2>1. Serving(m, d)
    BY <1>2 DEF Serve, Handle, Resolved, Respond, Expire
  <2>2. d # c
    BY <1>t, <2>1 DEF Serving
  <2>3. reply' = reply \/ \E answer \in {"OK", "PENDING", "ERROR", "closed"} :
                            reply' = [reply EXCEPT ![d] = answer]
    BY <1>2 DEF Serve, Handle, Resolved, Respond, Expire, Answer, Carry, SetupAnswers, Told
  <2> QED BY <1>t, <1>r, <2>2, <2>3
<1>3. ASSUME NEW m \in Launchers, NEW d \in Clients, Accept(m, d) PROVE m = l /\ Full(l)
  <2>1. Full(m) /\ CloseConnections({d}) /\ conn[d] = m
    BY <1>r, <1>3 DEF Accept, request, Backlog, Connected
  <2>2. d = c
    BY <1>r, <2>1 DEF CloseConnections
  <2> QED BY <1>t, <2>1, <2>2
<1>4. ASSUME NEW d \in Clients, ClientStep(d) PROVE FALSE
  <2>1. reply' = reply \/ reply' = [reply EXCEPT ![d] = "none"]
    BY <1>4 DEF ClientStep, Connect, Send, Unavailable, Answered, ReadReply, GiveUp, Deadline, request
  <2> QED BY <1>t, <1>r, <2>1
<1>5. Full(l)
  BY <1>1, <1>2, <1>3, <1>4 DEF SocketNext
<1>6. Cardinality(served[l]) \in Nat
  BY ControlAssumption, FS_Subset, FS_CardinalityType DEF RequestInvariant, RequestTypes
<1> QED
  BY <1>5, <1>6, ControlAssumption DEF Full, RequestInvariant, WithinLimit

\* A client is told what the module says it is.
LEMMA SocketFacts ==
  SocketInvariant => SocketTypeOK /\ Reachable /\ FreeToBind /\ AtMostOnce /\ SuccessTrue
<1> SUFFICES ASSUME SocketInvariant
             PROVE  SocketTypeOK /\ Reachable /\ FreeToBind /\ AtMostOnce /\ SuccessTrue
  OBVIOUS
<1>1. SocketTypeOK
  BY SocketTypes DEF SocketInvariant, LockInvariant, RequestInvariant
<1>2. AtMostOnce /\ SuccessTrue
  BY DEF SocketInvariant, RequestInvariant, CarriedOnce, AtMostOnce, SuccessTrue
<1> QED
  BY <1>1, <1>2 DEF SocketInvariant, LockInvariant

\* The invariant of the control socket: there is one owner of the lock, and a request is
\* carried out as its handler says (control-server.cpp:197-236).
THEOREM SocketInvariantHolds == SocketSpec => []SocketInvariant
BY SocketStarts, SocketStep, PTL DEF SocketSpec

\* A launcher that serves is reached, binds a free path, and refuses only when full; what
\* opens something happens at most once, and once when it is reported
\* (control-server.cpp:162-166, 197-236; control-client.cpp:209-256).
THEOREM SocketIsSound == SocketSpec => SocketSound
<1>1. SocketSpec => [](SocketTypeOK /\ Reachable /\ FreeToBind /\ AtMostOnce /\ SuccessTrue)
  BY SocketInvariantHolds, SocketFacts, PTL
<1>2. SocketInvariant /\ [SocketNext]_socket => [RefusesJustly]_socket
  <2> SUFFICES ASSUME SocketInvariant, SocketNext PROVE RefusesJustly
    OBVIOUS
  <2> QED BY TurnedAway DEF RefusesJustly, SocketInvariant
<1>3. SocketSpec => [][RefusesJustly]_socket
  BY <1>2, SocketInvariantHolds, PTL DEF SocketSpec
<1> QED
  BY <1>1, <1>3 DEF SocketSound
=============================================================================
