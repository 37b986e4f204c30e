---------------------------- MODULE HotkeyBackend ----------------------------
(***************************************************************************)
(* Global hotkeys (hotkey-backend.cpp) and their fallback, the configuration of the     *)
(* compositor (main.cpp, hotkey-setup.cpp).  Every list of actions gets a generation;   *)
(* the GlobalShortcuts portal is asked for a session and to bind the list in it, and the *)
(* user answers it when he likes.  The bus keeps the order in each direction.           *)
(*                                                                         *)
(* An action is identified by its place in the list, as "open-connection-<n>" is, and    *)
(* opens what stands there.  A session of the portal has the generation it was created   *)
(* for.  The portal keeps the request handle it was given and closes no session itself.  *)
(***************************************************************************)
EXTENDS Naturals, Sequences, FiniteSets

CONSTANTS Lists,       \* the lists of connections with a hotkey, <<>> among them
          Desktops,    \* "wayland" with a compositor that can be configured or "bare" without, "x11"
          Leftovers,   \* whether an earlier launcher left bindings in the compositor
          MaxGenerations, MaxPresses, MaxFailures   \* bounds

Generations == 1..MaxGenerations
Ids == UNION {DOMAIN l : l \in Lists}
Targets == UNION {{l[i] : i \in DOMAIN l} : l \in Lists}

HotkeyConstants ==
  /\ << >> \in Lists /\ Lists \subseteq Seq(Targets)
  /\ Desktops \subseteq {"wayland", "bare", "x11"} /\ Leftovers \subseteq BOOLEAN
  /\ MaxGenerations \in Nat \ {0} /\ MaxPresses \in Nat /\ MaxFailures \in Nat

VARIABLES
  desktop,     \* one of Desktops
  backend,     \* generation, actions, kind ("pending" until detected, "over" when destroyed),
               \* portal_session_handle, portal_bind_response_generation, the ids registered,
               \* registration_failed_current, registration_failure_reported
  requests,    \* on their way to the portal
  dialogs,     \* what the portal has taken and not answered
  inbox,       \* on their way from the portal
  portal,      \* of each session its state, the list it was given and the ids the user bound
  compositor,  \* the list that the configuration of the compositor opens, <<>> for none
  told,        \* hotkey_warning_shown
  opened,      \* what a hotkey opened last, and what it was pressed for
  excused,     \* the compositor's list may be there although the portal was asked
  counts       \* presses and failures so far

bus == <<requests, dialogs, inbox, portal>>
fallback == <<compositor, told, excused, counts>>
vars == <<desktop, backend, bus, fallback, opened>>

Request == [op : {"version", "create", "bind", "close"}, generation : Generations, list : Lists]
TypeOK ==
  /\ desktop \in Desktops
  /\ backend \in [generation : Generations, actions : Lists, kind : {"pending", "none", "x11", "portal", "over"},
                  session : {0} \cup Generations, bound : {0} \cup Generations, registered : SUBSET Ids,
                  failed : BOOLEAN, reported : BOOLEAN]
  /\ requests \in Seq(Request) /\ dialogs \subseteq Request
  /\ inbox \in Seq([kind : {"error", "rejected", "response", "activated"}, op : {"version", "create", "bind", "none"},
                    generation : Generations, ids : SUBSET Ids])
  /\ portal \in [Generations -> [state : {"none", "open", "bound", "closed"}, list : Lists, ids : SUBSET Ids]]
  /\ compositor \in Lists /\ told \in BOOLEAN
  /\ opened \in [opens : Targets \cup {"nothing"}, meant : Targets \cup {"nothing"}]
  /\ excused \in BOOLEAN /\ counts \in [presses : 0..MaxPresses, failures : 0..MaxFailures]

\* create_hotkey_backend asks for the portal's version, except in an X11 session, where it
\* grabs the keys at once; another program may hold one, or X11 cannot be opened.
Init ==
  /\ desktop \in Desktops
  /\ \E l \in Lists, kind \in {"pending", "none", "x11"}, grabbed \in SUBSET Ids :
       /\ IF desktop = "x11" THEN kind # "pending" ELSE kind = "pending"
       /\ grabbed \subseteq DOMAIN l /\ (kind # "x11" => grabbed = {})
       /\ told = (kind # "pending" /\ grabbed # DOMAIN l)
       /\ backend = [generation |-> 1, actions |-> l, kind |-> kind, session |-> 0, bound |-> 0,
                     registered |-> grabbed, failed |-> told, reported |-> told]
  /\ requests = IF desktop = "x11" THEN << >> ELSE <<[op |-> "version", generation |-> 1, list |-> << >>]>>
  /\ dialogs = {} /\ inbox = << >>
  /\ portal = [g \in Generations |-> [state |-> "none", list |-> << >>, ids |-> {}]]
  /\ compositor \in Lists /\ (compositor # << >> => desktop = "wayland" /\ TRUE \in Leftovers)
  /\ opened = [opens |-> "nothing", meant |-> "nothing"]
  /\ excused = (compositor # << >>) /\ counts = [presses |-> 0, failures |-> 0]

Live == backend.kind # "over"

-----------------------------------------------------------------------------
(* The fallback.                                                            *)

MayFail == counts.failures < MaxFailures /\ counts' = [counts EXCEPT !.failures = @ + 1]
\* setup_external_hotkeys: the configuration is written and reloaded, or that fails.
SetupExternal(list, warns) ==
  /\ UNCHANGED excused
  /\ \/ desktop = "wayland" /\ compositor' = list /\ UNCHANGED <<told, counts>>
     \/ desktop = "wayland" /\ MayFail /\ told' = (told \/ warns) /\ UNCHANGED compositor
     \/ desktop # "wayland" /\ told' = (told \/ warns) /\ UNCHANGED <<compositor, counts>>
\* clear_external_hotkeys; one that fails leaves the bindings where they are.
ClearExternal ==
  /\ UNCHANGED told
  /\ \/ compositor' = << >> /\ excused' = FALSE /\ UNCHANGED counts
     \/ compositor # << >> /\ MayFail /\ excused' = TRUE /\ UNCHANGED compositor

\* notify_registration_failure with handle_hotkey_registration_failure, once for a list
Fails(b) ==
  IF b.actions = << >> THEN backend' = b /\ UNCHANGED fallback
  ELSE /\ backend' = [b EXCEPT !.failed = TRUE, !.reported = TRUE]
       /\ IF b.reported THEN UNCHANGED fallback ELSE SetupExternal(b.actions, TRUE)

\* hotkey_registration_status
Pending ==
  \/ backend.kind = "pending"
  \/ /\ backend.kind = "portal" /\ ~backend.failed /\ backend.actions # << >>
     /\ backend.bound # backend.generation
Registered == ~Pending /\ ~backend.failed /\ backend.registered = DOMAIN backend.actions

-----------------------------------------------------------------------------
(* The portal.                                                             *)

Says(kind, r, ids) ==
  inbox' = Append(inbox, [kind |-> kind, op |-> r.op, generation |-> r.generation, ids |-> ids])
Keeps == UNCHANGED <<desktop, backend, fallback, opened>>

\* A request is taken, which returns its handle, or fails.
Takes ==
  /\ requests # << >> /\ requests' = Tail(requests) /\ Keeps
  /\ LET r == Head(requests) IN
     \/ /\ r.op = "close" /\ portal' = [portal EXCEPT ![r.generation].state = "closed"]
        /\ dialogs' = {d \in dialogs : d.generation # r.generation} /\ UNCHANGED inbox
     \/ r.op \in {"version", "create", "bind"} /\ dialogs' = dialogs \cup {r} /\ UNCHANGED <<inbox, portal>>
Refuses ==
  /\ requests # << >> /\ Head(requests).op # "close" /\ requests' = Tail(requests)
  /\ MayFail /\ Says("error", Head(requests), {})
  /\ UNCHANGED <<desktop, backend, dialogs, portal, compositor, told, excused, opened>>
\* The Response signal of a request: the user, or a policy, decides.
Responds ==
  /\ Keeps /\ UNCHANGED requests
  /\ \E d \in dialogs :
       /\ dialogs' = dialogs \ {d}
       /\ \/ Says("rejected", d, {}) /\ UNCHANGED portal
          \/ d.op = "version" /\ Says("response", d, {}) /\ UNCHANGED portal
          \/ /\ d.op = "create" /\ Says("response", d, {})
             /\ portal' = [portal EXCEPT ![d.generation].state = "open"]
          \/ /\ d.op = "bind"
             /\ \E ids \in SUBSET DOMAIN d.list :
                  /\ Says("response", d, ids)
                  /\ portal' = [portal EXCEPT ![d.generation] = [state |-> "bound", list |-> d.list, ids |-> ids]]
Press ==
  /\ counts.presses < MaxPresses
  /\ \E g \in Generations : \E i \in portal[g].ids :
       /\ portal[g].state = "bound"
       /\ inbox' = Append(inbox, [kind |-> "activated", op |-> "none", generation |-> g, ids |-> {i}])
  /\ counts' = [counts EXCEPT !.presses = @ + 1]
  /\ UNCHANGED <<desktop, backend, requests, dialogs, portal, compositor, told, excused, opened>>

-----------------------------------------------------------------------------
(* The backend.                                                             *)

Asking(op, b) == [op |-> op, generation |-> b.generation, list |-> IF op = "bind" THEN b.actions ELSE << >>]

\* clear_portal_backend closes the session that is known.
Closing == IF backend.session = 0 THEN << >>
           ELSE <<[op |-> "close", generation |-> backend.session, list |-> << >>]>>
\* start_portal_registration
StartPortal(b) ==
  /\ backend' = [b EXCEPT !.session = 0, !.bound = 0, !.registered = {}]
  /\ requests' = requests \o Closing \o (IF b.actions = << >> THEN << >> ELSE <<Asking("create", b)>>)
\* grab_x11_actions: another program may hold a key.
GrabX11(b) ==
  \E ids \in SUBSET DOMAIN b.actions :
    LET grabbed == [b EXCEPT !.registered = ids] IN
    IF ids = DOMAIN b.actions THEN backend' = grabbed /\ UNCHANGED fallback ELSE Fails(grabbed)

Gets(kind, op) ==
  /\ inbox # << >> /\ Head(inbox).kind = kind /\ Head(inbox).op = op
  /\ inbox' = Tail(inbox) /\ UNCHANGED <<desktop, dialogs, portal>>
\* Fault: the answer for a list that was replaced is heard.
HeardAlways == Live
\* What came for another list, or for a backend that is gone, is not heard.
Heard == Live /\ Head(inbox).generation = backend.generation

\* initialize_portal_or_fallback_async: the actions may have changed meanwhile.
Detects ==
  /\ UNCHANGED opened
  /\ \/ /\ Gets("response", "version")
        /\ IF backend.kind # "pending" THEN UNCHANGED <<backend, requests, fallback>>
           ELSE StartPortal([backend EXCEPT !.kind = "portal"]) /\ UNCHANGED fallback
     \/ /\ Gets("rejected", "version") \/ Gets("error", "version")
        /\ UNCHANGED requests
        /\ IF backend.kind # "pending" THEN UNCHANGED <<backend, fallback>>
           ELSE Fails([backend EXCEPT !.kind = "none"])
\* handle_portal_create_response and bind_portal_shortcut_async
Created ==
  /\ Gets("response", "create") /\ UNCHANGED <<fallback, opened>>
  /\ IF ~Heard THEN UNCHANGED <<backend, requests>>
     ELSE /\ backend' = [backend EXCEPT !.session = backend.generation]
          /\ requests' = Append(requests, Asking("bind", backend))
\* handle_portal_bind_response: all that was asked for, or it failed
Bound ==
  /\ Gets("response", "bind") /\ UNCHANGED <<requests, opened>>
  /\ IF ~Heard THEN UNCHANGED <<backend, fallback>>
     ELSE LET ids == Head(inbox).ids IN
          IF ids = DOMAIN backend.actions
          THEN /\ backend' = [backend EXCEPT !.bound = backend.generation, !.registered = DOMAIN backend.actions]
               /\ UNCHANGED fallback
          ELSE Fails(backend)
Rejected ==
  /\ \E op \in {"create", "bind"} : Gets("rejected", op) \/ Gets("error", op)
  /\ UNCHANGED <<requests, opened>>
  /\ IF Heard THEN Fails(backend) ELSE UNCHANGED <<backend, fallback>>
\* A call that the portal does not take times out, and may be answered later all the same.
TimesOut ==
  /\ Live /\ ~backend.failed
  /\ \E i \in DOMAIN requests :
       requests[i].op \in {"create", "bind"} /\ requests[i].generation = backend.generation
  /\ Fails(backend) /\ UNCHANGED <<desktop, bus, opened>>

OfThisBinding(m) == backend.bound = backend.generation /\ backend.session = m.generation
\* on_portal_activated and the launcher's look-up of the target
Activated ==
  /\ Gets("activated", "none") /\ UNCHANGED <<backend, requests, fallback>>
  /\ LET m == Head(inbox)
         i == CHOOSE i \in m.ids : TRUE
     IN  IF backend.kind = "portal" /\ OfThisBinding(m) /\ i \in DOMAIN backend.actions
         THEN opened' = [opens |-> backend.actions[i], meant |-> portal[m.generation].list[i]]
         ELSE UNCHANGED opened

-----------------------------------------------------------------------------
(* The launcher.                                                            *)

\* replace_registered_hotkeys and replace_hotkey_actions
Replace(list) ==
  /\ Live /\ list # backend.actions /\ backend.generation < MaxGenerations
  /\ UNCHANGED <<desktop, dialogs, inbox, portal, opened>>
  /\ LET b == [backend EXCEPT !.generation = @ + 1, !.actions = list, !.failed = FALSE, !.reported = FALSE,
                              !.registered = IF backend.kind = "x11" THEN @ ELSE {}]
     IN  \/ backend.kind = "portal" /\ StartPortal(b) /\ ClearExternal
         \/ backend.kind = "x11" /\ GrabX11(b) /\ UNCHANGED requests
         \/ /\ backend.kind \in {"pending", "none"} /\ UNCHANGED requests
            /\ IF list = << >> THEN backend' = b /\ ClearExternal
               ELSE IF backend.kind = "none" THEN Fails(b) ELSE backend' = b /\ UNCHANGED fallback
\* setup_hotkeys for etctl
Setup ==
  /\ Live /\ UNCHANGED <<desktop, backend, bus, opened>>
  /\ IF backend.actions = << >> THEN ClearExternal
     ELSE ~Pending /\ ~Registered /\ SetupExternal(backend.actions, FALSE)
\* destroy_hotkey_backend
Destroy ==
  /\ Live /\ requests' = requests \o Closing
  /\ backend' = [backend EXCEPT !.kind = "over", !.session = 0, !.bound = 0, !.registered = {}]
  /\ UNCHANGED <<desktop, dialogs, inbox, portal, fallback, opened>>

Bus == Takes \/ Responds \/ Detects \/ Created \/ Bound \/ Rejected \/ Activated
Next ==
  \/ Bus \/ Refuses \/ Press \/ TimesOut \/ (\E l \in Lists : Replace(l)) \/ Setup \/ Destroy
\* The portal and the user answer.
Progress == WF_vars(Bus)
Spec == Init /\ [][Next]_vars /\ Progress

-----------------------------------------------------------------------------
(* Properties.                                                             *)

\* A hotkey opens what it was pressed for, although the same id meant another connection
\* in the list before.
OpensMeant == opened.opens = opened.meant

\* What is reported as registered is bound in the session, completely and with this list;
\* a session with the user's keys is the current one, or is on its way to be closed.
StatusTrue ==
  /\ Registered /\ backend.kind = "portal" /\ backend.actions # << >> =>
       backend.session # 0 /\ portal[backend.session] = [state |-> "bound", list |-> backend.actions, ids |-> DOMAIN backend.actions]
  /\ \A g \in Generations : portal[g].state = "bound" =>
       g = backend.session \/ \E i \in DOMAIN requests : requests[i].op = "close" /\ requests[i].generation = g

\* Every list that is not registered is in the compositor's configuration, or the user was told.
Works ==
  Live /\ ~Pending /\ backend.actions # << >> => Registered \/ compositor = backend.actions \/ told

\* A key is not bound twice, by the portal and in the compositor, unless the bindings there
\* could not be removed or are an earlier launcher's, or a call was answered after it failed.
Twice == Live /\ backend.kind = "portal" /\ backend.bound = backend.generation /\ compositor # << >>
NoDouble == Twice => excused \/ backend.failed

HotkeySound == TypeOK /\ OpensMeant /\ StatusTrue /\ Works /\ NoDouble

\* "A previous portal rejection may have installed compositor bindings. Clear those before the
\* new portal request can succeed." (main.cpp:1233)
NeverTwice == ~Twice

\* With a portal that answers, the registration does not stay pending.
Unsettled == Pending
=============================================================================
