----------------------------- MODULE TrayBackend -----------------------------
(***************************************************************************)
(* The tray icon (tray-backend.cpp) and the launcher's window that it retains        *)
(* (main.cpp): a StatusNotifierItem when a watcher with a host is on the session bus, *)
(* an XEmbed icon otherwise, nothing where there is no X11 display.                   *)
(*                                                                         *)
(* Watchers are numbered in the order they come; 0 is none.  The bus delivers signals   *)
(* in order and late; the answer to a call may come before or after a signal.  One turn  *)
(* of monitor_backend_async, from one await to the next, is an action.                 *)
(***************************************************************************)
EXTENDS Naturals, Sequences

CONSTANTS Modes,        \* startup modes with a tray: "tray", "window_and_tray"
          Displays,     \* X11 displays: "none", "empty" without a tray, "tray"
          MaxWatchers, MaxChanges, MaxFailures   \* bounds: watchers, changes of host, failures

TrayConstants ==
  /\ Modes \subseteq {"tray", "window_and_tray"} /\ Displays \subseteq {"none", "empty", "tray"}
  /\ MaxWatchers \in Nat /\ MaxChanges \in Nat /\ MaxFailures \in Nat

VARIABLES
  desk,      \* the session: the watcher that owns the name, whether it has a host, the X11 display,
             \* who has our item, and what the bounds count
  signals,   \* on their way to the launcher
  monitor,   \* monitor_backend_async: where it is, the owner it asks, the answer that came, and
             \* whether it gave up on an error since the last event
  watcher,   \* watcher_owner, and whether watcher_revision moved since it was observed
  backend,   \* kind, availability, registered_owner, exported objects
  icon,      \* the GtkStatusIcon: "none", "created", "embedded"
  window,    \* of the launcher: "hidden", "shown", "destroyed"
  app        \* startup mode, activated, initial_activation_from_autostart, dirty editor, the
             \* question that is open, "runs", "quits", "over"; retained: the tray was available

bus == <<desk, signals>>
shown == <<backend, icon, window, app>>
vars == <<bus, monitor, watcher, shown>>

Watchers == 0..MaxWatchers

TypeOK ==
  /\ desk \in [owner : Watchers, last : Watchers, host : BOOLEAN, x : {"none", "empty", "tray"},
               items : SUBSET Watchers, changes : 0..MaxChanges, failures : 0..MaxFailures]
  /\ signals \in Seq([kind : {"appeared", "vanished", "host", "lost"}, sender : Watchers])
  /\ monitor \in [at : {"waits", "woken", "asks", "registers"}, owner : Watchers,
                  answer : {"none", "yes", "no", "error"}, failed : BOOLEAN]
  /\ watcher \in [owner : Watchers, moved : BOOLEAN]
  /\ backend \in [kind : {"none", "sni", "xembed"}, available : {"pending", "unavailable", "available"},
                  registered : Watchers, objects : BOOLEAN]
  /\ icon \in {"none", "created", "embedded"} /\ window \in {"hidden", "shown", "destroyed"}
  /\ app \in [mode : Modes, activated : BOOLEAN, atLogin : BOOLEAN, dirty : BOOLEAN,
              asks : {"none", "close", "quit"}, state : {"runs", "quits", "over"}, retained : BOOLEAN]

Init ==
  /\ \E o \in {0, 1} \cap Watchers, h \in BOOLEAN, x \in Displays :
       /\ h => o = 1
       /\ desk = [owner |-> o, last |-> o, host |-> h, x |-> x, items |-> {}, changes |-> 0, failures |-> 0]
       /\ signals = <<[kind |-> IF o = 1 THEN "appeared" ELSE "vanished", sender |-> o]>>
  /\ monitor = [at |-> "waits", owner |-> 0, answer |-> "none", failed |-> FALSE]
  /\ watcher = [owner |-> 0, moved |-> FALSE]
  /\ backend = [kind |-> "none", available |-> "pending", registered |-> 0, objects |-> FALSE]
  /\ icon = "none" /\ window = "hidden"
  /\ \E m \in Modes, l \in BOOLEAN :
       app = [mode |-> m, activated |-> FALSE, atLogin |-> l, dirty |-> FALSE, asks |-> "none",
              state |-> "runs", retained |-> FALSE]

Live == app.state # "over"

-----------------------------------------------------------------------------
(* The backend.  set_backend_availability tells the launcher of a change only, which   *)
(* presents a window that nothing retains: on_tray_availability_changed.             *)

Becomes(b) ==
  /\ backend' = b
  /\ IF b.available = backend.available \/ window = "destroyed" THEN UNCHANGED <<window, app>>
     ELSE LET now == b.available = "available" IN
          /\ app' = [app EXCEPT !.atLogin = @ /\ ~now, !.retained = @ \/ now]
          /\ window' = IF ~now /\ app.activated /\ app.mode = "tray" /\ ~app.atLogin
                       THEN "shown" ELSE window

\* create_fallback_backend
Fallback(b) ==
  LET forgets == [b EXCEPT !.registered = 0] IN
  IF b.kind = "xembed" THEN Becomes(forgets) /\ UNCHANGED icon
  ELSE IF desk.x = "none"
  THEN Becomes([forgets EXCEPT !.kind = "none", !.available = "unavailable"]) /\ UNCHANGED icon
  ELSE /\ Becomes([forgets EXCEPT !.kind = "xembed",
                     !.available = IF desk.x = "tray" THEN "available" ELSE "unavailable"])
       /\ icon' = "created"

\* on_watcher_appeared, on_watcher_vanished and on_watcher_host_changed with
\* notify_watcher_changed, which cancels the call that is under way.
Deliver ==
  /\ signals # <<>> /\ signals' = Tail(signals) /\ UNCHANGED desk
  /\ LET s == Head(signals)
         heard == Live /\ (s.kind \in {"appeared", "vanished"} \/ s.sender = watcher.owner)
     IN  IF ~heard THEN UNCHANGED <<monitor, watcher, shown>>
         ELSE /\ watcher' = [owner |-> IF s.kind = "vanished" THEN 0 ELSE s.sender, moved |-> TRUE]
              /\ monitor' = [monitor EXCEPT !.at = IF @ = "waits" THEN "woken" ELSE @]
              /\ IF s.kind \in {"vanished", "lost"} THEN Fallback(backend) ELSE UNCHANGED shown

\* The head of the loop: an event came since the last look.
Observes ==
  /\ watcher' = [watcher EXCEPT !.moved = FALSE] /\ UNCHANGED bus
  /\ IF watcher.owner = 0
     THEN /\ monitor' = [at |-> "waits", owner |-> 0, answer |-> "none", failed |-> FALSE]
          /\ Fallback(backend)
     ELSE /\ monitor' = [at |-> "asks", owner |-> watcher.owner, answer |-> "none", failed |-> FALSE]
          /\ UNCHANGED shown
\* A call under way whose answer is superseded, or that is cancelled, changes nothing.
Resume ==
  /\ Live /\ Observes
  /\ monitor.at = "woken" \/ (monitor.at \in {"asks", "registers"} /\ watcher.moved)

\* The watcher does what it is asked; a call to one that is gone fails.
Answers(answer) == monitor' = [monitor EXCEPT !.answer = answer]
Replies ==
  /\ monitor.at \in {"asks", "registers"} /\ monitor.answer = "none"
  /\ \/ /\ monitor.owner = desk.owner /\ monitor.at = "asks"
        /\ Answers(IF desk.host THEN "yes" ELSE "no") /\ UNCHANGED desk
     \/ /\ monitor.owner = desk.owner /\ monitor.at = "registers"
        /\ Answers("yes") /\ desk' = [desk EXCEPT !.items = @ \cup {desk.owner}]
     \/ monitor.owner # desk.owner /\ Answers("error") /\ UNCHANGED desk
     \/ /\ monitor.owner = desk.owner /\ desk.failures < MaxFailures
        /\ Answers("error") /\ desk' = [desk EXCEPT !.failures = @ + 1]
  /\ UNCHANGED <<signals, watcher, shown>>

Answered(at, answer) ==
  Live /\ monitor.at = at /\ monitor.answer = answer /\ ~watcher.moved /\ UNCHANGED <<signals, watcher>>
Waits(failed) == monitor' = [monitor EXCEPT !.at = "waits", !.answer = "none", !.failed = failed]
NoHost == Answered("asks", "no") /\ Waits(FALSE) /\ Fallback(backend) /\ UNCHANGED desk
Error ==
  /\ Answered("asks", "error") \/ Answered("registers", "error")
  /\ Waits(TRUE) /\ Fallback([backend EXCEPT !.objects = FALSE]) /\ UNCHANGED desk
StillRegistered ==
  /\ Answered("asks", "yes") /\ backend.registered = monitor.owner /\ Waits(FALSE) /\ UNCHANGED <<desk, shown>>
\* register_status_notifier_objects, which may fail, and RegisterStatusNotifierItem
Exports ==
  /\ Answered("asks", "yes") /\ backend.registered # monitor.owner
  /\ \/ /\ monitor' = [monitor EXCEPT !.at = "registers", !.answer = "none"]
        /\ backend' = [backend EXCEPT !.objects = TRUE] /\ UNCHANGED <<desk, icon, window, app>>
     \/ /\ ~backend.objects /\ desk.failures < MaxFailures /\ desk' = [desk EXCEPT !.failures = @ + 1]
        /\ Waits(TRUE) /\ Fallback(backend)
\* Fault: the XEmbed icon stays.
KeepsIcon == UNCHANGED icon
DestroysIcon == icon' = "none"
Registered ==
  /\ Answered("registers", "yes") /\ Waits(FALSE) /\ DestroysIcon
  /\ Becomes([backend EXCEPT !.kind = "sni", !.registered = monitor.owner, !.available = "available"])
  /\ UNCHANGED desk

-----------------------------------------------------------------------------
(* The session.                                                             *)

Sends(kind, sender) == signals' = Append(signals, [kind |-> kind, sender |-> sender])
WatcherComes ==
  /\ desk.owner = 0 /\ desk.last < MaxWatchers
  /\ desk' = [desk EXCEPT !.owner = desk.last + 1, !.last = @ + 1, !.host = FALSE]
  /\ Sends("appeared", desk.last + 1) /\ UNCHANGED <<monitor, watcher, shown>>
WatcherGoes ==
  /\ desk.owner # 0 /\ desk' = [desk EXCEPT !.owner = 0, !.host = FALSE]
  /\ Sends("vanished", 0) /\ UNCHANGED <<monitor, watcher, shown>>
HostChanges ==
  /\ desk.owner # 0 /\ desk.changes < MaxChanges
  /\ desk' = [desk EXCEPT !.host = ~@, !.changes = @ + 1]
  /\ Sends(IF desk.host THEN "lost" ELSE "host", desk.owner) /\ UNCHANGED <<monitor, watcher, shown>>

\* notify::embedded
Embedding(to, available) ==
  icon' = to /\ Becomes([backend EXCEPT !.available = available]) /\ UNCHANGED <<signals, monitor, watcher>>
IconEmbeds == icon = "created" /\ desk.x = "tray" /\ Embedding("embedded", "available") /\ UNCHANGED desk
\* The X11 tray comes and goes; it does not go between the check and the embedding.
XTrayComes ==
  /\ desk.x = "empty" /\ desk.changes < MaxChanges
  /\ desk' = [desk EXCEPT !.x = "tray", !.changes = @ + 1] /\ UNCHANGED <<signals, monitor, watcher, shown>>
XTrayGoes ==
  /\ desk.x = "tray" /\ icon # "created" /\ desk.changes < MaxChanges
  /\ desk' = [desk EXCEPT !.x = "empty", !.changes = @ + 1]
  /\ IF icon = "embedded" THEN Embedding("created", "unavailable")
     ELSE UNCHANGED <<signals, monitor, watcher, shown>>

-----------------------------------------------------------------------------
(* The window of the launcher.                                               *)

Quiets == UNCHANGED <<bus, monitor, watcher, backend, icon>>
Usable == Live /\ window # "destroyed"
\* on_application_activate: the first start, and every later one.
Activate ==
  /\ Usable /\ Quiets /\ app' = [app EXCEPT !.activated = TRUE]
  /\ window' = IF \/ app.activated \/ app.mode = "window_and_tray"
                  \/ backend.available = "unavailable" /\ ~app.atLogin
               THEN "shown" ELSE window
\* The tray's "Open", the hotkey, and etctl.
Opens ==
  /\ Usable /\ app.state = "runs" /\ app.activated /\ window' = "shown" /\ Quiets /\ UNCHANGED app
Edits == Usable /\ window = "shown" /\ app' = [app EXCEPT !.dirty = ~@] /\ Quiets /\ UNCHANGED window

\* on_window_destroy
Destroys(quits) ==
  /\ window' = "destroyed"
  /\ app' = [app EXCEPT !.asks = "none", !.state = IF quits \/ backend.available # "available" THEN "quits" ELSE @]
Asks(what) == app' = [app EXCEPT !.asks = IF @ = "none" THEN what ELSE @] /\ window' = "shown"
\* on_window_delete
Close ==
  /\ Usable /\ window = "shown" /\ app.state = "runs" /\ Quiets
  /\ IF backend.available = "available" THEN window' = "hidden" /\ UNCHANGED app
     ELSE IF app.dirty THEN Asks("close") ELSE Destroys(FALSE)
\* request_application_quit, from the tray
Quit ==
  /\ app.state = "runs" /\ backend.available = "available" /\ Quiets
  /\ IF window = "destroyed" THEN app' = [app EXCEPT !.state = "quits"] /\ UNCHANGED window
     ELSE IF app.dirty THEN Asks("quit") ELSE Destroys(TRUE)
\* on_confirmation_response
Responds ==
  /\ Usable /\ app.asks # "none" /\ Quiets
  /\ \/ Destroys(app.asks = "quit")
     \/ app' = [app EXCEPT !.asks = "none"] /\ UNCHANGED window
\* on_application_shutdown with destroy_tray_backend
Shutdown ==
  /\ app.state = "quits" /\ app' = [app EXCEPT !.state = "over"] /\ window' = "destroyed"
  /\ backend' = [backend EXCEPT !.available = "unavailable", !.objects = FALSE] /\ icon' = "none"
  /\ UNCHANGED <<bus, monitor, watcher>>

Monitor == Deliver \/ Resume \/ Replies \/ NoHost \/ Error \/ StillRegistered \/ Exports \/ Registered
Next ==
  \/ Monitor \/ WatcherComes \/ WatcherGoes \/ HostChanges \/ IconEmbeds \/ XTrayComes \/ XTrayGoes
  \/ Activate \/ Opens \/ Edits \/ Close \/ Quit \/ Responds \/ Shutdown

Spec == Init /\ [][Next]_vars
\* The dispatcher runs what is ready, the bus delivers, and every call is answered.
FairSpec == Spec /\ WF_vars(Monitor)

-----------------------------------------------------------------------------
(* Properties.                                                             *)

\* Whatever came while the monitor was busy, once all is quiet the icon is where the desktop
\* shows it: with the watcher that owns the name now, if it has a host and no call failed.
Quiet == Live /\ signals = <<>> /\ monitor.at = "waits"
Hosted == desk.owner # 0 /\ desk.host /\ ~monitor.failed
Settled ==
  Quiet =>
    /\ watcher.owner = desk.owner
    /\ Hosted => /\ backend.kind = "sni" /\ backend.registered = desk.owner
                 /\ backend.objects /\ desk.owner \in desk.items
    /\ ~Hosted => backend.kind = (IF desk.x = "none" THEN "none" ELSE "xembed")

\* One icon at most, and the launcher counts on the tray only while there is one: an icon
\* in the X11 tray, or an item that this watcher has.
OneIcon ==
  /\ (icon # "none") = (Live /\ backend.kind = "xembed")
  /\ backend.available = "available" =>
       \/ backend.kind = "xembed" /\ desk.x = "tray"
       \/ backend.kind = "sni" /\ backend.registered # 0 /\ backend.objects /\ backend.registered \in desk.items

\* In the mode "System tray only" a window is hidden only while a tray retains it, or may
\* do so yet, or as long as a start at login found none.
Retained ==
  app.state = "runs" /\ app.activated /\ app.mode = "tray" /\ window = "hidden"
    => backend.available # "unavailable" \/ app.atLogin

TraySound == TypeOK /\ Settled /\ OneIcon /\ Retained

\* An event is acted upon: the tray does not stay pending.
Unsettled == Live /\ (signals # <<>> \/ monitor.at # "waits")
=============================================================================
