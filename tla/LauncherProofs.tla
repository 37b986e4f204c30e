--------------------------- MODULE LauncherProofs ---------------------------
(***************************************************************************)
(* Proofs about the launcher.                                               *)
(*                                                                         *)
(* TrayBackend, for any number of watchers, changes and failures: the icon is   *)
(* where the desktop shows it, and no window is hidden that nothing calls back.  *)
(*                                                                         *)
(* Settings, for any keys, texts and files: an open editor shows what a fresh    *)
(* one would, what it saves is read back, and a launch fails closed.            *)
(***************************************************************************)
EXTENDS TrayBackend, Settings, SequenceTheorems, TLAPS

-----------------------------------------------------------------------------
(* The invariant.                                                          *)

\* The owner the launcher knows when it has taken the first i signals.
Told(i) == IF i = 0 THEN watcher.owner ELSE signals[i].sender

\* The signals lead to the owner of now, and a host's signal is of the owner before it.
Leads == Told(Len(signals)) = desk.owner
Vanishes == \A i \in DOMAIN signals : signals[i].kind = "vanished" => signals[i].sender = 0
Hears == \A i \in DOMAIN signals :
           signals[i].kind \in {"host", "lost"} => signals[i].sender = Told(i - 1)
Signals == Live => Leads /\ Vanishes /\ Hears

\* A monitor that waits has seen every event; a call is to the watcher last seen.
Monitors ==
  Live =>
    /\ monitor.at = "waits" => ~watcher.moved
    /\ monitor.at \in {"asks", "registers"} =>
         monitor.owner # 0 /\ (watcher.moved \/ monitor.owner = watcher.owner)
    /\ monitor.at = "registers" =>
         backend.objects /\ (monitor.answer = "yes" => monitor.owner \in desk.items)

\* When no event is on its way, what the monitor learned of the host is so.
UpToDate == Live /\ signals = <<>> /\ ~watcher.moved
Hosts ==
  UpToDate =>
    /\ monitor.at = "asks" => /\ monitor.answer = "yes" => desk.host
                              /\ monitor.answer = "no" => ~desk.host
    /\ monitor.at = "registers" => desk.host

\* A registration that is remembered is there, and an XEmbed icon has a display.
Icons ==
  /\ OneIcon
  /\ backend.kind = "xembed" => desk.x # "none"
  /\ backend.available = "available" => Live
  /\ Live /\ backend.registered # 0 =>
       backend.kind = "sni" /\ backend.objects /\ backend.registered \in desk.items

TrayInv == TypeOK /\ Signals /\ Monitors /\ Hosts /\ Icons /\ Settled /\ Retained

-----------------------------------------------------------------------------
(* Types.                                                                  *)

Desks == [owner : Watchers, last : Watchers, host : BOOLEAN, x : {"none", "empty", "tray"},
          items : SUBSET Watchers, changes : 0..MaxChanges, failures : 0..MaxFailures]
Signal == [kind : {"appeared", "vanished", "host", "lost"}, sender : Watchers]
Monitoring == [at : {"waits", "woken", "asks", "registers"}, owner : Watchers,
               answer : {"none", "yes", "no", "error"}, failed : BOOLEAN]
Watching == [owner : Watchers, moved : BOOLEAN]
Backends == [kind : {"none", "sni", "xembed"}, available : {"pending", "unavailable", "available"},
             registered : Watchers, objects : BOOLEAN]
Apps == [mode : Modes, activated : BOOLEAN, atLogin : BOOLEAN, dirty : BOOLEAN,
         asks : {"none", "close", "quit"}, state : {"runs", "quits", "over"}, retained : BOOLEAN]
Visible == /\ backend \in Backends /\ icon \in {"none", "created", "embedded"}
         /\ window \in {"hidden", "shown", "destroyed"} /\ app \in Apps
Typed == /\ desk \in Desks /\ signals \in Seq(Signal) /\ monitor \in Monitoring
         /\ watcher \in Watching /\ Visible

\* The names stand for the types, now and in the next state.
LEMMA TypeParts == (TypeOK <=> Typed) /\ (TypeOK' <=> Typed')
BY DEF TypeOK, Typed, Visible, Desks, Signal, Monitoring, Watching, Backends, Apps

\* Zero, no watcher, is of the watchers.
LEMMA NoWatcher == ASSUME TrayConstants PROVE 0 \in Watchers /\ Watchers \subseteq Nat
BY DEF TrayConstants, Watchers

-----------------------------------------------------------------------------
(* The backend and the window it retains.                                   *)

\* A change of availability keeps the window that nothing retains on the screen.
LEMMA Presents ==
  ASSUME Visible, Retained, NEW b \in Backends, Becomes(b)
  PROVE  /\ backend' = b /\ window' \in {"hidden", "shown", "destroyed"} /\ app' \in Apps
         /\ Live' = Live /\ Retained'
<1>1. backend' = b
  BY DEF Becomes
<1>2. CASE b.available = backend.available \/ window = "destroyed"
  <2>1. UNCHANGED <<window, app>>
    BY <1>2 DEF Becomes
  <2>2. b.available = backend.available \/ window' = "destroyed"
    BY <1>2, <2>1
  <2> QED BY <1>1, <2>1, <2>2 DEF Retained, Live, Visible
<1>3. CASE ~(b.available = backend.available \/ window = "destroyed")
  <2>1. PICK now \in BOOLEAN : now = (b.available = "available")
    OBVIOUS
  <2>2. /\ app' = [app EXCEPT !.atLogin = @ /\ ~now, !.retained = @ \/ now]
        /\ window' = IF ~now /\ app.activated /\ app.mode = "tray" /\ ~app.atLogin
                     THEN "shown" ELSE window
    BY <1>3, <2>1 DEF Becomes
  <2>3. /\ app'.state = app.state /\ app'.activated = app.activated /\ app'.mode = app.mode
        /\ app'.atLogin = (app.atLogin /\ ~now)
    BY <2>2 DEF Visible, Apps
  <2>4. (app.atLogin /\ ~now) \in BOOLEAN /\ (app.retained \/ now) \in BOOLEAN
    BY <2>1 DEF Visible, Apps
  <2>5. app' \in Apps
    BY <2>2, <2>4 DEF Visible, Apps
  <2>6. window' \in {"hidden", "shown", "destroyed"}
    BY <2>2 DEF Visible
  <2>7. Retained'
    BY <1>1, <2>1, <2>2, <2>3 DEF Retained
  <2> QED BY <1>1, <2>3, <2>5, <2>6, <2>7 DEF Live
<1> QED BY <1>2, <1>3

\* Without a watcher: an XEmbed icon where there is a display, nothing elsewhere.
LEMMA FallsBack ==
  ASSUME TrayConstants, Visible, Retained, Icons, Live, desk.x \in {"none", "empty", "tray"},
         NEW b \in Backends, b.kind = backend.kind, b.available = backend.available, Fallback(b)
  PROVE  /\ Visible' /\ Live' = Live /\ Retained'
         /\ backend'.kind = (IF desk.x = "none" THEN "none" ELSE "xembed")
         /\ backend'.registered = 0 /\ backend'.objects = b.objects
         /\ (icon' # "none") = (backend'.kind = "xembed")
         /\ backend'.available = "available" => desk.x = "tray"
<1> DEFINE forgets == [b EXCEPT !.registered = 0]
<1>1. forgets \in Backends /\ forgets.kind = b.kind /\ forgets.available = b.available
      /\ forgets.registered = 0 /\ forgets.objects = b.objects
  BY NoWatcher DEF Backends
<1>2. CASE b.kind = "xembed"
  <2>1. Becomes(forgets) /\ UNCHANGED icon
    BY <1>2 DEF Fallback
  <2> HIDE DEF forgets
  <2>2. /\ backend' = forgets /\ window' \in {"hidden", "shown", "destroyed"} /\ app' \in Apps
        /\ Live' = Live /\ Retained'
    BY <1>1, <2>1, Presents
  <2>3. /\ desk.x # "none" /\ (icon # "none") = TRUE
        /\ backend.available = "available" => desk.x = "tray"
    BY <1>2 DEF Icons, OneIcon
  <2> QED BY <1>1, <1>2, <2>1, <2>2, <2>3 DEF Visible
<1>3. CASE b.kind # "xembed" /\ desk.x = "none"
  <2> DEFINE c == [forgets EXCEPT !.kind = "none", !.available = "unavailable"]
  <2>1. Becomes(c) /\ UNCHANGED icon
    BY <1>3 DEF Fallback
  <2>2. c \in Backends /\ c.kind = "none" /\ c.available = "unavailable"
        /\ c.registered = 0 /\ c.objects = b.objects
    BY <1>1 DEF Backends
  <2> HIDE DEF c
  <2>3. /\ backend' = c /\ window' \in {"hidden", "shown", "destroyed"} /\ app' \in Apps
        /\ Live' = Live /\ Retained'
    BY <2>1, <2>2, Presents
  <2>4. icon = "none"
    BY <1>3 DEF Icons, OneIcon
  <2> QED BY <1>3, <2>1, <2>2, <2>3, <2>4 DEF Visible
<1>4. CASE b.kind # "xembed" /\ desk.x # "none"
  <2> DEFINE c == [forgets EXCEPT !.kind = "xembed",
                     !.available = IF desk.x = "tray" THEN "available" ELSE "unavailable"]
  <2>1. Becomes(c) /\ icon' = "created"
    BY <1>4 DEF Fallback
  <2>2. /\ c \in Backends /\ c.kind = "xembed" /\ (c.available = "available" => desk.x = "tray")
        /\ c.registered = 0 /\ c.objects = b.objects
    BY <1>1 DEF Backends
  <2> HIDE DEF c
  <2>3. /\ backend' = c /\ window' \in {"hidden", "shown", "destroyed"} /\ app' \in Apps
        /\ Live' = Live /\ Retained'
    BY <2>1, <2>2, Presents
  <2> QED BY <1>4, <2>1, <2>2, <2>3 DEF Visible
<1> QED BY <1>2, <1>3, <1>4

-----------------------------------------------------------------------------
(* The window and the session.                                             *)

\* What the user does with the window leaves the rest alone.
LEMMA QuietKeeps ==
  ASSUME TrayInv, Quiets, window' \in {"hidden", "shown", "destroyed"}, app' \in Apps,
         Live' = Live, Retained'
  PROVE  TrayInv'
<1>1. UNCHANGED <<desk, signals, monitor, watcher, backend, icon>>
  BY DEF Quiets, bus
<1>2. TypeOK'
  BY <1>1, TypeParts DEF TrayInv, Typed, Visible
<1>3. Signals'
  BY <1>1 DEF TrayInv, Signals, Leads, Vanishes, Hears, Told
<1>4. Monitors' /\ Hosts' /\ Icons' /\ Settled'
  BY <1>1 DEF TrayInv, Monitors, Hosts, UpToDate, Icons, OneIcon, Settled, Quiet, Hosted
<1> QED BY <1>2, <1>3, <1>4 DEF TrayInv

\* Every step of the user.
LEMMA WindowKeeps ==
  ASSUME TrayInv, Activate \/ Opens \/ Edits \/ Close \/ Quit \/ Responds
  PROVE  TrayInv'
<1> DEFINE Kept == /\ Quiets /\ window' \in {"hidden", "shown", "destroyed"} /\ app' \in Apps
                   /\ Live' = Live /\ Retained'
<1>1. app \in Apps /\ window \in {"hidden", "shown", "destroyed"} /\ Retained
  BY TypeParts DEF TrayInv, Typed, Visible
<1>2. ASSUME Quiets PROVE backend' = backend
  BY <1>2 DEF Quiets
<1>3. ASSUME NEW quits \in BOOLEAN, Quiets, Live, Destroys(quits) PROVE Kept
  <2>1. app' \in Apps /\ app'.state # "over" /\ window' = "destroyed"
    BY <1>1, <1>3 DEF Destroys, Apps, Live
  <2> QED BY <1>3, <2>1 DEF Live, Retained
<1>4. ASSUME NEW what \in {"close", "quit"}, Quiets, Asks(what) PROVE Kept
  <2>1. app' \in Apps /\ app'.state = app.state /\ window' = "shown"
    BY <1>1, <1>4 DEF Asks, Apps
  <2> QED BY <1>4, <2>1 DEF Live, Retained
<1>5. CASE Activate
  <2>1. /\ app' \in Apps /\ app'.state = app.state /\ app'.activated /\ app'.mode = app.mode
        /\ app'.atLogin = app.atLogin
    BY <1>1, <1>5 DEF Activate, Apps
  <2>2. Quiets /\ window' \in {"hidden", "shown", "destroyed"}
    BY <1>1, <1>5 DEF Activate
  <2>3. window' = "hidden" => backend.available # "unavailable" \/ app.atLogin
    BY <1>1, <1>5 DEF Activate
  <2>4. Retained'
    BY <1>2, <2>1, <2>2, <2>3 DEF Retained
  <2> QED BY <2>1, <2>2, <2>4, QuietKeeps DEF Live
<1>6. CASE Opens
  <2>1. Kept
    BY <1>1, <1>6 DEF Opens, Retained, Live
  <2> QED BY <2>1, QuietKeeps
<1>7. CASE Edits
  <2>1. app' \in Apps /\ app'.state = app.state
    BY <1>1, <1>7 DEF Edits, Apps
  <2>2. Kept
    BY <1>1, <1>7, <2>1 DEF Edits, Retained, Live
  <2> QED BY <2>2, QuietKeeps
<1>8. CASE Close
  <2>1. Quiets /\ Live
    BY <1>8 DEF Close, Usable
  <2>2. CASE backend.available = "available"
    <3>1. Kept
      BY <1>1, <1>2, <1>8, <2>1, <2>2 DEF Close, Retained, Live
    <3> QED BY <3>1, QuietKeeps
  <2>3. CASE backend.available # "available" /\ app.dirty
    <3>1. Kept
      BY <1>4, <1>8, <2>1, <2>3 DEF Close
    <3> QED BY <3>1, QuietKeeps
  <2>4. CASE backend.available # "available" /\ ~app.dirty
    <3>1. Kept
      BY <1>3, <1>8, <2>1, <2>4 DEF Close
    <3> QED BY <3>1, QuietKeeps
  <2> QED BY <2>2, <2>3, <2>4
<1>9. CASE Quit
  <2>1. Quiets /\ Live
    BY <1>9 DEF Quit, Live
  <2>2. CASE window = "destroyed"
    <3>1. app' = [app EXCEPT !.state = "quits"] /\ window' = window
      BY <1>9, <2>2 DEF Quit
    <3>2. app' \in Apps /\ app'.state = "quits"
      BY <1>1, <3>1 DEF Apps
    <3>3. Kept
      BY <1>1, <2>1, <3>1, <3>2 DEF Retained, Live
    <3> QED BY <3>3, QuietKeeps
  <2>3. CASE window # "destroyed" /\ app.dirty
    <3>1. Kept
      BY <1>4, <1>9, <2>1, <2>3 DEF Quit
    <3> QED BY <3>1, QuietKeeps
  <2>4. CASE window # "destroyed" /\ ~app.dirty
    <3>1. Kept
      BY <1>3, <1>9, <2>1, <2>4 DEF Quit
    <3> QED BY <3>1, QuietKeeps
  <2> QED BY <2>2, <2>3, <2>4
<1>10. CASE Responds
  <2>1. Quiets /\ Live
    BY <1>10 DEF Responds, Usable
  <2>2. CASE Destroys(app.asks = "quit")
    <3>1. Kept
      BY <1>3, <2>1, <2>2
    <3> QED BY <3>1, QuietKeeps
  <2>3. CASE app' = [app EXCEPT !.asks = "none"] /\ UNCHANGED window
    <3>1. /\ app' \in Apps /\ app'.state = app.state /\ app'.activated = app.activated
          /\ app'.mode = app.mode /\ app'.atLogin = app.atLogin
      BY <1>1, <2>3 DEF Apps
    <3>2. Kept
      BY <1>1, <1>2, <2>1, <2>3, <3>1 DEF Retained, Live
    <3> QED BY <3>2, QuietKeeps
  <2> QED BY <1>10, <2>2, <2>3 DEF Responds
<1> QED BY <1>5, <1>6, <1>7, <1>8, <1>9, <1>10

\* A launcher that is over shows nothing.
LEMMA ShutdownKeeps ==
  ASSUME TrayInv, Shutdown PROVE TrayInv'
<1>1. /\ app' \in Apps /\ app'.state = "over" /\ window' = "destroyed" /\ icon' = "none"
      /\ backend' \in Backends /\ backend'.available = "unavailable" /\ backend'.kind = backend.kind
      /\ UNCHANGED <<desk, signals, monitor, watcher>>
  BY TypeParts DEF TrayInv, Typed, Visible, Apps, Backends, Shutdown, bus
<1>2. ~Live'
  BY <1>1 DEF Live
<1>3. TypeOK'
  BY <1>1, TypeParts DEF TrayInv, Typed, Visible
<1> QED BY <1>1, <1>2, <1>3 DEF TrayInv, Signals, Monitors, Hosts, UpToDate, Icons, OneIcon, Settled,
                              Quiet, Retained

\* A change of the session is on its way before anything else is.
LEMMA SendKeeps ==
  ASSUME TrayInv, NEW s \in Signal, signals' = Append(signals, s), desk' \in Desks,
         desk'.x = desk.x, desk'.items = desk.items, s.sender = desk'.owner,
         s.kind = "vanished" => s.sender = 0, s.kind \in {"host", "lost"} => s.sender = desk.owner,
         UNCHANGED <<monitor, watcher, shown>>
  PROVE  TrayInv'
<1>1. signals \in Seq(Signal) /\ Typed
  BY TypeParts DEF TrayInv, Typed
<1>2. /\ signals' \in Seq(Signal) /\ Len(signals') = Len(signals) + 1 /\ signals'[Len(signals')] = s
      /\ \A i \in 1..Len(signals) : signals'[i] = signals[i]
      /\ Len(signals) \in Nat /\ signals' # <<>>
      /\ DOMAIN signals = 1..Len(signals) /\ DOMAIN signals' = 1..Len(signals')
  BY <1>1
<1>3. UNCHANGED <<monitor, watcher, backend, icon, window, app>>
  BY DEF shown
<1>4. TypeOK'
  BY <1>1, <1>2, <1>3, TypeParts DEF Typed, Visible
<1>5. Signals'
  <2> SUFFICES ASSUME Live PROVE Leads' /\ Vanishes' /\ Hears'
    BY <1>3 DEF Signals, Live
  <2>0. Leads /\ Vanishes /\ Hears
    BY DEF TrayInv, Signals
  <2>1. ASSUME NEW i \in 0..Len(signals) PROVE Told(i)' = Told(i)
    <3>1. i = 0 \/ signals'[i] = signals[i]
      BY <1>2
    <3> QED BY <1>3, <3>1 DEF Told
  <2>2. Leads'
    BY <1>2 DEF Leads, Told
  <2>3. ASSUME NEW i \in DOMAIN signals'
        PROVE  \/ i \in DOMAIN signals /\ signals'[i] = signals[i]
               \/ i = Len(signals) + 1 /\ signals'[i] = s
    BY <1>2
  <2>4. Vanishes'
    BY <2>0, <2>3 DEF Vanishes
  <2>5. Hears'
    <3> SUFFICES ASSUME NEW i \in DOMAIN signals', signals'[i].kind \in {"host", "lost"},
                        NEW k, k = i - 1
                 PROVE  signals'[i].sender = Told(k)'
      BY DEF Hears, Told
    <3>1. k \in 0..Len(signals)
      BY <1>2
    <3>2. signals'[i].sender = Told(k)
      BY <1>2, <2>0, <2>3 DEF Hears, Leads
    <3> QED BY <2>1, <3>1, <3>2
  <2> QED BY <2>2, <2>4, <2>5
<1>6. Monitors' /\ Icons' /\ Retained'
  BY <1>3 DEF TrayInv, Monitors, Icons, OneIcon, Retained, Live
<1>7. Hosts' /\ Settled'
  BY <1>2 DEF Hosts, UpToDate, Settled, Quiet
<1> QED BY <1>4, <1>5, <1>6, <1>7 DEF TrayInv

\* Watchers come and go, and their host.
LEMMA SessionKeeps ==
  ASSUME TrayConstants, TrayInv, WatcherComes \/ WatcherGoes \/ HostChanges
  PROVE  TrayInv'
<1>1. desk \in Desks
  BY TypeParts DEF TrayInv, Typed
<1>2. ASSUME NEW kind \in {"appeared", "vanished", "host", "lost"}, NEW sender \in Watchers,
             Sends(kind, sender), desk' \in Desks, desk'.x = desk.x, desk'.items = desk.items,
             sender = desk'.owner, kind = "vanished" => sender = 0,
             kind \in {"host", "lost"} => sender = desk.owner, UNCHANGED <<monitor, watcher, shown>>
      PROVE  TrayInv'
  <2>1. PICK s \in Signal : s = [kind |-> kind, sender |-> sender]
    BY DEF Signal
  <2>2. signals' = Append(signals, s) /\ s.kind = kind /\ s.sender = sender
    BY <1>2, <2>1 DEF Sends
  <2> QED BY <1>2, <2>2, SendKeeps
<1>3. CASE WatcherComes
  <2>1. desk' = [desk EXCEPT !.owner = desk.last + 1, !.last = @ + 1, !.host = FALSE]
        /\ Sends("appeared", desk.last + 1) /\ UNCHANGED <<monitor, watcher, shown>>
    BY <1>3 DEF WatcherComes
  <2>2. desk.last + 1 \in Watchers
    BY <1>1, <1>3 DEF WatcherComes, Desks, Watchers, TrayConstants
  <2>3. desk' \in Desks /\ desk'.x = desk.x /\ desk'.items = desk.items /\ desk'.owner = desk.last + 1
    BY <1>1, <2>1, <2>2 DEF Desks
  <2> QED BY <1>2, <2>1, <2>2, <2>3
<1>4. CASE WatcherGoes
  <2>1. desk' = [desk EXCEPT !.owner = 0, !.host = FALSE]
        /\ Sends("vanished", 0) /\ UNCHANGED <<monitor, watcher, shown>>
    BY <1>4 DEF WatcherGoes
  <2>2. desk' \in Desks /\ desk'.x = desk.x /\ desk'.items = desk.items /\ desk'.owner = 0
    BY <1>1, <2>1, NoWatcher DEF Desks
  <2> QED BY <1>2, <2>1, <2>2, NoWatcher
<1>5. CASE HostChanges
  <2>1. /\ desk' = [desk EXCEPT !.host = ~@, !.changes = @ + 1] /\ desk.changes < MaxChanges
        /\ Sends(IF desk.host THEN "lost" ELSE "host", desk.owner) /\ UNCHANGED <<monitor, watcher, shown>>
    BY <1>5 DEF HostChanges
  <2>2. desk.changes + 1 \in 0..MaxChanges /\ (~desk.host) \in BOOLEAN
    BY <1>1, <2>1 DEF Desks, TrayConstants
  <2>3. desk' \in Desks /\ desk'.x = desk.x /\ desk'.items = desk.items /\ desk'.owner = desk.owner
    BY <1>1, <2>1, <2>2 DEF Desks
  <2>4. desk.owner \in Watchers
    BY <1>1 DEF Desks
  <2> QED BY <1>2, <2>1, <2>3, <2>4
<1> QED BY <1>3, <1>4, <1>5

-----------------------------------------------------------------------------
(* The icon.                                                                *)

\* Nothing is sent, and nothing is heard.
LEMMA SignalsStay ==
  ASSUME Signals, signals' = signals, watcher'.owner = watcher.owner, desk'.owner = desk.owner,
         Live' = Live
  PROVE  Signals'
BY DEF Signals, Leads, Vanishes, Hears, Told

\* The icon is embedded, or loses the tray it was in.
LEMMA EmbeddingKeeps ==
  ASSUME TrayInv, NEW to \in {"created", "embedded"}, NEW available \in {"unavailable", "available"},
         icon # "none", Embedding(to, available), desk' \in Desks,
         desk'.owner = desk.owner, desk'.host = desk.host, desk'.items = desk.items,
         (desk'.x = "none") = (desk.x = "none"), available = "available" => desk'.x = "tray"
  PROVE  TrayInv'
<1> DEFINE b == [backend EXCEPT !.available = available]
<1>1. Typed /\ Visible /\ Retained
  BY TypeParts DEF TrayInv, Typed
<1>2. /\ b \in Backends /\ b.kind = backend.kind /\ b.registered = backend.registered
      /\ b.objects = backend.objects /\ b.available = available
  BY <1>1 DEF Visible, Backends
<1>3. Becomes(b) /\ icon' = to /\ UNCHANGED <<signals, monitor, watcher>>
  BY DEF Embedding
<1> HIDE DEF b
<1>4. /\ backend' = b /\ window' \in {"hidden", "shown", "destroyed"} /\ app' \in Apps
      /\ Live' = Live /\ Retained'
  BY <1>1, <1>2, <1>3, Presents
<1>5. TypeOK'
  BY <1>1, <1>2, <1>3, <1>4, TypeParts DEF Typed, Visible
<1>6. Live /\ backend.kind = "xembed" /\ desk.x # "none"
  BY DEF TrayInv, Icons, OneIcon
<1>7. Signals'
  BY <1>3, <1>4, SignalsStay DEF TrayInv
<1>8. Monitors' /\ Hosts'
  BY <1>2, <1>3, <1>4 DEF TrayInv, Monitors, Hosts, UpToDate
<1>9. Icons'
  BY <1>2, <1>3, <1>4, <1>6 DEF TrayInv, Icons, OneIcon
<1>10. Settled'
  BY <1>2, <1>3, <1>4 DEF TrayInv, Settled, Quiet, Hosted
<1> QED BY <1>4, <1>5, <1>7, <1>8, <1>9, <1>10 DEF TrayInv

\* The X11 tray comes and goes.
LEMMA XTrayKeeps ==
  ASSUME TrayConstants, TrayInv, IconEmbeds \/ XTrayComes \/ XTrayGoes
  PROVE  TrayInv'
<1>1. Typed /\ desk \in Desks
  BY TypeParts DEF TrayInv, Typed
<1>2. CASE IconEmbeds
  <2>1. icon = "created" /\ desk.x = "tray" /\ Embedding("embedded", "available") /\ desk' = desk
    BY <1>2 DEF IconEmbeds
  <2> QED BY <1>1, <2>1, EmbeddingKeeps
<1>3. ASSUME NEW x \in {"empty", "tray"}, desk.x # "none", desk.changes < MaxChanges,
             desk' = [desk EXCEPT !.x = x, !.changes = @ + 1]
      PROVE  /\ desk' \in Desks /\ desk'.x = x /\ desk'.owner = desk.owner
             /\ desk'.host = desk.host /\ desk'.items = desk.items
  <2>1. desk.changes + 1 \in 0..MaxChanges
    BY <1>1, <1>3 DEF Desks, TrayConstants
  <2> QED BY <1>1, <1>3, <2>1 DEF Desks
<1>4. ASSUME NEW x \in {"empty", "tray"}, desk.x # "none", desk' \in Desks, desk'.x = x,
             desk'.owner = desk.owner, desk'.host = desk.host, desk'.items = desk.items,
             x = "tray" \/ backend.kind # "xembed", UNCHANGED <<signals, monitor, watcher, shown>>
      PROVE  TrayInv'
  <2>1. UNCHANGED <<signals, monitor, watcher, backend, icon, window, app>>
    BY <1>4 DEF shown
  <2>2. TypeOK'
    BY <1>1, <1>4, <2>1, TypeParts DEF Typed, Visible
  <2>3. Signals'
    BY <1>4, <2>1, SignalsStay DEF TrayInv, Live
  <2>4. Monitors' /\ Hosts' /\ Settled' /\ Retained'
    BY <1>4, <2>1 DEF TrayInv, Monitors, Hosts, UpToDate, Settled, Quiet, Hosted, Retained, Live
  <2>5. Icons'
    BY <1>4, <2>1 DEF TrayInv, Icons, OneIcon, Live
  <2> QED BY <2>2, <2>3, <2>4, <2>5 DEF TrayInv
<1>5. CASE XTrayComes
  <2>1. /\ desk.x = "empty" /\ desk.changes < MaxChanges
        /\ desk' = [desk EXCEPT !.x = "tray", !.changes = @ + 1]
        /\ UNCHANGED <<signals, monitor, watcher, shown>>
    BY <1>5 DEF XTrayComes
  <2> QED BY <1>3, <1>4, <2>1
<1>6. CASE XTrayGoes
  <2>1. /\ desk.x = "tray" /\ desk.changes < MaxChanges /\ icon # "created"
        /\ desk' = [desk EXCEPT !.x = "empty", !.changes = @ + 1]
    BY <1>6 DEF XTrayGoes
  <2>2. /\ desk' \in Desks /\ desk'.x = "empty" /\ desk'.owner = desk.owner
        /\ desk'.host = desk.host /\ desk'.items = desk.items
    BY <1>3, <2>1
  <2>3. CASE icon = "embedded"
    <3>1. Embedding("created", "unavailable")
      BY <1>6, <2>3 DEF XTrayGoes
    <3> QED BY <2>1, <2>2, <2>3, <3>1, EmbeddingKeeps
  <2>4. CASE icon # "embedded"
    <3>1. icon = "none" /\ UNCHANGED <<signals, monitor, watcher, shown>>
      BY <1>1, <1>6, <2>1, <2>4 DEF XTrayGoes, Typed, Visible
    <3>2. backend.kind # "xembed" \/ ~Live
      BY <3>1 DEF TrayInv, Icons, OneIcon
    <3>3. CASE ~Live
      <4>1. UNCHANGED <<signals, monitor, watcher, backend, icon, window, app>>
        BY <3>1 DEF shown
      <4>2. TypeOK'
        BY <1>1, <2>2, <4>1, TypeParts DEF Typed, Visible
      <4>3. Signals'
        BY <2>2, <3>1, <3>3, <4>1, SignalsStay DEF TrayInv, Live
      <4>4. Monitors' /\ Hosts' /\ Settled' /\ Retained'
        BY <2>2, <3>3, <4>1 DEF TrayInv, Monitors, Hosts, UpToDate, Settled, Quiet, Retained, Live
      <4>5. Icons'
        BY <2>2, <3>3, <4>1 DEF TrayInv, Icons, OneIcon, Live
      <4> QED BY <4>2, <4>3, <4>4, <4>5 DEF TrayInv
    <3>4. CASE Live
      <4>1. backend.kind # "xembed"
        BY <3>2, <3>4
      <4> QED BY <1>4, <2>1, <2>2, <3>1, <4>1
    <3> QED BY <3>3, <3>4
  <2> QED BY <2>3, <2>4
<1> QED BY <1>2, <1>5, <1>6

-----------------------------------------------------------------------------
(* The monitor.                                                            *)

\* Falling back leaves what is shown as it has to be.
LEMMA FallbackShows ==
  ASSUME TrayConstants, TrayInv, Live, NEW b \in Backends, b.kind = backend.kind,
         b.available = backend.available, Fallback(b), desk'.x = desk.x
  PROVE  /\ Visible' /\ Live' = Live /\ Retained' /\ Icons'
         /\ backend'.kind = (IF desk.x = "none" THEN "none" ELSE "xembed")
         /\ backend'.registered = 0 /\ backend'.objects = b.objects
<1>1. Visible /\ Retained /\ Icons /\ desk.x \in {"none", "empty", "tray"}
  BY TypeParts DEF TrayInv, Typed, Desks
<1>2. /\ Visible' /\ Live' = Live /\ Retained'
      /\ backend'.kind = (IF desk.x = "none" THEN "none" ELSE "xembed")
      /\ backend'.registered = 0 /\ backend'.objects = b.objects
      /\ (icon' # "none") = (backend'.kind = "xembed")
      /\ backend'.available = "available" => desk.x = "tray"
  BY <1>1, FallsBack
<1>3. OneIcon'
  BY <1>2 DEF OneIcon
<1> QED BY <1>2, <1>3 DEF Icons

\* A signal is delivered.
LEMMA DeliverKeeps ==
  ASSUME TrayConstants, TrayInv, Deliver PROVE TrayInv'
<1>1. signals \in Seq(Signal) /\ signals # <<>> /\ signals' = Tail(signals) /\ desk' = desk /\ Typed
  BY TypeParts DEF TrayInv, Typed, Deliver
<1>2. PICK s \in Signal : s = signals[1]
  BY <1>1
<1>3. /\ signals' \in Seq(Signal) /\ Len(signals') = Len(signals) - 1 /\ Len(signals) \in Nat \ {0}
      /\ \A i \in 1..Len(signals') : signals'[i] = signals[i + 1]
      /\ DOMAIN signals = 1..Len(signals) /\ DOMAIN signals' = 1..Len(signals') /\ Head(signals) = s
  BY <1>1, <1>2, HeadTailProperties
<1>4. CASE ~Live
  <2>1. UNCHANGED <<monitor, watcher, backend, icon, window, app>>
    BY <1>4 DEF Deliver, shown
  <2>2. TypeOK'
    BY <1>1, <1>3, <2>1, TypeParts DEF Typed, Visible
  <2>3. ~Live' /\ Icons' /\ Retained'
    BY <1>1, <1>4, <2>1 DEF TrayInv, Icons, OneIcon, Retained, Live
  <2> QED BY <2>2, <2>3 DEF TrayInv, Signals, Monitors, Hosts, UpToDate, Settled, Quiet
<1>5. CASE Live
  <2>1. Leads /\ Vanishes /\ Hears
    BY <1>5 DEF TrayInv, Signals
  <2>2. 1 \in DOMAIN signals
    BY <1>3
  <2>3. /\ s.kind = "vanished" => s.sender = 0
        /\ s.kind \in {"host", "lost"} => s.sender = watcher.owner
    BY <1>2, <2>1, <2>2 DEF Vanishes, Hears, Told
  <2>4. /\ watcher' = [owner |-> IF s.kind = "vanished" THEN 0 ELSE s.sender, moved |-> TRUE]
        /\ monitor' = [monitor EXCEPT !.at = IF @ = "waits" THEN "woken" ELSE @]
        /\ IF s.kind \in {"vanished", "lost"} THEN Fallback(backend) ELSE UNCHANGED shown
    BY <1>3, <1>5, <2>3 DEF Deliver, Signal
  <2>5. watcher' \in Watching /\ watcher'.owner = s.sender /\ watcher'.moved
    BY <2>3, <2>4 DEF Watching, Signal
  <2>6. /\ monitor' \in Monitoring /\ monitor'.at # "waits" /\ monitor'.owner = monitor.owner
        /\ monitor'.answer = monitor.answer
        /\ monitor'.at \in {"asks", "registers"} => monitor'.at = monitor.at
    BY <1>1, <2>4 DEF Typed, Monitoring
  <2>7. Visible' /\ Live' = Live /\ Retained' /\ Icons' /\ backend'.objects = backend.objects
    <3>1. CASE s.kind \in {"vanished", "lost"}
      <4>1. backend \in Backends /\ Fallback(backend)
        BY <1>1, <2>4, <3>1 DEF Typed, Visible
      <4> QED BY <1>1, <1>5, <4>1, FallbackShows
    <3>2. CASE s.kind \notin {"vanished", "lost"}
      <4>1. UNCHANGED <<backend, icon, window, app>>
        BY <2>4, <3>2 DEF shown
      <4> QED BY <1>1, <4>1 DEF TrayInv, Typed, Visible, Icons, OneIcon, Retained, Live
    <3> QED BY <3>1, <3>2
  <2>8. TypeOK'
    BY <1>1, <1>3, <2>5, <2>6, <2>7, TypeParts DEF Typed
  <2>9. ASSUME NEW i \in 0..Len(signals') PROVE Told(i)' = Told(i + 1)
    <3>1. CASE i = 0
      BY <1>2, <2>5, <3>1 DEF Told
    <3>2. CASE i # 0
      BY <1>3, <3>2 DEF Told
    <3> QED BY <3>1, <3>2
  <2>10. Leads'
    <3>1. PICK n \in 0..Len(signals') : n = Len(signals')
      BY <1>3
    <3>2. Told(n)' = Told(Len(signals))
      BY <1>3, <2>9, <3>1
    <3> QED BY <1>1, <2>1, <3>1, <3>2 DEF Leads, Told
  <2>11. Vanishes'
    <3> SUFFICES ASSUME NEW i \in DOMAIN signals', signals'[i].kind = "vanished"
                 PROVE  signals'[i].sender = 0
      BY DEF Vanishes
    <3>1. i + 1 \in DOMAIN signals /\ signals'[i] = signals[i + 1]
      BY <1>3
    <3> QED BY <2>1, <3>1 DEF Vanishes
  <2>12. Hears'
    <3> SUFFICES ASSUME NEW i \in DOMAIN signals', signals'[i].kind \in {"host", "lost"},
                        NEW k, k = i - 1
                 PROVE  signals'[i].sender = Told(k)'
      BY DEF Hears, Told
    <3>1. i + 1 \in DOMAIN signals /\ signals'[i] = signals[i + 1] /\ k \in 0..Len(signals') /\ k + 1 = (i + 1) - 1
      BY <1>3
    <3>2. signals'[i].sender = Told(k + 1)
      BY <2>1, <3>1 DEF Hears
    <3> QED BY <2>9, <3>1, <3>2
  <2>13. Monitors' /\ Hosts' /\ Settled'
    BY <1>1, <2>5, <2>6, <2>7 DEF TrayInv, Monitors, Hosts, UpToDate, Settled, Quiet
  <2> QED BY <2>7, <2>8, <2>10, <2>11, <2>12, <2>13 DEF TrayInv, Signals
<1> QED BY <1>4, <1>5

\* The monitor looks at who owns the name, and asks him.
LEMMA ResumeKeeps ==
  ASSUME TrayConstants, TrayInv, Resume PROVE TrayInv'
<1>1. Typed /\ Live /\ watcher' = [watcher EXCEPT !.moved = FALSE] /\ UNCHANGED <<desk, signals>>
  BY TypeParts DEF TrayInv, Resume, Observes, bus
<1>2. watcher' \in Watching /\ watcher'.owner = watcher.owner /\ ~watcher'.moved
  BY <1>1 DEF Typed, Watching
<1>3. Live' = Live => Signals'
  BY <1>1, <1>2, SignalsStay DEF TrayInv
<1>4. CASE watcher.owner = 0
  <2>1. monitor' = [at |-> "waits", owner |-> 0, answer |-> "none", failed |-> FALSE] /\ Fallback(backend)
    BY <1>4 DEF Resume, Observes
  <2>2. monitor' \in Monitoring /\ monitor'.at = "waits" /\ monitor'.failed = FALSE
    BY <2>1, NoWatcher DEF Monitoring
  <2>3. backend \in Backends
    BY <1>1 DEF Typed, Visible
  <2>4. /\ Visible' /\ Live' = Live /\ Retained' /\ Icons'
        /\ backend'.kind = (IF desk.x = "none" THEN "none" ELSE "xembed")
    BY <1>1, <2>1, <2>3, FallbackShows
  <2>5. TypeOK'
    BY <1>1, <1>2, <2>2, <2>4, TypeParts DEF Typed
  <2>6. Monitors' /\ Hosts'
    BY <1>2, <2>2 DEF Monitors, Hosts
  <2>7. Settled'
    <3> SUFFICES ASSUME signals' = <<>> PROVE desk.owner = 0
      BY <1>1, <1>2, <1>4, <2>4 DEF Settled, Quiet, Hosted
    <3>1. Len(signals) = 0 /\ Leads
      BY <1>1 DEF TrayInv, Signals
    <3> QED BY <1>4, <3>1 DEF Leads, Told
  <2> QED BY <1>3, <2>4, <2>5, <2>6, <2>7 DEF TrayInv
<1>5. CASE watcher.owner # 0
  <2>1. monitor' = [at |-> "asks", owner |-> watcher.owner, answer |-> "none", failed |-> FALSE]
        /\ UNCHANGED <<backend, icon, window, app>>
    BY <1>5 DEF Resume, Observes, shown
  <2>2. monitor' \in Monitoring /\ monitor'.at = "asks" /\ monitor'.owner = watcher.owner
        /\ monitor'.answer = "none"
    BY <1>1, <2>1 DEF Monitoring, Typed, Watching
  <2>3. TypeOK'
    BY <1>1, <1>2, <2>1, <2>2, TypeParts DEF Typed, Visible
  <2>4. Monitors' /\ Hosts' /\ Settled'
    BY <1>2, <1>5, <2>2 DEF Monitors, Hosts, Settled, Quiet
  <2>5. Icons' /\ Retained' /\ Live' = Live
    BY <1>1, <2>1 DEF TrayInv, Icons, OneIcon, Retained, Live
  <2> QED BY <1>3, <2>3, <2>4, <2>5 DEF TrayInv
<1> QED BY <1>4, <1>5

\* The watcher answers.
LEMMA RepliesKeeps ==
  ASSUME TrayConstants, TrayInv, Replies PROVE TrayInv'
<1>1. /\ Typed /\ monitor.at \in {"asks", "registers"}
      /\ UNCHANGED <<signals, watcher, backend, icon, window, app>>
  BY TypeParts DEF TrayInv, Replies, shown
<1>2. PICK answer \in {"yes", "no", "error"} :
        /\ Answers(answer)
        /\ \/ /\ monitor.owner = desk.owner /\ monitor.at = "asks" /\ UNCHANGED desk
              /\ answer = IF desk.host THEN "yes" ELSE "no"
           \/ /\ monitor.owner = desk.owner /\ monitor.at = "registers" /\ answer = "yes"
              /\ desk' = [desk EXCEPT !.items = @ \cup {desk.owner}]
           \/ answer = "error" /\ UNCHANGED desk
           \/ /\ answer = "error" /\ desk.failures < MaxFailures
              /\ desk' = [desk EXCEPT !.failures = @ + 1]
  <2>1. CASE monitor.owner = desk.owner /\ monitor.at = "asks"
             /\ Answers(IF desk.host THEN "yes" ELSE "no") /\ UNCHANGED desk
    <3>1. (IF desk.host THEN "yes" ELSE "no") \in {"yes", "no", "error"}
      OBVIOUS
    <3> QED BY <2>1, <3>1
  <2>2. CASE \/ /\ monitor.owner = desk.owner /\ monitor.at = "registers"
                /\ Answers("yes") /\ desk' = [desk EXCEPT !.items = @ \cup {desk.owner}]
             \/ monitor.owner # desk.owner /\ Answers("error") /\ UNCHANGED desk
             \/ /\ monitor.owner = desk.owner /\ desk.failures < MaxFailures
                /\ Answers("error") /\ desk' = [desk EXCEPT !.failures = @ + 1]
    BY <2>2
  <2> QED BY <2>1, <2>2 DEF Replies
<1>3. /\ monitor' \in Monitoring /\ monitor'.at = monitor.at /\ monitor'.owner = monitor.owner
      /\ monitor'.answer = answer
  BY <1>1, <1>2 DEF Answers, Typed, Monitoring
<1>4. /\ desk' \in Desks /\ desk'.owner = desk.owner /\ desk'.host = desk.host /\ desk'.x = desk.x
      /\ desk.items \subseteq desk'.items
  <2>1. desk.failures < MaxFailures => desk.failures + 1 \in 0..MaxFailures
    BY <1>1 DEF TrayConstants, Typed, Desks
  <2> QED BY <1>1, <1>2, <2>1 DEF Typed, Desks
<1>5. TypeOK'
  BY <1>1, <1>3, <1>4, TypeParts DEF Typed, Visible
<1>6. Signals'
  BY <1>1, <1>4, SignalsStay DEF TrayInv, Live
<1>7. monitor.at = "registers" /\ answer = "yes" => monitor.owner \in desk'.items
  BY <1>1, <1>2 DEF Typed, Desks
<1>8. Monitors'
  BY <1>1, <1>3, <1>4, <1>7 DEF TrayInv, Monitors, Live
<1>9. Hosts' /\ Settled'
  BY <1>1, <1>2, <1>3, <1>4 DEF TrayInv, Hosts, UpToDate, Settled, Quiet, Live
<1>10. Icons' /\ Retained'
  BY <1>1, <1>4 DEF TrayInv, Icons, OneIcon, Retained, Live
<1> QED BY <1>5, <1>6, <1>8, <1>9, <1>10 DEF TrayInv

\* A monitor that has an answer waits again: what is left to show is that it may.
LEMMA WaitsKeeps ==
  ASSUME TrayInv, NEW at, NEW answer, Answered(at, answer), NEW failed \in BOOLEAN, Waits(failed),
         desk' \in Desks, desk'.owner = desk.owner, desk'.host = desk.host, Visible', Live' = Live,
         Icons', Retained', signals = <<>> => Settled'
  PROVE  TrayInv'
<1>1. Typed /\ Live /\ ~watcher.moved /\ UNCHANGED <<signals, watcher>>
  BY TypeParts DEF TrayInv, Answered
<1>2. monitor' \in Monitoring /\ monitor'.at = "waits"
  BY <1>1 DEF Waits, Typed, Monitoring
<1>3. TypeOK'
  BY <1>1, <1>2, TypeParts DEF Typed
<1>4. Signals'
  BY <1>1, SignalsStay DEF TrayInv
<1>5. Monitors' /\ Hosts'
  BY <1>1, <1>2 DEF Monitors, Hosts
<1>6. signals # <<>> => Settled'
  BY <1>1 DEF Settled, Quiet
<1> QED BY <1>3, <1>4, <1>5, <1>6 DEF TrayInv

\* With no signal on its way, the watcher known is the owner of now.
LEMMA KnowsOwner ==
  ASSUME TrayInv, Live, signals = <<>> PROVE watcher.owner = desk.owner
<1>1. Leads /\ Len(signals) = 0
  BY DEF TrayInv, Signals
<1> QED BY <1>1 DEF Leads, Told

\* Falling back for want of a host, or for an error.
LEMMA GivesUpKeeps ==
  ASSUME TrayConstants, TrayInv, NEW at, NEW answer, Answered(at, answer), NEW failed \in BOOLEAN,
         Waits(failed), NEW b \in Backends, b.kind = backend.kind, b.available = backend.available,
         Fallback(b), desk' \in Desks, desk'.owner = desk.owner, desk'.host = desk.host,
         desk'.x = desk.x, signals = <<>> => failed \/ ~desk.host
  PROVE  TrayInv'
<1>1. Live /\ UNCHANGED <<signals, watcher>>
  BY DEF Answered
<1>2. /\ Visible' /\ Live' = Live /\ Retained' /\ Icons'
      /\ backend'.kind = (IF desk.x = "none" THEN "none" ELSE "xembed")
  BY <1>1, FallbackShows
<1>3. monitor'.failed = failed
  BY TypeParts DEF Waits, TrayInv, Typed, Monitoring
<1>4. signals = <<>> => Settled'
  BY <1>1, <1>2, <1>3, KnowsOwner DEF Settled, Hosted
<1> QED BY <1>2, <1>4, WaitsKeeps

\* The answer came: no host, an error, registered already.
LEMMA AnswerKeeps ==
  ASSUME TrayConstants, TrayInv, NoHost \/ Error \/ StillRegistered PROVE TrayInv'
<1>1. Typed /\ desk \in Desks /\ backend \in Backends
  BY TypeParts DEF TrayInv, Typed, Visible
<1>2. CASE NoHost
  <2>1. /\ Answered("asks", "no") /\ Waits(FALSE) /\ Fallback(backend) /\ desk' = desk
        /\ signals = <<>> => ~desk.host
    BY <1>2 DEF NoHost, Answered, TrayInv, Hosts, UpToDate
  <2> QED BY <1>1, <2>1, GivesUpKeeps
<1>3. CASE Error
  <2>1. PICK b \in Backends : b = [backend EXCEPT !.objects = FALSE]
    BY <1>1 DEF Backends
  <2>2. b.kind = backend.kind /\ b.available = backend.available
    BY <1>1, <2>1 DEF Backends
  <2>3. Waits(TRUE) /\ Fallback(b) /\ desk' = desk
    BY <1>3, <2>1 DEF Error
  <2>4. PICK at : Answered(at, "error")
    BY <1>3 DEF Error
  <2> QED BY <1>1, <2>2, <2>3, <2>4, GivesUpKeeps
<1>4. CASE StillRegistered
  <2>1. /\ Answered("asks", "yes") /\ backend.registered = monitor.owner /\ Waits(FALSE)
        /\ UNCHANGED <<desk, backend, icon, window, app>>
    BY <1>4 DEF StillRegistered, shown
  <2>2. Live /\ ~watcher.moved /\ monitor.at = "asks" /\ monitor.answer = "yes"
        /\ UNCHANGED <<signals, watcher>>
    BY <2>1 DEF Answered
  <2>3. backend.registered # 0 /\ backend.registered = watcher.owner
    BY <2>1, <2>2 DEF TrayInv, Monitors
  <2>4. backend.kind = "sni" /\ backend.objects /\ backend.registered \in desk.items
    BY <2>2, <2>3 DEF TrayInv, Icons
  <2>5. monitor'.failed = FALSE
    BY <1>1, <2>1 DEF Waits, Typed, Monitoring
  <2>6. signals = <<>> => Settled'
    <3> SUFFICES ASSUME signals = <<>> PROVE Settled'
      OBVIOUS
    <3>1. watcher.owner = desk.owner /\ desk.host
      BY <2>2, KnowsOwner DEF TrayInv, Hosts, UpToDate
    <3> QED BY <2>1, <2>2, <2>3, <2>4, <2>5, <3>1 DEF Settled, Hosted
  <2>7. Visible' /\ Live' = Live /\ Icons' /\ Retained'
    BY <1>1, <2>1 DEF TrayInv, Typed, Visible, Live, Icons, OneIcon, Retained
  <2> QED BY <1>1, <2>1, <2>6, <2>7, WaitsKeeps
<1> QED BY <1>2, <1>3, <1>4

\* The item is exported and registered.
LEMMA RegistrationKeeps ==
  ASSUME TrayConstants, TrayInv, Exports \/ Registered PROVE TrayInv'
<1>1. Typed /\ desk \in Desks /\ backend \in Backends
  BY TypeParts DEF TrayInv, Typed, Visible
<1>2. CASE Answered("asks", "yes")
           /\ monitor' = [monitor EXCEPT !.at = "registers", !.answer = "none"]
           /\ backend' = [backend EXCEPT !.objects = TRUE] /\ UNCHANGED <<desk, icon, window, app>>
  <2>1. Live /\ ~watcher.moved /\ monitor.at = "asks" /\ monitor.answer = "yes"
        /\ UNCHANGED <<signals, watcher>>
    BY <1>2 DEF Answered
  <2>2. /\ monitor' \in Monitoring /\ monitor'.at = "registers" /\ monitor'.owner = monitor.owner
        /\ monitor'.answer = "none"
    BY <1>1, <1>2 DEF Typed, Monitoring
  <2>3. /\ backend' \in Backends /\ backend'.kind = backend.kind /\ backend'.objects
        /\ backend'.available = backend.available /\ backend'.registered = backend.registered
    BY <1>1, <1>2 DEF Backends
  <2>4. TypeOK'
    BY <1>1, <1>2, <2>1, <2>2, <2>3, TypeParts DEF Typed, Visible
  <2>5. Signals'
    BY <1>2, <2>1, SignalsStay DEF TrayInv, Live
  <2>6. Monitors' /\ Hosts' /\ Settled'
    BY <1>2, <2>1, <2>2, <2>3 DEF TrayInv, Monitors, Hosts, UpToDate, Settled, Quiet, Live
  <2>7. Icons' /\ Retained'
    BY <1>2, <2>3 DEF TrayInv, Icons, OneIcon, Retained, Live
  <2> QED BY <2>4, <2>5, <2>6, <2>7 DEF TrayInv
<1>3. CASE /\ Answered("asks", "yes") /\ desk.failures < MaxFailures
           /\ desk' = [desk EXCEPT !.failures = @ + 1] /\ Waits(TRUE) /\ Fallback(backend)
  <2>1. desk.failures + 1 \in 0..MaxFailures
    BY <1>1, <1>3 DEF Desks, TrayConstants
  <2>2. /\ desk' \in Desks /\ desk'.owner = desk.owner /\ desk'.host = desk.host
        /\ desk'.x = desk.x
    BY <1>1, <1>3, <2>1 DEF Desks
  <2> QED BY <1>1, <1>3, <2>2, GivesUpKeeps
<1>4. CASE Registered
  <2> DEFINE b == [backend EXCEPT !.kind = "sni", !.registered = monitor.owner,
                                  !.available = "available"]
  <2>1. /\ Answered("registers", "yes") /\ Waits(FALSE) /\ icon' = "none" /\ Becomes(b)
        /\ desk' = desk
    BY <1>4 DEF Registered, DestroysIcon
  <2>2. Live /\ ~watcher.moved /\ monitor.at = "registers" /\ monitor.answer = "yes"
        /\ UNCHANGED <<signals, watcher>>
    BY <2>1 DEF Answered
  <2>3. /\ monitor.owner # 0 /\ monitor.owner = watcher.owner /\ backend.objects
        /\ monitor.owner \in desk.items
    BY <2>2 DEF TrayInv, Monitors
  <2>4. /\ b \in Backends /\ b.kind = "sni" /\ b.registered = monitor.owner /\ b.objects
    BY <1>1, <2>3 DEF Backends, Typed, Monitoring
  <2> HIDE DEF b
  <2>5. /\ backend' = b /\ window' \in {"hidden", "shown", "destroyed"} /\ app' \in Apps
        /\ Live' = Live /\ Retained'
    BY <1>1, <2>1, <2>4, Presents DEF Typed, TrayInv
  <2>6. Visible' /\ Icons'
    BY <2>1, <2>2, <2>3, <2>4, <2>5 DEF Visible, Icons, OneIcon
  <2>7. monitor'.failed = FALSE
    BY <1>1, <2>1 DEF Waits, Typed, Monitoring
  <2>8. signals = <<>> => Settled'
    <3> SUFFICES ASSUME signals = <<>> PROVE Settled'
      OBVIOUS
    <3>1. watcher.owner = desk.owner /\ desk.host
      BY <2>2, KnowsOwner DEF TrayInv, Hosts, UpToDate
    <3> QED BY <2>1, <2>2, <2>3, <2>4, <2>5, <2>7, <3>1 DEF Settled, Hosted
  <2> QED BY <1>1, <2>1, <2>5, <2>6, <2>8, WaitsKeeps
<1> QED BY <1>2, <1>3, <1>4 DEF Exports

-----------------------------------------------------------------------------
(* The theorems.                                                           *)

\* Every first state has the invariant.
LEMMA InitHolds == ASSUME TrayConstants, Init PROVE TrayInv
<1>1. PICK o \in {0, 1} \cap Watchers, h \in BOOLEAN, x \in Displays :
        /\ desk = [owner |-> o, last |-> o, host |-> h, x |-> x, items |-> {}, changes |-> 0, failures |-> 0]
        /\ signals = <<[kind |-> IF o = 1 THEN "appeared" ELSE "vanished", sender |-> o]>>
  BY DEF Init
<1>2. PICK s \in Signal : /\ signals = <<s>> /\ s.sender = o /\ s.kind \in {"appeared", "vanished"}
                          /\ s.kind = "vanished" => o = 0
  <2>1. PICK s : s = [kind |-> IF o = 1 THEN "appeared" ELSE "vanished", sender |-> o]
    OBVIOUS
  <2>2. s \in Signal /\ s.sender = o /\ s.kind = IF o = 1 THEN "appeared" ELSE "vanished"
    BY <2>1 DEF Signal
  <2> QED BY <1>1, <2>1, <2>2
<1>3. desk \in Desks /\ desk.owner = o
  <2>1. 0 \in 0..MaxChanges /\ 0 \in 0..MaxFailures /\ x \in {"none", "empty", "tray"}
    BY DEF TrayConstants
  <2> QED BY <1>1, <2>1 DEF Desks
<1>4. /\ monitor = [at |-> "waits", owner |-> 0, answer |-> "none", failed |-> FALSE]
      /\ watcher = [owner |-> 0, moved |-> FALSE]
      /\ backend = [kind |-> "none", available |-> "pending", registered |-> 0, objects |-> FALSE]
      /\ icon = "none" /\ window = "hidden"
  BY DEF Init
<1>5. app \in Apps /\ app.state = "runs" /\ app.activated = FALSE
  <2>1. PICK m \in Modes, l \in BOOLEAN :
          app = [mode |-> m, activated |-> FALSE, atLogin |-> l, dirty |-> FALSE, asks |-> "none",
                 state |-> "runs", retained |-> FALSE]
    BY DEF Init
  <2> QED BY <2>1 DEF Apps
<1>6. /\ signals \in Seq(Signal) /\ Len(signals) = 1 /\ signals[1] = s /\ DOMAIN signals = {1}
      /\ signals # <<>>
  BY <1>2
<1>7. monitor \in Monitoring /\ watcher \in Watching /\ backend \in Backends
  BY <1>4, NoWatcher DEF Monitoring, Watching, Backends
<1>8. TypeOK
  BY <1>3, <1>4, <1>5, <1>6, <1>7, TypeParts DEF Typed, Visible
<1>9. Signals
  BY <1>2, <1>3, <1>6 DEF Signals, Leads, Vanishes, Hears, Told
<1>10. Monitors /\ Hosts /\ Icons /\ Settled /\ Retained
  BY <1>4, <1>5, <1>6 DEF Monitors, Hosts, UpToDate, Icons, OneIcon, Settled, Quiet, Retained, Live
<1> QED BY <1>8, <1>9, <1>10 DEF TrayInv

\* Every step keeps it.
LEMMA NextKeeps == ASSUME TrayConstants, TrayInv, [Next]_vars PROVE TrayInv'
<1>1. CASE UNCHANGED vars
  <2>1. UNCHANGED <<desk, signals, monitor, watcher, backend, icon, window, app>>
    BY <1>1 DEF vars, bus, shown
  <2>2. TypeOK'
    BY <2>1, TypeParts DEF TrayInv, Typed, Visible
  <2>3. Signals'
    BY <2>1, SignalsStay DEF TrayInv, Live
  <2>4. Monitors' /\ Hosts' /\ Icons' /\ Settled' /\ Retained'
    BY <2>1 DEF TrayInv, Monitors, Hosts, UpToDate, Icons, OneIcon, Settled, Quiet, Hosted, Retained, Live
  <2> QED BY <2>2, <2>3, <2>4 DEF TrayInv
<1>2. CASE Monitor
  BY <1>2, DeliverKeeps, ResumeKeeps, RepliesKeeps, AnswerKeeps, RegistrationKeeps DEF Monitor
<1>3. CASE Next /\ ~Monitor
  BY <1>3, SessionKeeps, XTrayKeeps, WindowKeeps, ShutdownKeeps DEF Next
<1> QED BY <1>1, <1>2, <1>3

\* The inductive invariant of the tray: what the signals tell, what the monitor knows, and
\* what is shown and remembered of it.
THEOREM TrayInvariant == TrayConstants => (Spec => []TrayInv)
<1> SUFFICES ASSUME TrayConstants PROVE Spec => []TrayInv
  OBVIOUS
<1>1. Init => TrayInv
  BY InitHolds
<1>2. TrayInv /\ [Next]_vars => TrayInv'
  BY NextKeeps
<1> QED BY <1>1, <1>2, PTL DEF Spec

\* Once all is quiet the icon is where the desktop shows it, there is one at most, and the
\* window is hidden only while something may call it back (tray-backend.cpp, main.cpp).
THEOREM TrayIsSound == TrayConstants => (Spec => []TraySound)
<1>1. TrayInv => TraySound
  BY DEF TrayInv, TraySound, Icons
<1> QED BY <1>1, TrayInvariant, PTL

-----------------------------------------------------------------------------
(* Settings: the entries of a store.                                                                  *)

\* An entry is in error exactly if its text is none of the values, which only a strict key keeps.
EntrySound(k, e) ==
  /\ e \in Entry
  /\ ~e.error => e.value \in Value /\ e.raw = No
  /\ e.error => k \in Strict /\ (e.raw \in Malformed \/ (e.raw = No /\ e.value \in Rejected))
\* What two entries say of a key.
Alike(e, b) == e.value = b.value /\ e.raw = b.raw /\ e.error = b.error
\* An entry falls back to the one below, and says what that says unless it is loaded.
Above(e, b) ==
  /\ e.fallback = b.value /\ e.fallback_raw = b.raw /\ e.fallback_error = b.error
  /\ ~e.loaded => Alike(e, b)

\* What reading makes of an entry.
Loads(e, text) == [e EXCEPT !.value = text, !.raw = No, !.error = FALSE, !.loaded = TRUE]
ReadOf(k, e, text) ==
  IF text \in Value THEN Loads(e, text) ELSE IF Counts(k, text) THEN RetainsText(e, text) ELSE e

\* Reading a file is reading the text of each key.
LEMMA ReadsEntries ==
  ASSUME NEW s, NEW file, NEW k \in Key
  PROVE  Read(s, file)[k] = ReadOf(k, s[k], file[k])
BY SettingsAssumption DEF Read, ReadOf, Loads, Counts, Text

\* What is written of a sound entry is one of the texts, and tells whether it is in error.
LEMMA WrittenSays ==
  ASSUME NEW k \in Key, NEW e, EntrySound(k, e)
  PROVE  /\ Written(e) \in Text /\ (e.error <=> Written(e) \notin Value)
         /\ Counts(k, Written(e)) /\ ~Counts(k, No)
         /\ ~e.error => Written(e) = e.value
BY SettingsAssumption DEF EntrySound, Entry, Written, Counts, Text

\* Reading leaves an entry sound, whatever the text.
LEMMA ReadSound ==
  ASSUME NEW k \in Key, NEW e, EntrySound(k, e), NEW text \in Text \cup {No}
  PROVE  EntrySound(k, ReadOf(k, e, text))
<1>1. CASE text \in Value
  BY <1>1 DEF EntrySound, ReadOf, Loads, Entry
<1>2. CASE text \in Malformed /\ k \in Strict
  BY <1>2, SettingsAssumption DEF EntrySound, ReadOf, RetainsText, Entry, Counts, Text
<1>3. CASE text \in Rejected /\ k \in Strict
  BY <1>3, SettingsAssumption DEF EntrySound, ReadOf, RetainsText, Entry, Counts, Text
<1>4. CASE ~Counts(k, text)
  BY <1>4 DEF ReadOf, Counts
<1> QED BY <1>1, <1>2, <1>3, <1>4 DEF Counts, Text

\* A text that counts is what the entry says then; any other leaves the entry as it was.
LEMMA ReadSays ==
  ASSUME NEW k \in Key, NEW e, EntrySound(k, e), NEW text \in Text \cup {No}, NEW r, r = ReadOf(k, e, text)
  PROVE  /\ r.dirty = e.dirty
         /\ r.fallback = e.fallback /\ r.fallback_raw = e.fallback_raw /\ r.fallback_error = e.fallback_error
         /\ Counts(k, text) => r.loaded /\ Written(r) = text /\ (r.error <=> text \notin Value)
         /\ text \in Malformed /\ Counts(k, text) => r.value = e.value /\ r.raw = text
         /\ Counts(k, text) /\ text \notin Malformed => r.value = text /\ r.raw = No
         /\ ~Counts(k, text) => r = e
<1>1. CASE text \in Value
  BY <1>1, SettingsAssumption DEF EntrySound, ReadOf, Loads, Entry, Counts, Text, Written
<1>2. CASE text \in Malformed /\ k \in Strict
  BY <1>2, SettingsAssumption DEF EntrySound, ReadOf, RetainsText, Entry, Counts, Text, Written
<1>3. CASE text \in Rejected /\ k \in Strict
  BY <1>3, SettingsAssumption DEF EntrySound, ReadOf, RetainsText, Entry, Counts, Text, Written
<1>4. CASE ~Counts(k, text)
  BY <1>4, SettingsAssumption DEF ReadOf, Counts, Text
<1> QED BY <1>1, <1>2, <1>3, <1>4 DEF Counts, Text

-----------------------------------------------------------------------------
(* Stores.                                                                   *)

\* A store whose entries are sound.
Sound(s) == s \in Store /\ \A k \in Key : EntrySound(k, s[k])
\* A store on top of another one.
OnTop(s, below) == Sound(s) /\ \A k \in Key : Above(s[k], below[k])
\* Two stores that say the same of every key.
AlikeStores(s, t) == \A k \in Key : Alike(s[k], t[k])

\* A store on top of one stands on top of all that say the same.
LEMMA TopOfAlike ==
  ASSUME NEW s, NEW b, NEW c, OnTop(s, b), AlikeStores(b, c) PROVE OnTop(s, c)
BY DEF OnTop, AlikeStores, Above, Alike

\* A layer reads its file, but loses its bindings when they clash.
LEMMA LayerOf ==
  ASSUME NEW s, NEW file
  PROVE  /\ \A k \in Key : Layer(s, file)[k] = ReadOf(k, s[k], file[k])
                         \/ (k \in Bindings /\ Layer(s, file)[k] = s[k])
         /\ DOMAIN Layer(s, file) = Key
         /\ ~Clash(Values(Read(s, file))) => \A k \in Key : Layer(s, file)[k] = ReadOf(k, s[k], file[k])
<1>1. \A k \in Key : Read(s, file)[k] = ReadOf(k, s[k], file[k])
  BY ReadsEntries
<1>2. CASE Clash(Values(Read(s, file)))
  <2>1. Layer(s, file) = [k \in Key |-> IF k \in Bindings THEN s[k] ELSE Read(s, file)[k]]
    BY <1>2 DEF Layer, Resolve
  <2> QED BY <1>1, <1>2, <2>1
<1>3. CASE ~Clash(Values(Read(s, file)))
  <2>1. Layer(s, file) = Read(s, file)
    BY <1>3 DEF Layer, Resolve
  <2>2. DOMAIN Read(s, file) = Key
    BY DEF Read
  <2> QED BY <1>1, <2>1, <2>2
<1> QED BY <1>2, <1>3

\* A layer keeps a store sound.
LEMMA LayerSound ==
  ASSUME NEW s, Sound(s), NEW file \in File PROVE Sound(Layer(s, file))
<1> DEFINE r == Layer(s, file)
<1>1. \A k \in Key : EntrySound(k, r[k])
  <2> SUFFICES ASSUME NEW k \in Key PROVE EntrySound(k, r[k])
    OBVIOUS
  <2>1. EntrySound(k, s[k]) /\ file[k] \in Text \cup {No}
    BY DEF Sound, File
  <2>2. r[k] = ReadOf(k, s[k], file[k]) \/ r[k] = s[k]
    BY LayerOf
  <2> HIDE DEF r
  <2> QED BY <2>1, <2>2, ReadSound
<1>2. \A k \in Key : r[k] \in Entry
  BY <1>1 DEF EntrySound
<1>3. r = [k \in Key |-> r[k]]
  <2>1. r = Read(s, file) \/ r = [k \in Key |-> IF k \in Bindings THEN s[k] ELSE Read(s, file)[k]]
    BY DEF Layer, Resolve
  <2>2. Read(s, file) = [k \in Key |-> Read(s, file)[k]]
    BY DEF Read
  <2> QED BY <2>1, <2>2
<1> HIDE DEF r
<1> QED BY <1>1, <1>2, <1>3 DEF Sound, Store, r

\* A layer brings no clash to a store that has none.
LEMMA LayerFree ==
  ASSUME NEW s, NEW file, ~Clash(Values(s)) PROVE ~Clash(Values(Layer(s, file)))
<1>1. CASE Clash(Values(Read(s, file)))
  <2>1. Layer(s, file) = [k \in Key |-> IF k \in Bindings THEN s[k] ELSE Read(s, file)[k]]
    BY <1>1 DEF Layer, Resolve
  <2>2. \A k \in Bindings : Values(Layer(s, file))[k] = Values(s)[k]
    BY <2>1, SettingsAssumption DEF Values
  <2> QED BY <2>2 DEF Clash
<1>2. CASE ~Clash(Values(Read(s, file)))
  BY <1>2 DEF Layer, Resolve
<1> QED BY <1>1, <1>2

\* The built-in defaults are sound and do not clash.
LEMMA Created ==
  /\ Sound(create_settings_store) /\ OnTop(create_settings_store, create_settings_store)
  /\ ~Clash(Values(create_settings_store))
  /\ \A k \in Key : create_settings_store[k].value = Default[k] /\ ~create_settings_store[k].loaded
                    /\ ~create_settings_store[k].error /\ create_settings_store[k].raw = No
<1> DEFINE c == create_settings_store
           made(k) == [value |-> Default[k], raw |-> No, error |-> FALSE, loaded |-> FALSE, dirty |-> FALSE,
                       fallback |-> Default[k], fallback_raw |-> No, fallback_error |-> FALSE]
<1>0. \A k \in Key : c[k] = made(k) /\ Default[k] \in Value
  BY SettingsAssumption DEF create_settings_store
<1>1. ASSUME NEW k \in Key PROVE
        /\ c[k].value = Default[k] /\ ~c[k].loaded /\ ~c[k].error /\ c[k].raw = No /\ c[k].error = FALSE
        /\ c[k].fallback = Default[k] /\ c[k].fallback_raw = No /\ c[k].fallback_error = FALSE
  <2>1. c[k] = made(k)
    BY <1>0
  <2> HIDE DEF c
  <2> QED BY <2>1
<1>2. ASSUME NEW k \in Key PROVE c[k] \in Entry /\ EntrySound(k, c[k]) /\ Above(c[k], c[k])
  <2>1. made(k) \in Entry
    BY <1>0, Zenon DEF Entry
  <2>2. c[k] \in Entry
    BY <1>0, <2>1
  <2> HIDE DEF c, made
  <2>3. EntrySound(k, c[k])
    BY <1>0, <1>1, <2>2 DEF EntrySound
  <2> QED BY <1>1, <2>2, <2>3 DEF Above, Alike
<1>3. c \in Store
  <2>1. c = [k \in Key |-> c[k]]
    BY DEF create_settings_store
  <2> HIDE DEF c
  <2> QED BY <1>2, <2>1 DEF Store
<1>4. ~Clash(Values(c))
  <2>1. \A k \in Key : Values(c)[k] = Default[k]
    <3> HIDE DEF c
    <3> QED BY <1>1 DEF Values
  <2> QED BY <2>1, SettingsAssumption DEF Clash
<1> HIDE DEF c
<1> QED BY <1>1, <1>2, <1>3, <1>4 DEF Sound, OnTop, c

\* A store that is rebased stands on top of the new defaults, with the settings it had.
LEMMA Rebased ==
  ASSUME NEW s, NEW below, Sound(s), Sound(below)
  PROVE  /\ OnTop(Rebase(s, below), below)
         /\ \A k \in Key : LET e == Rebase(s, below)[k] IN
              /\ e.loaded = s[k].loaded /\ e.dirty = s[k].dirty
              /\ s[k].loaded => Alike(e, s[k])
<1> DEFINE r == Rebase(s, below)
<1>1. ASSUME NEW k \in Key PROVE
    /\ EntrySound(k, r[k]) /\ Above(r[k], below[k])
    /\ r[k].loaded = s[k].loaded /\ r[k].dirty = s[k].dirty /\ (s[k].loaded => Alike(r[k], s[k]))
  <2> DEFINE b == below[k]
             e == [s[k] EXCEPT !.fallback = b.value, !.fallback_raw = b.raw, !.fallback_error = b.error]
  <2>1. EntrySound(k, s[k]) /\ EntrySound(k, b)
    BY DEF Sound
  <2>2. r[k] = IF s[k].loaded THEN e ELSE [e EXCEPT !.value = b.value, !.raw = b.raw, !.error = b.error]
    BY DEF Rebase, Onto
  <2>3. /\ e \in Entry /\ Alike(e, s[k]) /\ e.loaded = s[k].loaded /\ e.dirty = s[k].dirty
        /\ e.fallback = b.value /\ e.fallback_raw = b.raw /\ e.fallback_error = b.error
    BY <2>1 DEF EntrySound, Entry, Alike
  <2>4. b.value \in Value \cup Rejected /\ b.raw \in Malformed \cup {No} /\ b.error \in BOOLEAN
    BY <2>1 DEF EntrySound, Entry
  <2> HIDE DEF e, b
  <2>5. CASE e.loaded
    <3>1. r[k] = e
      BY <2>2, <2>3, <2>5
    <3> QED BY <2>1, <2>3, <2>5, <3>1 DEF EntrySound, Above, Alike, b
  <2>6. CASE ~e.loaded
    <3>1. r[k] = [e EXCEPT !.value = b.value, !.raw = b.raw, !.error = b.error]
      BY <2>2, <2>3, <2>6
    <3>2. r[k] \in Entry
      BY <2>3, <2>4, <3>1 DEF Entry
    <3>3. /\ Alike(r[k], b) /\ r[k].loaded = e.loaded /\ r[k].dirty = e.dirty /\ r[k].fallback = e.fallback
          /\ r[k].fallback_raw = e.fallback_raw /\ r[k].fallback_error = e.fallback_error
      BY <2>3, <3>1 DEF Alike, Entry
    <3> QED BY <2>1, <2>3, <2>6, <3>2, <3>3 DEF EntrySound, Above, Alike, b
  <2> QED BY <2>5, <2>6
<1>2. r \in Store
  <2>1. r = [k \in Key |-> r[k]]
    BY DEF Rebase
  <2> HIDE DEF r
  <2> QED BY <1>1, <2>1 DEF Store, EntrySound
<1> HIDE DEF r
<1> QED BY <1>1, <1>2 DEF Sound, OnTop, r

\* The defaults that the user has changed, and what a connection without settings shows.
LEMMA Below ==
  ASSUME NEW g \in File
  PROVE  /\ Sound(load_global_settings(g)) /\ ~Clash(Values(load_global_settings(g)))
         /\ OnTop(Connection(g), load_global_settings(g)) /\ ~Clash(Values(Connection(g)))
         /\ \A k \in Key : ~Connection(g)[k].loaded /\ ~Connection(g)[k].dirty
<1> DEFINE low == load_global_settings(g)
<1>1. Sound(low) /\ ~Clash(Values(low))
  BY Created, LayerSound, LayerFree DEF load_global_settings
<1>2. OnTop(Connection(g), low) /\ \A k \in Key : ~Connection(g)[k].loaded /\ ~Connection(g)[k].dirty
  <2>1. \A k \in Key : ~create_settings_store[k].dirty
    BY DEF create_settings_store
  <2> HIDE DEF low
  <2> QED BY <1>1, <2>1, Created, Rebased DEF Connection, low
<1>3. \A k \in Key : Values(Connection(g))[k] = Values(low)[k]
  <2> HIDE DEF low
  <2> QED BY <1>2 DEF OnTop, Above, Alike, Values
<1>4. ~Clash(Values(Connection(g)))
  <2> HIDE DEF low
  <2> QED BY <1>1, <1>3, SettingsAssumption DEF Clash
<1> QED BY <1>1, <1>2, <1>4

\* A layer is read into the settings, not into what they fall back to.
LEMMA LayerOnTop ==
  ASSUME NEW s, NEW below, OnTop(s, below), NEW file \in File
  PROVE  OnTop(Layer(s, file), below)
<1> DEFINE r == Layer(s, file)
<1>1. Sound(r)
  BY LayerSound DEF OnTop
<1>2. ASSUME NEW k \in Key PROVE Above(r[k], below[k])
  <2>1. EntrySound(k, s[k]) /\ Above(s[k], below[k]) /\ file[k] \in Text \cup {No}
    BY DEF OnTop, Sound, File
  <2>2. r[k] = ReadOf(k, s[k], file[k]) \/ r[k] = s[k]
    BY LayerOf
  <2> HIDE DEF r
  <2>3. CASE r[k] = s[k]
    BY <2>1, <2>3
  <2>4. CASE r[k] = ReadOf(k, s[k], file[k])
    BY <2>1, <2>4, ReadSays DEF Above
  <2> QED BY <2>2, <2>3, <2>4
<1> HIDE DEF r
<1> QED BY <1>1, <1>2 DEF OnTop, r

\* What a store that is loaded from a file says.
Reads(s, file) ==
  \A k \in Key : ~s[k].dirty =>
    /\ s[k].loaded => Counts(k, file[k]) /\ Written(s[k]) = file[k]
    /\ k \notin Bindings /\ Counts(k, file[k]) => s[k].loaded

\* A connection that is opened stands on the defaults, and says what its file says.
LEMMA Opened ==
  ASSUME NEW g \in File, NEW p \in File
  PROVE  /\ OnTop(Open(g, p), load_global_settings(g)) /\ Reads(Open(g, p), p)
         /\ ~Clash(Values(Open(g, p)))
<1> DEFINE c == Connection(g)
           o == Open(g, p)
<1>1. OnTop(o, load_global_settings(g))
  BY Below, LayerOnTop DEF Open
<1>2. ~Clash(Values(o))
  BY Below, LayerFree DEF Open
<1>3. Reads(o, p)
  <2> SUFFICES ASSUME NEW k \in Key
               PROVE  /\ o[k].loaded => Counts(k, p[k]) /\ Written(o[k]) = p[k]
                      /\ k \notin Bindings /\ Counts(k, p[k]) => o[k].loaded
    BY DEF Reads
  <2>1. EntrySound(k, c[k]) /\ ~c[k].loaded /\ p[k] \in Text \cup {No}
    BY Below DEF OnTop, Sound, File
  <2>2. o[k] = ReadOf(k, c[k], p[k]) \/ (k \in Bindings /\ o[k] = c[k])
    BY LayerOf DEF Open
  <2> HIDE DEF o, c
  <2> QED BY <2>1, <2>2, ReadSays
<1> QED BY <1>1, <1>2, <1>3

\* What is saved is the text of the explicit settings, and counts for their keys alone.
LEMMA SerializeSays ==
  ASSUME NEW s, Sound(s)
  PROVE  /\ Serialize(s) \in File
         /\ \A k \in Key : /\ Serialize(s)[k] = IF s[k].loaded THEN Written(s[k]) ELSE No
                           /\ Counts(k, Serialize(s)[k]) <=> s[k].loaded
<1>1. ASSUME NEW k \in Key PROVE
    /\ Serialize(s)[k] = IF s[k].loaded THEN Written(s[k]) ELSE No
    /\ Serialize(s)[k] \in Text \cup {No} /\ (Counts(k, Serialize(s)[k]) <=> s[k].loaded)
  <2>1. EntrySound(k, s[k])
    BY DEF Sound
  <2>2. Serialize(s)[k] = IF s[k].loaded THEN Written(s[k]) ELSE No
    BY DEF Serialize
  <2> QED BY <2>1, <2>2, WrittenSays
<1>2. Serialize(s) \in File
  <2>1. Serialize(s) = [k \in Key |-> Serialize(s)[k]]
    BY DEF Serialize
  <2> QED BY <1>1, <2>1 DEF File
<1> QED BY <1>1, <1>2

\* What an entry says is what is read back from what is written of it.
LEMMA ReadsBack ==
  ASSUME NEW k \in Key, NEW e, EntrySound(k, e), NEW b, EntrySound(k, b), NEW text,
         text = IF e.loaded THEN Written(e) ELSE No
  PROVE  /\ e.loaded => /\ ReadOf(k, b, text).loaded /\ ReadOf(k, b, text).error = e.error
                        /\ Written(ReadOf(k, b, text)) = Written(e)
                        /\ e.raw = No => ReadOf(k, b, text).value = e.value /\ ReadOf(k, b, text).raw = No
                        /\ e.raw # No => ReadOf(k, b, text).value = b.value /\ ReadOf(k, b, text).raw = e.raw
         /\ ~e.loaded => ReadOf(k, b, text) = b
<1> DEFINE r == ReadOf(k, b, text)
<1>1. text \in Text \cup {No} /\ (e.loaded <=> Counts(k, text))
  BY WrittenSays
<1>2. CASE ~e.loaded
  <2>1. ~Counts(k, text) BY <1>1, <1>2
  <2> QED BY <1>1, <1>2, <2>1, ReadSays
<1>3. CASE e.loaded
  <2>1. r.loaded /\ Written(r) = text /\ (r.error <=> text \notin Value) /\ text = Written(e)
    BY <1>1, <1>3, ReadSays
  <2>2. e.error <=> text \notin Value
    BY <2>1, WrittenSays
  <2>3. r.error \in BOOLEAN /\ e.error \in BOOLEAN
    BY <1>1, ReadSound DEF EntrySound, Entry
  <2>4. CASE e.raw = No
    <3>1. text = e.value /\ text \notin Malformed
      BY <2>1, <2>4, SettingsAssumption DEF Written, EntrySound, Text
    <3> QED BY <1>1, <1>3, <2>1, <2>2, <2>3, <2>4, <3>1, ReadSays
  <2>5. CASE e.raw # No
    <3>1. text = e.raw /\ text \in Malformed
      BY <2>1, <2>5 DEF Written, EntrySound
    <3> QED BY <1>1, <1>3, <2>1, <2>2, <2>3, <2>5, <3>1, ReadSays
  <2> QED BY <2>4, <2>5
<1> QED BY <1>2, <1>3

-----------------------------------------------------------------------------
(* Edits.                                                                    *)

\* An edit is a setting of a value, or takes the setting back.
EditOf(s, t, k) ==
  (\E v \in Value : t = set_explicit_setting_value(s, k, v)) \/ t = clear_explicit_setting_value(s, k)

\* An edit leaves a store.
LEMMA EditTyped ==
  ASSUME NEW s, s \in Store, NEW t, NEW k \in Key, EditOf(s, t, k)
  PROVE  t \in Store
<1>1. s[k] \in Entry
  BY DEF Store
<1>2. CASE \E v \in Value : t = set_explicit_setting_value(s, k, v)
  <2>1. PICK v \in Value : t = set_explicit_setting_value(s, k, v)
    BY <1>2
  <2> DEFINE e == [s[k] EXCEPT !.value = v, !.raw = No, !.error = FALSE, !.loaded = TRUE, !.dirty = TRUE]
  <2>2. t = s \/ t = [s EXCEPT ![k] = e]
    BY <2>1 DEF set_explicit_setting_value
  <2>3. e \in Entry
    BY <1>1 DEF Entry
  <2> HIDE DEF e
  <2> QED BY <2>2, <2>3 DEF Store
<1>3. CASE t = clear_explicit_setting_value(s, k)
  <2> DEFINE e == [s[k] EXCEPT !.value = s[k].fallback, !.raw = s[k].fallback_raw,
                               !.error = s[k].fallback_error, !.loaded = FALSE, !.dirty = TRUE]
  <2>2. t = s \/ t = [s EXCEPT ![k] = e]
    BY <1>3 DEF clear_explicit_setting_value
  <2>3. e \in Entry
    BY <1>1 DEF Entry
  <2> HIDE DEF e
  <2> QED BY <2>2, <2>3 DEF Store
<1> QED BY <1>2, <1>3 DEF EditOf

\* An edit leaves the store on top of the one below, and touches one key.
LEMMA EditKeeps ==
  ASSUME NEW s, NEW below, Sound(below), OnTop(s, below), NEW t, NEW k \in Key, EditOf(s, t, k)
  PROVE  /\ OnTop(t, below)
         /\ \A l \in Key : t[l] = s[l] \/ (l = k /\ t[l].dirty /\ (t[l].loaded \/ Alike(t[l], below[l]))
                                           /\ (t[l].loaded => t[l].raw = No))
<1>1. s \in Store /\ EntrySound(k, s[k]) /\ Above(s[k], below[k]) /\ s[k] \in Entry /\ EntrySound(k, below[k])
  BY DEF OnTop, Sound, EntrySound
<1>2. t \in Store
  BY <1>1, EditTyped
<1>3. ASSUME NEW e \in Entry, t = [s EXCEPT ![k] = e], EntrySound(k, e), Above(e, below[k]), e.dirty,
             e.loaded \/ Alike(e, below[k]), e.loaded => e.raw = No
      PROVE  /\ OnTop(t, below)
             /\ \A l \in Key : t[l] = s[l] \/ (l = k /\ t[l].dirty /\ (t[l].loaded \/ Alike(t[l], below[l]))
                                           /\ (t[l].loaded => t[l].raw = No))
  <2>1. \A l \in Key : t[l] = IF l = k THEN e ELSE s[l]
    BY <1>1, <1>3 DEF Store
  <2> QED BY <1>1, <1>2, <1>3, <2>1 DEF OnTop, Sound
<1>4. CASE t = s
  BY <1>4
<1>5. CASE \E v \in Value : t = set_explicit_setting_value(s, k, v)
  <2>1. PICK v \in Value : t = set_explicit_setting_value(s, k, v)
    BY <1>5
  <2> DEFINE e == [s[k] EXCEPT !.value = v, !.raw = No, !.error = FALSE, !.loaded = TRUE, !.dirty = TRUE]
  <2>2. t = s \/ t = [s EXCEPT ![k] = e]
    BY <2>1 DEF set_explicit_setting_value
  <2>3. /\ e \in Entry /\ e.value = v /\ e.raw = No /\ ~e.error /\ e.loaded /\ e.dirty
        /\ e.fallback = s[k].fallback /\ e.fallback_raw = s[k].fallback_raw
        /\ e.fallback_error = s[k].fallback_error
    BY <1>1 DEF Entry
  <2> HIDE DEF e
  <2>4. EntrySound(k, e) /\ Above(e, below[k])
    BY <1>1, <2>3 DEF EntrySound, Above
  <2> QED BY <1>3, <1>4, <2>2, <2>3, <2>4
<1>6. CASE t = clear_explicit_setting_value(s, k)
  <2> DEFINE e == [s[k] EXCEPT !.value = s[k].fallback, !.raw = s[k].fallback_raw,
                               !.error = s[k].fallback_error, !.loaded = FALSE, !.dirty = TRUE]
  <2>2. t = s \/ t = [s EXCEPT ![k] = e]
    BY <1>6 DEF clear_explicit_setting_value
  <2>3. /\ e \in Entry /\ e.value = s[k].fallback /\ e.raw = s[k].fallback_raw
        /\ e.error = s[k].fallback_error /\ ~e.loaded /\ e.dirty
        /\ e.fallback = s[k].fallback /\ e.fallback_raw = s[k].fallback_raw
        /\ e.fallback_error = s[k].fallback_error
    BY <1>1 DEF Entry
  <2> HIDE DEF e
  <2>4. EntrySound(k, e) /\ Above(e, below[k]) /\ Alike(e, below[k])
    BY <1>1, <2>3 DEF EntrySound, Above, Alike
  <2> QED BY <1>3, <1>4, <2>2, <2>3, <2>4
<1> QED BY <1>5, <1>6 DEF EditOf

-----------------------------------------------------------------------------
(* The invariant.                                                            *)

\* The parts of the invariant.
FilesTyped == gfile \in File /\ pfile \in File /\ base \in File
\* The editor stands on the defaults that were saved last, and says what it was opened from.
EditorSound == OnTop(editor, load_global_settings(gfile)) /\ Reads(editor, base)
\* The dialog stands on the built-in defaults; a text that is invalid hides a built-in value.
DialogSound == dialog # <<>> =>
  /\ OnTop(dialog, create_settings_store)
  /\ \A k \in Key : dialog[k].raw # No => dialog[k].value = Default[k]
SessionSound == session \in Store \cup {<<>>} /\ ConflictFree
EditsTyped == edits \in 0..MaxEdits
SettingsInv == FilesTyped /\ EditorSound /\ DialogSound /\ SessionSound /\ EditsTyped

\* A key that is not edited says what the file and the defaults of now say.
LEMMA InvFresh == ASSUME SettingsInv PROVE FreshEditor
<1> DEFINE o == Open(gfile, base)
<1>1. gfile \in File /\ base \in File /\ OnTop(editor, load_global_settings(gfile)) /\ Reads(editor, base)
  BY DEF SettingsInv, FilesTyped, EditorSound
<1>2. OnTop(o, load_global_settings(gfile)) /\ Reads(o, base) /\ \A k \in Key : ~o[k].dirty
  <2>1. ASSUME NEW k \in Key PROVE ~o[k].dirty
    <3>1. ~Connection(gfile)[k].dirty /\ EntrySound(k, Connection(gfile)[k]) /\ base[k] \in Text \cup {No}
      BY <1>1, Below DEF OnTop, Sound, File
    <3>2. o[k] = ReadOf(k, Connection(gfile)[k], base[k]) \/ o[k] = Connection(gfile)[k]
      BY LayerOf DEF Open
    <3> HIDE DEF o
    <3> QED BY <3>1, <3>2, ReadSays
  <2> QED BY <1>1, <2>1, Opened
<1> HIDE DEF o
<1> SUFFICES ASSUME NEW k \in Key \ Bindings, ~editor[k].dirty PROVE Shown(editor, k) = Shown(o, k)
  BY DEF FreshEditor, o
<1>3. /\ EntrySound(k, editor[k]) /\ EntrySound(k, o[k])
      /\ Above(editor[k], load_global_settings(gfile)[k]) /\ Above(o[k], load_global_settings(gfile)[k])
  BY <1>1, <1>2 DEF OnTop, Sound
<1>4. editor[k].loaded \in BOOLEAN /\ o[k].loaded \in BOOLEAN
      /\ editor[k].error \in BOOLEAN /\ o[k].error \in BOOLEAN
  BY <1>3 DEF EntrySound, Entry
<1>5. editor[k].loaded = o[k].loaded
  BY <1>1, <1>2, <1>4 DEF Reads
<1>6. Written(editor[k]) = Written(o[k]) /\ editor[k].error = o[k].error
  <2>1. CASE editor[k].loaded
    <3>1. Written(editor[k]) = Written(o[k])
      BY <1>1, <1>2, <1>5, <2>1 DEF Reads
    <3> QED BY <1>3, <1>4, <3>1, WrittenSays
  <2>2. CASE ~editor[k].loaded
    BY <1>3, <1>5, <2>2 DEF Above, Alike, Written
  <2> QED BY <2>1, <2>2
<1> QED BY <1>5, <1>6 DEF Shown, Says

\* A store that is valid says the same when it is read back above one that says the same of
\* what it does not set.
LEMMA Reread ==
  ASSUME NEW s, Sound(s), ~Clash(Values(s)), NEW c, Sound(c),
         \A k \in Key : ~s[k].loaded => Alike(c[k], s[k]), NEW k \in Key
  PROVE  LET r == Layer(c, Serialize(s))[k] IN
         /\ Written(r) = Written(s[k]) /\ r.error = s[k].error
         /\ s[k].loaded => r.loaded
         /\ ~s[k].loaded => r = c[k]
         /\ s[k].raw = No => r.value = s[k].value /\ r.raw = No
         /\ s[k].loaded /\ s[k].raw # No => r.value = c[k].value /\ r.raw = s[k].raw
<1> DEFINE back(l) == ReadOf(l, c[l], Serialize(s)[l])
<1>1. ASSUME NEW l \in Key
      PROVE  /\ Written(back(l)) = Written(s[l]) /\ back(l).error = s[l].error
             /\ s[l].loaded => back(l).loaded
             /\ ~s[l].loaded => back(l) = c[l]
             /\ s[l].raw = No => back(l).value = s[l].value /\ back(l).raw = No
             /\ s[l].loaded /\ s[l].raw # No => back(l).value = c[l].value /\ back(l).raw = s[l].raw
  <2>1. EntrySound(l, s[l]) /\ EntrySound(l, c[l]) /\ Serialize(s)[l] = IF s[l].loaded THEN Written(s[l]) ELSE No
    BY SerializeSays DEF Sound
  <2>2. CASE s[l].loaded
    BY <2>1, <2>2, ReadsBack
  <2>3. CASE ~s[l].loaded
    <3>1. back(l) = c[l]
      BY <2>1, <2>3, ReadsBack
    <3> HIDE DEF back
    <3> QED BY <2>3, <3>1 DEF Alike, Written
  <2> QED BY <2>2, <2>3
<1>2. \A l \in Bindings : Values(Read(c, Serialize(s)))[l] = Values(s)[l]
  <2> SUFFICES ASSUME NEW l \in Bindings PROVE Values(Read(c, Serialize(s)))[l] = Values(s)[l]
    OBVIOUS
  <2>1. l \in Key /\ l \notin Strict /\ EntrySound(l, s[l])
    BY SettingsAssumption DEF Sound
  <2>2. s[l].raw = No
    BY <2>1 DEF EntrySound
  <2>3. Read(c, Serialize(s))[l] = back(l)
    BY <2>1, ReadsEntries
  <2> HIDE DEF back
  <2> QED BY <1>1, <2>1, <2>2, <2>3 DEF Values
<1>3. ~Clash(Values(Read(c, Serialize(s))))
  BY <1>2 DEF Clash
<1>4. Layer(c, Serialize(s))[k] = back(k)
  BY <1>3, LayerOf
<1> HIDE DEF back
<1> QED BY <1>1, <1>4

\* What is saved of the editor is read back.
LEMMA InvReloads == ASSUME SettingsInv PROVE SavedReloads
<1> DEFINE r == Open(gfile, Serialize(editor))
           low == load_global_settings(gfile)
<1> SUFFICES ASSUME Valid(editor), NEW k \in Key PROVE Shown(r, k) = Shown(editor, k)
  BY DEF SavedReloads
<1>1. gfile \in File /\ OnTop(editor, low) /\ OnTop(Connection(gfile), low) /\ ~Connection(gfile)[k].loaded
  BY Below DEF SettingsInv, FilesTyped, EditorSound
<1>2. \A l \in Key : ~editor[l].loaded => Alike(Connection(gfile)[l], editor[l])
  <2> HIDE DEF low
  <2> QED BY <1>1, Below DEF OnTop, Above, Alike
<1>3. /\ Written(r[k]) = Written(editor[k]) /\ r[k].error = editor[k].error
      /\ editor[k].loaded => r[k].loaded
      /\ ~editor[k].loaded => r[k] = Connection(gfile)[k]
  BY <1>1, <1>2, Reread DEF OnTop, Open, Valid
<1>4. r[k].loaded = editor[k].loaded
  <2>1. EntrySound(k, editor[k]) /\ EntrySound(k, Connection(gfile)[k]) /\ EntrySound(k, r[k])
    <3>1. Serialize(editor) \in File
      BY <1>1, SerializeSays DEF OnTop
    <3> QED BY <1>1, <3>1, Opened DEF OnTop, Sound
  <2> HIDE DEF r
  <2> QED BY <1>1, <1>3, <2>1 DEF EntrySound, Entry
<1> QED BY <1>3, <1>4 DEF Shown, Says

\* The invariant types the files and the stores.
LEMMA InvTyped == ASSUME SettingsInv PROVE SettingsTypeOK
BY DEF SettingsInv, FilesTyped, EditorSound, DialogSound, SessionSound, EditsTyped, SettingsTypeOK, OnTop, Sound

\* At first the editor is opened from the files.
LEMMA SettingsStart == ASSUME SettingsInit PROVE SettingsInv
<1>1. FilesTyped
  BY SettingsAssumption DEF SettingsInit, FilesTyped
<1>2. EditorSound
  BY <1>1, Opened DEF SettingsInit, EditorSound, FilesTyped
<1>3. DialogSound /\ SessionSound /\ EditsTyped
  BY SettingsAssumption DEF SettingsInit, DialogSound, SessionSound, EditsTyped, ConflictFree
<1> QED BY <1>1, <1>2, <1>3 DEF SettingsInv

\* The user edits the connection.
LEMMA EditorEdits == ASSUME SettingsInv, NEW k \in Key, EditorSets(k) PROVE SettingsInv'
<1>1. /\ UNCHANGED <<gfile, pfile, base, dialog, session>> /\ edits' = edits + 1 /\ edits < MaxEdits
      /\ EditOf(editor, editor', k)
  BY DEF EditorSets, Edited, EditOf
<1>2. gfile \in File /\ OnTop(editor, load_global_settings(gfile)) /\ Reads(editor, base)
  BY DEF SettingsInv, FilesTyped, EditorSound
<1>3. OnTop(editor', load_global_settings(gfile)) /\ \A l \in Key : editor'[l] = editor[l] \/ editor'[l].dirty
  BY <1>1, <1>2, Below, EditKeeps
<1>4. EditorSound'
  BY <1>1, <1>2, <1>3 DEF EditorSound, Reads
<1>5. (FilesTyped /\ DialogSound /\ SessionSound /\ EditsTyped)'
  BY <1>1, SettingsAssumption DEF SettingsInv, FilesTyped, DialogSound, SessionSound, EditsTyped, ConflictFree
<1> QED BY <1>4, <1>5 DEF SettingsInv

\* The user edits the defaults.
LEMMA DialogEdits == ASSUME SettingsInv, NEW k \in Key, DefaultsSets(k) PROVE SettingsInv'
<1>1. /\ UNCHANGED <<gfile, pfile, editor, base, session>> /\ edits' = edits + 1 /\ edits < MaxEdits
      /\ dialog # <<>> /\ EditOf(dialog, dialog', k)
  BY DEF DefaultsSets, Edited, EditOf
<1> DEFINE c == create_settings_store
<1>2. OnTop(dialog, c) /\ \A l \in Key : dialog[l].raw # No => dialog[l].value = Default[l]
  BY <1>1 DEF SettingsInv, DialogSound
<1>3. /\ OnTop(dialog', c)
      /\ \A l \in Key :
           \/ dialog'[l] = dialog[l]
           \/ /\ dialog'[l].loaded \/ Alike(dialog'[l], c[l])
              /\ dialog'[l].loaded => dialog'[l].raw = No
  <2>1. Sound(c) BY Created
  <2> HIDE DEF c
  <2> QED BY <1>1, <1>2, <2>1, EditKeeps
<1>4. \A l \in Key : dialog'[l].raw # No => dialog'[l].value = Default[l]
  <2>1. \A l \in Key : c[l].raw = No BY Created
  <2> HIDE DEF c
  <2> QED BY <1>2, <1>3, <2>1 DEF Alike
<1>5. DialogSound'
  BY <1>3, <1>4 DEF DialogSound
<1>6. (FilesTyped /\ EditorSound /\ SessionSound /\ EditsTyped)'
  BY <1>1, SettingsAssumption DEF SettingsInv, FilesTyped, EditorSound, SessionSound, EditsTyped, ConflictFree
<1> QED BY <1>5, <1>6 DEF SettingsInv

\* The user edits the settings of a window.
LEMMA SessionEdits == ASSUME SettingsInv, NEW k \in Key, SessionSets(k) PROVE SettingsInv'
<1>1. /\ UNCHANGED <<gfile, pfile, editor, base, dialog>> /\ edits' = edits + 1 /\ edits < MaxEdits
      /\ session # <<>> /\ EditOf(session, session', k) /\ Valid(session')
  BY DEF SessionSets, Edited, EditOf
<1>2. session \in Store
  BY <1>1 DEF SettingsInv, SessionSound
<1>3. session' \in Store
  BY <1>1, <1>2, EditTyped
<1>4. SessionSound'
  BY <1>1, <1>3 DEF SessionSound, ConflictFree, Valid
<1>5. (FilesTyped /\ EditorSound /\ DialogSound /\ EditsTyped)'
  BY <1>1, SettingsAssumption DEF SettingsInv, FilesTyped, EditorSound, DialogSound, EditsTyped
<1> QED BY <1>4, <1>5 DEF SettingsInv

\* The editor is opened again from a file, its own or that of another program.
LEMMA EditorReads ==
  ASSUME SettingsInv, pfile' \in File, base' = pfile', editor' = Open(gfile, pfile'),
         UNCHANGED <<gfile, dialog, session, edits>>
  PROVE  SettingsInv'
<1>1. EditorSound'
  BY Opened DEF SettingsInv, FilesTyped, EditorSound
<1>2. (FilesTyped /\ DialogSound /\ SessionSound /\ EditsTyped)'
  BY DEF SettingsInv, FilesTyped, DialogSound, SessionSound, EditsTyped, ConflictFree
<1> QED BY <1>1, <1>2 DEF SettingsInv

\* The dialog is opened: its store stands on the built-in defaults.
LEMMA DialogOpens == ASSUME SettingsInv, OpenDefaults PROVE SettingsInv'
<1> DEFINE c == create_settings_store
           low == load_global_settings(gfile)
<1>1. UNCHANGED <<gfile, pfile, editor, base, session, edits>> /\ dialog' = low
  BY DEF OpenDefaults
<1>2. gfile \in File
  BY DEF SettingsInv, FilesTyped
<1>3. OnTop(low, c)
  BY <1>2, Created, LayerOnTop DEF load_global_settings
<1>4. ASSUME NEW k \in Key, low[k].raw # No PROVE low[k].value = Default[k]
  <2>1. low[k] = ReadOf(k, c[k], gfile[k]) \/ low[k] = c[k]
    BY LayerOf DEF load_global_settings
  <2>2. EntrySound(k, c[k]) /\ c[k].value = Default[k] /\ c[k].raw = No /\ gfile[k] \in Text \cup {No}
    BY <1>2, Created DEF Sound, File
  <2> HIDE DEF low, c
  <2> QED BY <1>4, <2>1, <2>2, ReadSays
<1>5. DialogSound'
  BY <1>1, <1>3, <1>4 DEF DialogSound
<1>6. (FilesTyped /\ EditorSound /\ SessionSound /\ EditsTyped)'
  BY <1>1 DEF SettingsInv, FilesTyped, EditorSound, SessionSound, EditsTyped, ConflictFree
<1> QED BY <1>5, <1>6 DEF SettingsInv

\* What is saved of the dialog is what it says.
LEMMA DialogSaves == ASSUME SettingsInv, DefaultsSave PROVE SettingsInv'
<1> DEFINE c == create_settings_store
           low == load_global_settings(gfile')
<1>1. /\ dialog # <<>> /\ ~Clash(Values(dialog)) /\ gfile' = Serialize(dialog) /\ editor' = Rebase(editor, dialog)
      /\ dialog' = <<>> /\ UNCHANGED <<pfile, base, session, edits>>
  BY DEF DefaultsSave, Valid
<1>2. OnTop(dialog, c) /\ \A l \in Key : dialog[l].raw # No => dialog[l].value = Default[l]
  BY <1>1 DEF SettingsInv, DialogSound
<1>3. Sound(editor) /\ Reads(editor, base)
  BY DEF SettingsInv, EditorSound, OnTop
<1>4. gfile' \in File
  BY <1>1, <1>2, SerializeSays DEF OnTop
<1>5. AlikeStores(dialog, low)
  <2> SUFFICES ASSUME NEW k \in Key PROVE Alike(dialog[k], low[k])
    BY DEF AlikeStores
  <2>1. Sound(c) /\ \A l \in Key : ~dialog[l].loaded => Alike(c[l], dialog[l])
    <3>1. Sound(c) BY Created
    <3> HIDE DEF c
    <3> QED BY <1>2, <3>1 DEF OnTop, Above, Alike
  <2>2. c[k].value = Default[k]
    BY Created
  <2>3. low[k] = Layer(c, Serialize(dialog))[k]
    BY <1>1 DEF load_global_settings
  <2> HIDE DEF c, low
  <2> QED BY <1>1, <1>2, <2>1, <2>2, <2>3, Reread DEF OnTop, Alike
<1>6. EditorSound'
  <2>1. OnTop(editor', dialog)
    BY <1>1, <1>2, <1>3, Rebased DEF OnTop
  <2>2. OnTop(editor', low)
    <3> HIDE DEF low
    <3> QED BY <1>5, <2>1, TopOfAlike
  <2>3. \A k \in Key : /\ editor'[k].loaded = editor[k].loaded /\ editor'[k].dirty = editor[k].dirty
                       /\ editor[k].loaded => Alike(editor'[k], editor[k])
    BY <1>1, <1>2, <1>3, Rebased DEF OnTop
  <2>4. Reads(editor', base)
    BY <1>3, <2>3 DEF Reads, Alike, Written
  <2> QED BY <1>1, <2>2, <2>4 DEF EditorSound
<1>7. (FilesTyped /\ DialogSound /\ SessionSound /\ EditsTyped)'
  BY <1>1, <1>4 DEF SettingsInv, FilesTyped, DialogSound, SessionSound, EditsTyped, ConflictFree
<1> QED BY <1>6, <1>7 DEF SettingsInv

\* What a launch reads is sound and free of clashes.
LEMMA LaunchSays ==
  ASSUME SettingsInv
  PROVE  Sound(Launched) /\ ~Clash(Values(Launched))
<1> DEFINE o == Open(gfile, pfile)
<1>1. Sound(o) /\ ~Clash(Values(o)) /\ Serialize(editor) \in File
  BY Opened, SerializeSays DEF SettingsInv, FilesTyped, EditorSound, OnTop
<1> HIDE DEF o
<1>2. Sound(Layer(o, Serialize(editor))) /\ ~Clash(Values(Layer(o, Serialize(editor))))
  BY <1>1, LayerSound, LayerFree
<1> QED BY <1>1, <1>2 DEF Launched, o

\* A window is launched.
LEMMA LaunchKeeps == ASSUME SettingsInv, Launch PROVE SettingsInv'
<1>1. /\ UNCHANGED <<gfile, pfile, editor, base, dialog, edits>>
      /\ session' = [k \in Key |-> [Launched[k] EXCEPT !.dirty = FALSE]]
  BY DEF Launch
<1>2. \A k \in Key : Launched[k] \in Entry
  BY LaunchSays DEF Sound, EntrySound
<1>3. session' \in Store
  BY <1>1, <1>2 DEF Store, Entry
<1>4. \A k \in Key : Values(session')[k] = Values(Launched)[k]
  BY <1>1, <1>2 DEF Values, Entry
<1>5. ~Clash(Values(session'))
  BY <1>4, LaunchSays, SettingsAssumption DEF Clash
<1>6. SessionSound'
  BY <1>3, <1>5 DEF SessionSound, ConflictFree
<1>7. (FilesTyped /\ EditorSound /\ DialogSound /\ EditsTyped)'
  BY <1>1 DEF SettingsInv, FilesTyped, EditorSound, DialogSound, EditsTyped
<1> QED BY <1>6, <1>7 DEF SettingsInv

\* A window saves its settings into the file of the connection.
LEMMA SessionFile == ASSUME SettingsInv, SessionSaves PROVE SettingsInv'
<1>1. pfile' = Serialize(session) /\ UNCHANGED <<gfile, editor, base, dialog, session, edits>>
  BY DEF SessionSaves
<1>2. session \in Store
  BY DEF SessionSaves, SettingsInv, SessionSound
<1>3. Serialize(session) \in File
  <2>1. ASSUME NEW k \in Key PROVE Serialize(session)[k] \in Text \cup {No}
    BY <1>2 DEF Serialize, Store, Entry, Written, Text
  <2>2. Serialize(session) = [k \in Key |-> Serialize(session)[k]]
    BY DEF Serialize
  <2> QED BY <2>1, <2>2 DEF File
<1>4. FilesTyped'
  BY <1>1, <1>3 DEF SettingsInv, FilesTyped
<1>5. (EditorSound /\ DialogSound /\ SessionSound /\ EditsTyped)'
  BY <1>1 DEF SettingsInv, EditorSound, DialogSound, SessionSound, EditsTyped, ConflictFree
<1> QED BY <1>4, <1>5 DEF SettingsInv

\* Every step keeps the invariant.
LEMMA SettingsStep == ASSUME SettingsInv, [SettingsNext]_layers PROVE SettingsInv'
<1>1. ASSUME NEW k \in Key, EditorSets(k) \/ DefaultsSets(k) \/ SessionSets(k) PROVE SettingsInv'
  BY <1>1, EditorEdits, DialogEdits, SessionEdits
<1>2. CASE EditorSaves
  <2>1. Serialize(editor) \in File
    BY SerializeSays DEF SettingsInv, EditorSound, OnTop
  <2> QED BY <1>2, <2>1, EditorReads DEF EditorSaves
<1>3. CASE EditorReloads
  <2>1. UNCHANGED <<gfile, pfile, dialog, session, edits>> /\ pfile \in File
    BY <1>3 DEF EditorReloads, SettingsInv, FilesTyped
  <2> QED BY <1>3, <2>1, EditorReads DEF EditorReloads
<1>4. CASE DefaultsCancel \/ SessionEnds
  BY <1>4 DEF DefaultsCancel, SessionEnds, SettingsInv, FilesTyped, EditorSound, DialogSound, SessionSound, EditsTyped,
    ConflictFree
<1>5. CASE UNCHANGED layers
  BY <1>5 DEF layers, SettingsInv, FilesTyped, EditorSound, DialogSound, SessionSound, EditsTyped, ConflictFree
<1> QED
  BY <1>1, <1>2, <1>3, <1>4, <1>5, DialogOpens, DialogSaves, LaunchKeeps, SessionFile DEF SettingsNext

\* The inductive invariant: each store is sound and stands on the one below it, and the editor
\* says what the file it was opened from says, but for what the user has edited.
THEOREM SettingsInvariant == SettingsSpec => []SettingsInv
<1> QED BY SettingsStart, SettingsStep, PTL DEF SettingsSpec

\* Whatever defaults are saved under it, an open editor shows what a fresh one would, and what
\* it saves is read back as it was (settings-store.cpp:175-398, settings.cpp:70-105).
THEOREM DraftIsShown == SettingsSpec => []ShownTrue
<1>1. SettingsInv => ShownTrue
  BY InvTyped, InvFresh, InvReloads DEF ShownTrue
<1> QED BY <1>1, SettingsInvariant, PTL

\* A strict key of a launched window is in error exactly if its topmost text is invalid.
LEMMA LaunchFails == ASSUME SettingsInv PROVE FailsClosed
<1> DEFINE g == load_global_settings(gfile)
           c == Connection(gfile)
           o == Open(gfile, pfile)
           draft == IF Dirty(editor) THEN Serialize(editor) ELSE pfile
<1> SUFFICES ASSUME Launch, NEW k \in Strict
             PROVE  session'[k].error <=>
                      (CASE draft[k] # No -> draft[k]
                         [] draft[k] = No /\ pfile[k] # No -> pfile[k]
                         [] OTHER -> gfile[k]) \in Text \ Value
  BY DEF FailsClosed
<1>1. /\ k \in Key /\ k \notin Bindings /\ gfile \in File /\ pfile \in File /\ draft \in File
      /\ Sound(g) /\ Sound(c) /\ Above(c[k], g[k]) /\ ~c[k].loaded /\ Sound(o)
  BY Below, Opened, SettingsAssumption, SerializeSays DEF SettingsInv, FilesTyped, EditorSound, OnTop
<1>2. /\ k \in Key /\ gfile[k] \in Text \cup {No} /\ pfile[k] \in Text \cup {No} /\ draft[k] \in Text \cup {No}
      /\ EntrySound(k, g[k]) /\ EntrySound(k, c[k]) /\ EntrySound(k, o[k])
  <2> HIDE DEF g, c, o, draft
  <2> QED BY <1>1 DEF File, Sound
<1>3. session'[k].error = Launched[k].error
  <2>1. Launched[k] \in Entry /\ session'[k] = [Launched[k] EXCEPT !.dirty = FALSE]
    BY <1>1, LaunchSays DEF Launch, Sound, EntrySound
  <2> QED BY <2>1 DEF Entry
<1>4. Counts(k, gfile[k]) => (g[k].error <=> gfile[k] \notin Value)
  <2>1. EntrySound(k, create_settings_store[k]) /\ g[k] = ReadOf(k, create_settings_store[k], gfile[k])
    BY <1>1, LayerOf, Created DEF load_global_settings, Sound
  <2> HIDE DEF g
  <2> QED BY <1>2, <2>1, ReadSays
<1>5. ~Counts(k, gfile[k]) => ~g[k].error
  <2>1. EntrySound(k, create_settings_store[k]) /\ g[k] = ReadOf(k, create_settings_store[k], gfile[k])
        /\ ~create_settings_store[k].error
    BY <1>1, LayerOf, Created DEF load_global_settings, Sound
  <2> HIDE DEF g
  <2> QED BY <1>2, <2>1, ReadSays
<1>6. c[k].error = g[k].error
  <2> HIDE DEF g, c
  <2> QED BY <1>1 DEF Above, Alike
<1>7. (Counts(k, pfile[k]) => (o[k].error <=> pfile[k] \notin Value)) /\ (~Counts(k, pfile[k]) => o[k] = c[k])
  <2>1. o[k] = ReadOf(k, c[k], pfile[k])
    BY <1>1, LayerOf DEF Open
  <2> HIDE DEF o, c
  <2> QED BY <1>2, <2>1, ReadSays
<1>8. /\ Counts(k, draft[k]) => (Launched[k].error <=> draft[k] \notin Value)
      /\ (~Counts(k, draft[k]) => Launched[k] = o[k])
  <2>1. CASE Dirty(editor)
    <3>1. Launched[k] = ReadOf(k, o[k], draft[k])
      BY <1>1, <2>1, LayerOf DEF Launched
    <3> HIDE DEF o, draft
    <3> QED BY <1>2, <3>1, ReadSays
  <2>2. CASE ~Dirty(editor)
    <3>1. Launched = o /\ draft = pfile
      BY <2>2 DEF Launched
    <3>2. ~Counts(k, pfile[k]) \/ (o[k].error <=> pfile[k] \notin Value)
      BY <1>7
    <3> HIDE DEF o, draft
    <3> QED BY <3>1, <3>2
  <2> QED BY <2>1, <2>2
<1>9. \A t \in Text \cup {No} : (Counts(k, t) <=> t # No) /\ (t \in Text \ Value <=> t # No /\ t \notin Value)
  BY SettingsAssumption DEF Counts, Text
<1> HIDE DEF g, c, o, draft
<1> QED BY <1>2, <1>3, <1>4, <1>5, <1>6, <1>7, <1>8, <1>9

\* A launched window says of every key what the editor says.
LEMMA LaunchesDraft == ASSUME SettingsInv PROVE LaunchesExactly
<1> DEFINE low == load_global_settings(gfile)
           c == Connection(gfile)
           o == Open(gfile, pfile)
<1> SUFFICES ASSUME Launch, base = pfile, \A k \in Key : Counts(k, pfile[k]) => editor[k].loaded, NEW k \in Key
             PROVE  Shown(editor, k).text = Written(session'[k]) /\ editor[k].error = session'[k].error
  BY DEF LaunchesExactly, Drafted
<1>1. /\ gfile \in File /\ pfile \in File /\ ~Clash(Values(editor)) /\ Reads(editor, pfile)
      /\ OnTop(editor, low) /\ OnTop(c, low) /\ OnTop(o, low) /\ \A l \in Key : ~c[l].loaded
  BY Below, Opened DEF SettingsInv, FilesTyped, EditorSound, Launch, Valid
<1>2. \A l \in Key : /\ EntrySound(l, editor[l]) /\ EntrySound(l, c[l]) /\ pfile[l] \in Text \cup {No}
                     /\ ~editor[l].loaded => Alike(c[l], editor[l])
  <2> HIDE DEF low, c
  <2> SUFFICES ASSUME NEW l \in Key
               PROVE  /\ EntrySound(l, editor[l]) /\ EntrySound(l, c[l]) /\ pfile[l] \in Text \cup {No}
                      /\ ~editor[l].loaded => Alike(c[l], editor[l])
    OBVIOUS
  <2>1. Above(editor[l], low[l]) /\ Above(c[l], low[l]) /\ EntrySound(l, editor[l]) /\ EntrySound(l, c[l])
    BY <1>1 DEF OnTop, Sound
  <2>2. pfile[l] \in Text \cup {No}
    BY <1>1 DEF File
  <2> QED BY <1>1, <2>1, <2>2 DEF Above, Alike
<1>3. \A l \in Key : ~editor[l].loaded => o[l] = c[l]
  <2> SUFFICES ASSUME NEW l \in Key, ~editor[l].loaded PROVE o[l] = c[l]
    OBVIOUS
  <2>1. o[l] = ReadOf(l, c[l], pfile[l]) \/ o[l] = c[l]
    BY LayerOf DEF Open
  <2>2. ~Counts(l, pfile[l])
    OBVIOUS
  <2> HIDE DEF o, c
  <2> QED BY <1>2, <2>1, <2>2, ReadSays
<1>4. Written(Launched[k]) = Written(editor[k]) /\ Launched[k].error = editor[k].error
  <2>1. CASE Dirty(editor)
    <3>1. Launched = Layer(o, Serialize(editor))
      BY <2>1 DEF Launched
    <3>2. Sound(o) /\ Sound(editor) /\ \A l \in Key : ~editor[l].loaded => Alike(o[l], editor[l])
      <4> HIDE DEF o, c
      <4> QED BY <1>1, <1>2, <1>3 DEF OnTop
    <3> HIDE DEF o
    <3> QED BY <1>1, <3>1, <3>2, Reread
  <2>2. CASE ~Dirty(editor)
    <3>1. Launched = Layer(c, pfile)
      BY <2>2 DEF Launched, Open
    <3>2. \A l \in Key : /\ Counts(l, pfile[l]) <=> editor[l].loaded
                         /\ editor[l].loaded => Written(editor[l]) = pfile[l]
      BY <1>1, <2>2 DEF Reads, Dirty
    <3>3. ASSUME NEW l \in Key
          PROVE  /\ ReadOf(l, c[l], pfile[l]) = ReadOf(l, c[l], Serialize(editor)[l])
      <4>1. Serialize(editor)[l] = IF editor[l].loaded THEN Written(editor[l]) ELSE No
        BY <1>1, SerializeSays DEF OnTop
      <4>2. CASE editor[l].loaded
        <5>1. Serialize(editor)[l] = pfile[l] BY <3>2, <4>1, <4>2
        <5> QED BY <5>1
      <4>3. CASE ~editor[l].loaded
        <5>1. ~Counts(l, pfile[l]) /\ ~Counts(l, No) /\ Serialize(editor)[l] = No
          BY <1>2, <3>2, <4>1, <4>3, WrittenSays
        <5>2. No \in Text \cup {No} OBVIOUS
        <5> HIDE DEF c
        <5> QED BY <1>2, <5>1, <5>2, ReadSays
      <4> QED BY <4>2, <4>3
    <3>4. Read(c, pfile) = Read(c, Serialize(editor))
      <4>1. \A l \in Key : Read(c, pfile)[l] = Read(c, Serialize(editor))[l]
        <5> SUFFICES ASSUME NEW l \in Key PROVE Read(c, pfile)[l] = Read(c, Serialize(editor))[l]
          OBVIOUS
        <5>1. ReadOf(l, c[l], pfile[l]) = ReadOf(l, c[l], Serialize(editor)[l])
          BY <3>3
        <5> HIDE DEF c
        <5> QED BY <5>1, ReadsEntries
      <4>2. Read(c, pfile) = [l \in Key |-> Read(c, pfile)[l]]
            /\ Read(c, Serialize(editor)) = [l \in Key |-> Read(c, Serialize(editor))[l]]
        BY DEF Read
      <4> QED BY <4>1, <4>2
    <3>5. Launched = Layer(c, Serialize(editor))
      BY <3>1, <3>4 DEF Layer
    <3> HIDE DEF c
    <3> QED BY <1>1, <1>2, <3>5, Reread DEF OnTop
  <2> QED BY <2>1, <2>2
<1>5. Written(session'[k]) = Written(Launched[k]) /\ session'[k].error = Launched[k].error
  <2>1. Launched[k] \in Entry /\ session'[k] = [Launched[k] EXCEPT !.dirty = FALSE]
    BY LaunchSays DEF Launch, Sound, EntrySound
  <2> QED BY <2>1 DEF Entry, Written
<1> QED BY <1>4, <1>5 DEF Shown, Says

\* No launched window has a clash, a strict key of it is in error exactly if its topmost text is
\* invalid, and it runs with the values of the draft (main.cpp:1814-2071).
THEOREM LaunchIsSound == SettingsSpec => LaunchSound
<1>1. SettingsInv => ConflictFree
  BY DEF SettingsInv, SessionSound
<1>2. SettingsInv /\ [SettingsNext]_layers =>
        [session = <<>> /\ session' # <<>> => FailsClosed /\ LaunchesExactly]_layers
  BY LaunchFails, LaunchesDraft
<1> QED BY <1>1, <1>2, SettingsInvariant, PTL DEF SettingsSpec, LaunchSound
=============================================================================
