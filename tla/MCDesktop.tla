------------------------------ MODULE MCDesktop ------------------------------
(* The launcher and the desktop's other programs, each part by itself: "part" says which *)
(* one a behaviour is of, and the others stay in their first state.              *)
(*   tray    the tray icon and the window it retains, fairness                     *)
(*   keys    the global hotkeys with the portal and the compositor, fairness          *)
(*   two     two launchers in one directory, three starts, a command that starts one  *)
(*   one     a launcher that may start again, a setup, a command that only opens     *)
(*           something, fairness                                              *)
EXTENDS HotkeyBackend, ControlServer

MCLists == {<< >>, <<"a">>, <<"b">>}
MCDesktops == {"wayland", "bare", "x11"}

VARIABLE part

Begin(c) == client[c] = "begin" /\ ~late[c] /\ child[c] = 0
\* The steps of these two parts: the other clients do not begin, or the other launcher does not.
Two == Begin("setup")' /\ Begin("open")'
One == server'["l2"] = "off" /\ starts' <= 2 /\ Begin("id")'

VARIABLES desk, signals, monitor, watcher, tray_backend, icon, window, app
tray == <<desk, signals, monitor, watcher, tray_backend, icon, window, app>>
Tray == INSTANCE TrayBackend WITH backend <- tray_backend,
  Modes <- {"tray"}, Displays <- {"none", "tray"}, MaxWatchers <- 2, MaxChanges <- 1

ASSUME MCAssumption == HotkeyConstants

MCInit ==
  /\ part \in {"keys", "tray", "two", "one"}
  /\ Init /\ SocketInit
  /\ part = "keys" \/ (desktop = "bare" /\ backend.actions = << >>)
  /\ Tray!Init
  /\ part = "tray" \/ (desk.owner = 0 /\ desk.x = "none" /\ ~app.atLogin)
MCNext ==
  /\ part' = part
  /\ \/ part = "keys" /\ Next /\ UNCHANGED <<socket, tray>>
     \/ part = "tray" /\ Tray!Next /\ UNCHANGED <<vars, socket>>
     \/ part = "two" /\ SocketNext /\ Two /\ UNCHANGED <<vars, tray>>
     \/ part = "one" /\ SocketNext /\ One /\ UNCHANGED <<vars, tray>>
EtctlRuns ==
  \A c \in {"setup", "open"} :
    /\ WF_socket(part = "one" /\ (Connect(c) \/ Unavailable(c)))
    /\ WF_socket(part = "one" /\ Send(c)) /\ WF_socket(part = "one" /\ Answered(c))
    /\ WF_socket(part = "one" /\ Deadline(c))
MCSpec ==
  /\ MCInit /\ [][MCNext]_<<part, vars, socket, tray>> /\ EtctlRuns
  /\ WF_vars(part = "keys" /\ Bus) /\ WF_tray(part = "tray" /\ Tray!Monitor)

\* A command, a change of the tray and the registration of a list each come to their end;
\* as only one part moves, this is one property.
Waiting ==
  \/ part = "one" /\ \E c \in {"setup", "open"} : client[c] \notin Ended
  \/ part = "keys" /\ Unsettled
  \/ part = "tray" /\ Tray!Unsettled
DesktopEnds == Waiting ~> ~Waiting
=============================================================================
