------------------------------ MODULE MCLauncher ------------------------------
(* The launcher's window and its editors, each by itself: "part" says which one a    *)
(* behaviour is of, and the others stay in a first state.                       *)
(*                                                                         *)
(* TrayBackend: two watchers, a host that comes or goes, one failure.              *)
(* ConnectionEditor: two connections, one of them a name the user may give; a     *)
(* file that is there first has no identity or a derived one.                   *)
(* Settings: two bindings, a strict number and a plain setting; files with a     *)
(* clash, with invalid texts and with a value equal to the default.            *)
EXTENDS TrayBackend, Settings

VARIABLE part

CONSTANTS None, MaxActs
VARIABLES disk, work, events, dialogs, pending, job, changes, acts
connections == <<disk, work, events, dialogs, pending, job, changes, acts>>
Editor == INSTANCE ConnectionEditor WITH
  editor <- work, monitor <- events, Connections <- {"a", "b"}, Backups <- {}, NewNames <- {"b"},
  Texts <- {"t1", "t2"}, Broken <- "broken", MaxChanges <- 2

MCKey == {"zoom_in", "zoom_out", "port", "size"}
MCDefault == [k \in MCKey |-> IF k = "zoom_out" THEN "b" ELSE "a"]
MCFile(in, out, port, size) ==
  [k \in MCKey |-> CASE k = "zoom_in" -> in [] k = "zoom_out" -> out
                     [] k = "port" -> port [] k = "size" -> size]
MCGlobalFiles ==
  {MCFile("no", "no", "b", "b"), MCFile("c", "no", "malformed", "no")}
MCProfileFiles ==
  {MCFile("no", "no", "no", "no"), MCFile("b", "no", "a", "malformed"),
   MCFile("no", "c", "malformed", "a"), MCFile("b", "c", "rejected", "b")}

ASSUME MCAssumption == TrayConstants /\ Editor!EditorConstants

MCInit ==
  /\ Init /\ Editor!Init /\ SettingsInit
  /\ part \in {"tray", "editor", "settings"}
  /\ part = "tray" \/ (desk.owner = 0 /\ desk.x = "none" /\ ~app.atLogin)
  /\ part = "editor" \/ disk = [f \in Editor!Files |-> None]
  /\ \A f \in Editor!Files : disk[f] # None => disk[f].id # "random"
  /\ part = "settings" \/ (gfile = MCFile("no", "no", "b", "b") /\ pfile = MCFile("no", "no", "no", "no"))
MCNext ==
  /\ part' = part
  /\ \/ part = "tray" /\ Next /\ UNCHANGED <<connections, layers>>
     \/ part = "editor" /\ Editor!Next /\ UNCHANGED <<vars, layers>>
     \/ part = "settings" /\ SettingsNext /\ UNCHANGED <<vars, connections>>
MCSpec == MCInit /\ [][MCNext]_<<part, vars, connections, layers>>

\* The property of ConnectionEditor, commented there, and its types.
WorkKept == []Editor!TypeOK /\ Editor!WorkKept
=============================================================================
