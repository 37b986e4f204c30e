-------------------------- MODULE ConnectionEditor --------------------------
(***************************************************************************)
(* The launcher's editor of connection files (elder-terms main.cpp,             *)
(* connection-repository.cpp), the monitor of their directory, the identities   *)
(* written in the background (connection-identity.cpp), and the other programs   *)
(* that write, remove and rename the same files.                             *)
(*                                                                         *)
(* A handler of the launcher's main loop is one action: other programs run       *)
(* between handlers.  The connection's settings are one text; a file that does   *)
(* not parse has the text Broken.                                            *)
(***************************************************************************)
EXTENDS Naturals, Sequences

CONSTANTS Connections,   \* names whose files end in ".ini"
          Backups,       \* other names of the directory
          NewNames,      \* names the user gives: to new, renamed and copied connections
          Texts, Broken, \* settings; a file that cannot be parsed
          None,
          MaxChanges,    \* bound: steps of other programs
          MaxActs        \* bound: what the user does, answers to questions apart

EditorConstants ==
  /\ NewNames \subseteq Connections /\ Connections \cap Backups = {}
  /\ Broken \notin Texts /\ None \notin Texts \cup {Broken} \cup Connections \cup Backups
  /\ MaxChanges \in Nat /\ MaxActs \in Nat

Files == Connections \cup Backups
Identities == {None, "derived", "random"}
Content == [text : Texts \cup {Broken}, id : Identities]
Parses(c) == c # None /\ c.text # Broken

VARIABLES
  disk,      \* the directory: the content of each file, or None
  editor,    \* the connection shown, and the draft
  monitor,   \* events on their way, and what the next refresh has to do
  dialogs,   \* the questions that are open
  pending,   \* the action that waits for "Discard changes?", the file to delete
  job,       \* a file whose identity is being written, with the content read
  changes, acts

vars == <<disk, editor, monitor, dialogs, pending, job, changes, acts>>

Empty == [shown |-> FALSE, new |-> FALSE, path |-> None, observed |-> None,
          base |-> None, conflict |-> FALSE, text |-> None, dirty |-> FALSE]
NoEvents == [events |-> <<>>, refresh |-> FALSE, reload |-> FALSE, renamed |-> None]

\* base is a history variable: the content the draft was made from.
Editor ==
  [shown : BOOLEAN, new : BOOLEAN, path : Files \cup {None},
   observed : Content \cup {None}, base : Content \cup {None}, conflict : BOOLEAN,
   text : Texts \cup {None}, dirty : BOOLEAN]
Event == [file : Files, other : Files \cup {None}]

TypeOK ==
  /\ disk \in [Files -> Content \cup {None}]
  /\ editor \in Editor
  /\ monitor \in [events : Seq(Event), refresh : BOOLEAN, reload : BOOLEAN,
                  renamed : Files \cup {None}]
  /\ dialogs \subseteq {"change", "overwrite", "discard", "delete"}
  /\ pending \in [action : {None, "select", "new"}, path : Files \cup {None},
                  delete : Files \cup {None}]
  /\ job \in [path : Files \cup {None}, read : Content \cup {None}]
  /\ changes \in 0..MaxChanges /\ acts \in 0..MaxActs
  \* the editor shows a connection exactly if it has a draft
  /\ editor.shown <=> editor.text # None
  /\ editor.shown => (editor.new <=> editor.path = None)
  /\ ~editor.shown => editor = Empty

Dirty(e) == e.shown /\ (e.new \/ e.dirty)

-----------------------------------------------------------------------------
(* Loading, listing and saving.                                              *)

load_existing_connection(e, path, files) ==
  IF Parses(files[path])
    THEN [shown |-> TRUE, new |-> FALSE, path |-> path, observed |-> files[path],
          base |-> files[path], conflict |-> FALSE, text |-> files[path].text,
          dirty |-> FALSE]
    ELSE e

\* A row is kept for a file that is gone only once its change is known.
preserve_current_editor(e, files) ==
  IF e.shown /\ ~e.new /\ ~e.conflict
     /\ (e.path \notin Connections \/ files[e.path] = None)
    THEN Empty
    ELSE e

select_existing_connection(path, files) ==
  IF path \in Connections /\ files[path] # None
    THEN load_existing_connection(Empty, path, files)
    ELSE Empty

Identity(e, path) ==
  IF path # None /\ Parses(disk[path]) /\ disk[path].id # None THEN disk[path].id
  ELSE "random"

Written(e, path) == [text |-> e.text, id |-> Identity(e, path)]

\* Every write ends with an event that names the file.
Notify(m, file, other) ==
  [m EXCEPT !.events = Append(@, [file |-> file, other |-> other])]

connection_profile_only_gained_id(before, after) ==
  /\ before # None /\ Parses(before) /\ Parses(after)
  /\ before.id = None /\ after.id # None /\ before.text = after.text

-----------------------------------------------------------------------------
Init ==
  /\ disk \in [Files -> Content \cup {None}]
  /\ \A f \in Files : disk[f] # None =>
       f \in Connections \ NewNames /\ disk[f].text = (CHOOSE t \in Texts : TRUE)
  /\ editor = Empty /\ monitor = NoEvents /\ dialogs = {}
  /\ pending = [action |-> None, path |-> None, delete |-> None]
  /\ job = [path |-> None, read |-> None] /\ changes = 0 /\ acts = 0

(* Other programs.                                                          *)

Changed == changes < MaxChanges /\ changes' = changes + 1

ExternalWrite(f) ==
  /\ Changed
  /\ \E c \in Content : c.id # "random" /\ c # disk[f] /\ disk' = [disk EXCEPT ![f] = c]
  /\ monitor' = Notify(monitor, f, None)
  /\ UNCHANGED <<editor, dialogs, pending, job, acts>>

ExternalRemove(f) ==
  /\ Changed /\ disk[f] # None
  /\ disk' = [disk EXCEPT ![f] = None]
  /\ monitor' = Notify(monitor, f, None)
  /\ UNCHANGED <<editor, dialogs, pending, job, acts>>

ExternalRename(f, g) ==
  /\ Changed /\ f # g /\ disk[f] # None
  /\ disk' = [disk EXCEPT ![g] = disk[f], ![f] = None]
  /\ monitor' = Notify(monitor, f, g)
  /\ UNCHANGED <<editor, dialogs, pending, job, acts>>

(* The monitor.                                                             *)

on_connection_directory_changed ==
  /\ monitor.events # <<>>
  /\ LET event == Head(monitor.events)
         selected == editor.path # None /\ editor.path \in {event.file, event.other}
     IN monitor' = [events |-> Tail(monitor.events), refresh |-> TRUE,
                    reload |-> monitor.reload \/ selected,
                    renamed |-> IF editor.path = event.file /\ event.other # None
                                THEN event.other ELSE monitor.renamed]
  /\ UNCHANGED <<disk, editor, dialogs, pending, job, changes, acts>>

Asks(e) == Dirty(e)

\* The selected file has changed as known: what becomes of the draft.
Reread(e) ==
  LET contents == disk[e.path]
      gained == connection_profile_only_gained_id(e.observed, contents)
      seen == [e EXCEPT !.observed = contents, !.conflict = e.conflict \/ ~gained,
                        !.base = IF gained THEN contents ELSE @]
  IN CASE contents = e.observed -> e
       [] contents # e.observed /\ Asks(e) -> seen
       [] OTHER -> load_existing_connection(seen, e.path, disk)

refresh_connections_from_monitor ==
  /\ monitor.refresh
  /\ LET reloads == monitor.reload /\ editor.shown /\ ~editor.new
         moved == IF monitor.renamed # None THEN [editor EXCEPT !.path = monitor.renamed]
                  ELSE editor
         changed == disk[moved.path] # moved.observed
         asks == /\ reloads /\ changed /\ Asks(editor)
                 /\ ~connection_profile_only_gained_id(moved.observed, disk[moved.path])
                 /\ dialogs \cap {"change", "overwrite"} = {}
     IN /\ editor' = preserve_current_editor(IF reloads THEN Reread(moved) ELSE editor, disk)
        /\ dialogs' = IF asks THEN dialogs \cup {"change"} ELSE dialogs
  /\ monitor' = [NoEvents EXCEPT !.events = monitor.events]
  /\ UNCHANGED <<disk, pending, job, changes, acts>>

(* Identities: written under the entity tag of what was read.                  *)

IdentityRead(f) ==
  /\ job.path = None /\ f \in Connections /\ Parses(disk[f]) /\ disk[f].id = None
  /\ job' = [path |-> f, read |-> disk[f]]
  /\ UNCHANGED <<disk, editor, monitor, dialogs, pending, changes, acts>>

TagMatches == disk[job.path] = job.read

IdentityWrite ==
  /\ job.path # None /\ job.read # None /\ TagMatches
  /\ disk' = [disk EXCEPT ![job.path] = [job.read EXCEPT !.id = "derived"]]
  /\ monitor' = Notify(monitor, job.path, None)
  /\ job' = [job EXCEPT !.read = None]
  /\ UNCHANGED <<editor, dialogs, pending, changes, acts>>

\* A file that has changed is read again; one that is gone or broken is given up.
IdentityRetry ==
  /\ job.path # None /\ job.read # None /\ ~TagMatches
  /\ LET now == disk[job.path]
     IN job' = CASE Parses(now) /\ now.id = None -> [job EXCEPT !.read = now]
                 [] Parses(now) /\ now.id # None -> [job EXCEPT !.read = None]
                 [] OTHER -> [path |-> None, read |-> None]
  /\ UNCHANGED <<disk, editor, monitor, dialogs, pending, changes, acts>>

\* The list is shown anew with the identity.
IdentityDone ==
  /\ job.path # None /\ job.read = None
  /\ editor' = preserve_current_editor(editor, disk)
  /\ job' = [path |-> None, read |-> None]
  /\ UNCHANGED <<disk, monitor, dialogs, pending, changes, acts>>

Background ==
  \/ on_connection_directory_changed \/ refresh_connections_from_monitor
  \/ IdentityWrite \/ IdentityRetry \/ IdentityDone \/ \E f \in Files : IdentityRead(f)

-----------------------------------------------------------------------------
(* The user.  A question is modal: nothing else is done while it is open.        *)

Acts == dialogs = {} /\ acts < MaxActs /\ acts' = acts + 1

begin_new_connection == [Empty EXCEPT !.shown = TRUE, !.new = TRUE,
                                      !.text = CHOOSE t \in Texts : TRUE]

perform_pending_action(action, path) ==
  IF action = "new" THEN begin_new_connection ELSE select_existing_connection(path, disk)

Discards(action, path) ==
  IF Dirty(editor)
    THEN /\ dialogs' = {"discard"} /\ pending' = [pending EXCEPT !.action = action, !.path = path]
         /\ UNCHANGED editor
    ELSE /\ editor' = IF action = "new" THEN begin_new_connection
                      ELSE load_existing_connection(editor, path, disk)
         /\ UNCHANGED <<dialogs, pending>>

on_connection_selection_changed(f) ==
  /\ Acts /\ f \in Connections /\ f # editor.path /\ disk[f] # None
  /\ Discards("select", f)
  /\ UNCHANGED <<disk, monitor, job, changes>>

on_new_clicked ==
  /\ Acts /\ Discards("new", None)
  /\ UNCHANGED <<disk, monitor, job, changes>>

on_confirmation_response(accepted) ==
  /\ "discard" \in dialogs /\ dialogs' = dialogs \ {"discard"}
  /\ editor' = IF accepted THEN perform_pending_action(pending.action, pending.path) ELSE editor
  /\ pending' = [pending EXCEPT !.action = None, !.path = None]
  /\ UNCHANGED <<disk, monitor, job, changes, acts>>

Edit ==
  /\ Acts /\ editor.shown
  /\ \E t \in Texts \ {editor.text} :
       editor' = [editor EXCEPT !.text = t, !.dirty = TRUE]
  /\ UNCHANGED <<disk, monitor, dialogs, pending, job, changes>>

\* The new file replaces the old one in one step; what is saved is loaded again.
save_current_connection(path) ==
  /\ disk' = [disk EXCEPT ![path] = Written(editor, editor.path)]
  /\ monitor' = Notify(monitor, path, None)
  /\ editor' = select_existing_connection(path, disk')

\* Nothing is written: the name is taken, or a step of the save fails.
SaveFails == UNCHANGED <<disk, monitor, editor>>

\* Fault: only what the monitor has reported counts as a change.
KnownConflict == editor.conflict

Conflict == editor.conflict \/ (~editor.new /\ disk[editor.path] # editor.observed)

\* The file is compared with what was observed: its event may be on its way.
request_save_connection ==
  /\ Acts /\ editor.shown /\ (Dirty(editor) \/ editor.conflict)
  /\ IF Conflict
       THEN /\ dialogs' = {"overwrite"} /\ editor' = [editor EXCEPT !.conflict = TRUE]
            /\ UNCHANGED <<disk, monitor>>
       ELSE /\ UNCHANGED dialogs
            /\ \/ SaveFails
               \/ ~editor.new /\ editor.path \in Connections /\ save_current_connection(editor.path)
               \/ \E f \in NewNames : /\ editor.new /\ disk[f] = None
                                      /\ save_current_connection(f)
  /\ UNCHANGED <<pending, job, changes>>

on_external_overwrite_response(accepted) ==
  /\ "overwrite" \in dialogs /\ dialogs' = dialogs \ {"overwrite"}
  /\ \/ SaveFails
     \/ accepted /\ editor.path \in Connections /\ save_current_connection(editor.path)
  /\ UNCHANGED <<pending, job, changes, acts>>

on_external_change_response(accepted) ==
  /\ "change" \in dialogs /\ dialogs' = dialogs \ {"change"}
  /\ editor' = IF accepted /\ editor.path # None
               THEN preserve_current_editor(load_existing_connection(editor, editor.path, disk), disk)
               ELSE editor
  /\ UNCHANGED <<disk, monitor, pending, job, changes, acts>>

\* The monitor is stopped and started around the rename: what it had to report is lost.
on_name_edited(g) ==
  /\ Acts /\ editor.shown /\ ~editor.new /\ disk[g] = None /\ g \in NewNames
  /\ monitor' = NoEvents
  /\ IF disk[editor.path] # None
       THEN /\ disk' = [disk EXCEPT ![g] = disk[editor.path], ![editor.path] = None]
            /\ editor' = preserve_current_editor([editor EXCEPT !.path = g], disk')
       ELSE UNCHANGED <<disk, editor>>
  /\ UNCHANGED <<dialogs, pending, job, changes>>

on_duplicate_connection ==
  /\ Acts /\ editor.shown /\ ~editor.new
  /\ \E f \in NewNames :
       /\ disk[f] = None
       /\ disk' = [disk EXCEPT ![f] = [text |-> editor.text, id |-> "random"]]
       /\ monitor' = Notify(monitor, f, None)
       /\ editor' = select_existing_connection(f, disk')
  /\ UNCHANGED <<dialogs, pending, job, changes>>

on_delete_connection ==
  /\ Acts /\ editor.shown /\ ~editor.new
  /\ dialogs' = {"delete"} /\ pending' = [pending EXCEPT !.delete = editor.path]
  /\ UNCHANGED <<disk, editor, monitor, job, changes>>

\* The monitor is stopped around this, too.
on_delete_connection_dialog_response(accepted) ==
  /\ "delete" \in dialogs /\ dialogs' = dialogs \ {"delete"}
  /\ pending' = [pending EXCEPT !.delete = None]
  /\ monitor' = IF accepted THEN NoEvents ELSE monitor
  /\ IF accepted /\ disk[pending.delete] # None
       THEN /\ disk' = [disk EXCEPT ![pending.delete] = None]
            /\ editor' = preserve_current_editor([editor EXCEPT !.conflict = FALSE], disk')
       ELSE UNCHANGED <<disk, editor>>
  /\ UNCHANGED <<job, changes, acts>>

Answer ==
  \E accepted \in BOOLEAN :
    \/ on_confirmation_response(accepted) \/ on_external_overwrite_response(accepted)
    \/ on_external_change_response(accepted) \/ on_delete_connection_dialog_response(accepted)

Act ==
  \/ \E f \in Files : on_connection_selection_changed(f) \/ on_name_edited(f)
  \/ on_new_clicked \/ Edit \/ request_save_connection
  \/ on_duplicate_connection \/ on_delete_connection

External ==
  \E f \in Files : \/ ExternalWrite(f) \/ ExternalRemove(f)
                   \/ \E g \in Files : ExternalRename(f, g)

Next == Background \/ Answer \/ Act \/ External

Spec == Init /\ [][Next]_vars

-----------------------------------------------------------------------------
(* Properties.                                                               *)

\* What a save replaces without a question is what the draft was made from, but for an
\* identity added since: no change of another program is overwritten unnoticed, not even
\* one whose event has not arrived (main.cpp:2669-2710).
ConsentedOverwrite ==
  [][disk' # disk /\ ~editor.new /\ request_save_connection => disk[editor.path] = editor.base]_vars

\* An edited draft whose file is there survives whatever happens in the background: events
\* in any order, refreshes, identities (main.cpp:1470-1502, 1556-1604).
DraftKept ==
  [][Dirty(editor) /\ (editor.new \/ disk[editor.path] # None) /\ Background
       => editor'.shown /\ editor'.text = editor.text /\ Dirty(editor')]_vars

\* main.cpp:1478: "An externally removed file must not take its unsaved editor with it."
RemovedKept == [][Background /\ Dirty(editor) => editor'.shown]_vars

\* The monitor reports no change for what the launcher itself has written: a save, or an
\* identity (connection-repository.cpp:29-69, main.cpp:1577-1586).
NoFalseAlarm ==
  [][editor'.conflict /\ ~editor.conflict /\ refresh_connections_from_monitor
       => disk[editor'.path] # editor.base]_vars

\* A connection's identity, once it is in the file, is not replaced by anything the
\* launcher writes, whether or not the draft has it (connection-repository.cpp:269-277,
\* connection-identity.cpp:151-223).
IdentityStable ==
  [][(\A f \in Files :
        Parses(disk[f]) /\ disk[f].id # None /\ disk'[f] # None => disk'[f].id = disk[f].id)
     \/ External]_vars

\* An identity is added to the text that is in the file, never to an older one.
IdentityKeepsText ==
  [][IdentityWrite => disk[job.path] # None /\ disk'[job.path].text = disk[job.path].text]_vars

\* What several writers of one file hold is lost to none of the others: neither the changes
\* of another program to a save, nor a draft to the background, nor an identity or the text
\* it is added to.
WorkKept == ConsentedOverwrite /\ NoFalseAlarm /\ DraftKept /\ IdentityStable /\ IdentityKeepsText
=============================================================================
