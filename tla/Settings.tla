------------------------------ MODULE Settings ------------------------------
(***************************************************************************)
(* The settings store and its layers: built-in defaults, global.ini, a          *)
(* connection's INI file, and the temporary profile of a launch               *)
(* (settings-store.cpp, settings.cpp), with the three holders of a store: the   *)
(* launcher's editor of one connection, its "Connection defaults" dialog, and  *)
(* the window that is launched.                                              *)
(*                                                                         *)
(* A file gives each key a text or none.  A text in Malformed does not parse,   *)
(* one in Rejected parses to a value its definition refuses; all others are     *)
(* values.  Strict keys keep an invalid text; the others ignore it.  Bindings   *)
(* are the terminal's key bindings, no two of which may be equal.             *)
(***************************************************************************)
EXTENDS Naturals

CONSTANTS Key, Strict, Bindings,       \* the settings, and two kinds of them
          Value, Malformed, Rejected,  \* the texts
          No,                          \* a key the file does not have
          Default,                     \* the built-in defaults
          GlobalFiles, ProfileFiles,   \* what the two files may hold at first
          MaxEdits                     \* bound: edits by the user

Text == Value \cup Malformed \cup Rejected
File == [Key -> Text \cup {No}]
Clash(v) == \E k, l \in Bindings : k # l /\ v[k] = v[l]

\* A binding is no number; the built-in bindings differ, as all built-in defaults are values.
ASSUME SettingsAssumption ==
  /\ Strict \subseteq Key /\ Bindings \subseteq Key \ Strict
  /\ Default \in [Key -> Value] /\ ~Clash(Default)
  /\ Value \cap (Malformed \cup Rejected) = {} /\ Malformed \cap Rejected = {} /\ No \notin Text
  /\ GlobalFiles \subseteq File /\ ProfileFiles \subseteq File /\ MaxEdits \in Nat

VARIABLES
  gfile, pfile,   \* global.ini and the connection's file
  editor,         \* the draft of the launcher's editor
  base,           \* the contents of pfile the editor is built from
  dialog,         \* the draft of the defaults dialog, or <<>>
  session,        \* the store of the launched window, or <<>>
  edits

layers == <<gfile, pfile, editor, base, dialog, session, edits>>

Entry == [value : Value \cup Rejected, raw : Malformed \cup {No}, error : BOOLEAN,
          loaded : BOOLEAN, dirty : BOOLEAN, fallback : Value \cup Rejected,
          fallback_raw : Malformed \cup {No}, fallback_error : BOOLEAN]
Store == [Key -> Entry]

SettingsTypeOK ==
  /\ gfile \in File /\ pfile \in File /\ base \in File
  /\ editor \in Store /\ dialog \in Store \cup {<<>>} /\ session \in Store \cup {<<>>}
  /\ edits \in 0..MaxEdits

-----------------------------------------------------------------------------
(* Operations on a store.                                                    *)

Values(s) == [k \in Key |-> s[k].value]
Dirty(s) == \E k \in Key : s[k].dirty

create_settings_store ==
  [k \in Key |-> [value |-> Default[k], raw |-> No, error |-> FALSE, loaded |-> FALSE,
                  dirty |-> FALSE, fallback |-> Default[k], fallback_raw |-> No,
                  fallback_error |-> FALSE]]

\* Fault: an invalid text is no setting of a strict key either.
Ignored(e, text) == e

\* An invalid number keeps the value below it, and its text for saving.
RetainsText(e, text) ==
  IF text \in Malformed THEN [e EXCEPT !.error = TRUE, !.loaded = TRUE, !.raw = text]
  ELSE [e EXCEPT !.error = TRUE, !.loaded = TRUE, !.raw = No, !.value = text]

Read(s, file) ==
  [k \in Key |->
     LET text == file[k] IN
     CASE text \in Value ->
            [s[k] EXCEPT !.value = text, !.raw = No, !.error = FALSE, !.loaded = TRUE]
       [] text \in Text \ Value /\ k \in Strict -> RetainsText(s[k], text)
       [] OTHER -> s[k]]

\* A layer whose bindings clash loses all of them.
Resolve(s, previous) ==
  IF Clash(Values(s)) THEN [k \in Key |-> IF k \in Bindings THEN previous[k] ELSE s[k]]
  ELSE s

Layer(s, file) == Resolve(Read(s, file), s)

\* Fault: a rebase shows the new defaults everywhere.
RebaseAll(s, below) ==
  [k \in Key |->
     [s[k] EXCEPT !.fallback = below[k].value, !.fallback_raw = below[k].raw,
                  !.fallback_error = below[k].error, !.value = below[k].value,
                  !.raw = below[k].raw, !.error = below[k].error]]

\* An entry above another one: one that is not set says what that says.
Onto(e, b) ==
  LET over == [e EXCEPT !.fallback = b.value, !.fallback_raw = b.raw, !.fallback_error = b.error]
  IN IF e.loaded THEN over ELSE [over EXCEPT !.value = b.value, !.raw = b.raw, !.error = b.error]

Rebase(s, below) == [k \in Key |-> Onto(s[k], below[k])]

load_global_settings(g) == Layer(create_settings_store, g)
Connection(g) == Rebase(create_settings_store, load_global_settings(g))
Open(g, p) == Layer(Connection(g), p)

set_explicit_setting_value(s, k, v) ==
  IF s[k].value # v \/ ~s[k].loaded \/ s[k].error
    THEN [s EXCEPT ![k].value = v, ![k].raw = No, ![k].error = FALSE,
                   ![k].loaded = TRUE, ![k].dirty = TRUE]
    ELSE s

clear_explicit_setting_value(s, k) ==
  IF s[k].value # s[k].fallback \/ s[k].loaded
    THEN [s EXCEPT ![k].value = s[k].fallback, ![k].raw = s[k].fallback_raw,
                   ![k].error = s[k].fallback_error, ![k].loaded = FALSE, ![k].dirty = TRUE]
    ELSE s

Written(e) == IF e.error /\ e.raw # No THEN e.raw ELSE e.value

Serialize(s) == [k \in Key |-> IF s[k].loaded THEN Written(s[k]) ELSE No]

-----------------------------------------------------------------------------
(* The holders of a store.                                                   *)

\* Clashing bindings are marked invalid: neither saved nor launched.
Valid(s) == ~Clash(Values(s))
Edited == edits < MaxEdits /\ edits' = edits + 1

SettingsInit ==
  /\ gfile \in GlobalFiles /\ pfile \in ProfileFiles
  /\ base = pfile /\ editor = Open(gfile, pfile)
  /\ dialog = <<>> /\ session = <<>> /\ edits = 0

EditorSets(k) ==
  /\ Edited /\ dialog = <<>>
  /\ \/ \E v \in Value : editor' = set_explicit_setting_value(editor, k, v)
     \/ editor' = clear_explicit_setting_value(editor, k)
  /\ editor' # editor
  /\ UNCHANGED <<gfile, pfile, base, dialog, session>>

\* What is saved is loaded again.
EditorSaves ==
  /\ dialog = <<>> /\ Dirty(editor) /\ Valid(editor)
  /\ pfile' = Serialize(editor) /\ base' = pfile'
  /\ editor' = Open(gfile, pfile')
  /\ UNCHANGED <<gfile, dialog, session, edits>>

\* The file has changed: the editor shows it (with the user's consent, if dirty).
EditorReloads ==
  /\ dialog = <<>> /\ pfile # base
  /\ base' = pfile /\ editor' = Open(gfile, pfile)
  /\ UNCHANGED <<gfile, pfile, dialog, session, edits>>

OpenDefaults ==
  /\ dialog = <<>> /\ edits < MaxEdits
  /\ dialog' = load_global_settings(gfile)
  /\ UNCHANGED <<gfile, pfile, editor, base, session, edits>>

DefaultsSets(k) ==
  /\ dialog # <<>> /\ Edited
  /\ \/ \E v \in Value : dialog' = set_explicit_setting_value(dialog, k, v)
     \/ dialog' = clear_explicit_setting_value(dialog, k)
  /\ dialog' # dialog
  /\ UNCHANGED <<gfile, pfile, editor, base, session>>

DefaultsSave ==
  /\ dialog # <<>> /\ Dirty(dialog) /\ Valid(dialog)
  /\ gfile' = Serialize(dialog)
  /\ editor' = Rebase(editor, dialog) /\ dialog' = <<>>
  /\ UNCHANGED <<pfile, base, session, edits>>

\* Closed without a change, or the save failed.
DefaultsCancel ==
  /\ dialog # <<>> /\ dialog' = <<>>
  /\ UNCHANGED <<gfile, pfile, editor, base, session, edits>>

\* -c names the connection's file; an edited draft goes along as -s.
Launched == IF Dirty(editor) THEN Layer(Open(gfile, pfile), Serialize(editor))
            ELSE Open(gfile, pfile)

Launch ==
  /\ dialog = <<>> /\ session = <<>> /\ Valid(editor)
  /\ session' = [k \in Key |-> [Launched[k] EXCEPT !.dirty = FALSE]]
  /\ UNCHANGED <<gfile, pfile, editor, base, dialog, edits>>

\* The window's own dialog; it shows the store of the session.
SessionSets(k) ==
  /\ session # <<>> /\ Edited
  /\ \/ \E v \in Value : session' = set_explicit_setting_value(session, k, v)
     \/ session' = clear_explicit_setting_value(session, k)
  /\ session' # session /\ Valid(session')
  /\ UNCHANGED <<gfile, pfile, editor, base, dialog>>

\* Save writes every explicit value, those of the launch included.
SessionSaves ==
  /\ session # <<>> /\ Dirty(session)
  /\ pfile' = Serialize(session) /\ pfile' # pfile
  /\ UNCHANGED <<gfile, editor, base, dialog, session, edits>>

SessionEnds ==
  /\ session # <<>> /\ session' = <<>>
  /\ UNCHANGED <<gfile, pfile, editor, base, dialog, edits>>

SettingsNext ==
  \/ \E k \in Key : EditorSets(k) \/ DefaultsSets(k) \/ SessionSets(k)
  \/ EditorSaves \/ EditorReloads
  \/ OpenDefaults \/ DefaultsSave \/ DefaultsCancel
  \/ Launch \/ SessionSaves \/ SessionEnds

SettingsSpec == SettingsInit /\ [][SettingsNext]_layers

-----------------------------------------------------------------------------
(* Properties.                                                               *)

\* What an entry says: its value, or the invalid text it keeps.
Says(e) == [text |-> Written(e), error |-> e.error, loaded |-> e.loaded]
Shown(s, k) == Says(s[k])

\* Whether a text counts as a setting of the key: a strict key keeps any text.
Counts(k, text) == text \in Value \/ (k \in Strict /\ text \in Text)

\* A key the user has not edited is shown as if the connection had just been opened,
\* whatever was saved as a default meanwhile (settings-store.cpp:366-398 rebases the
\* open editor in place of a reload).  Bindings taken back by a clash are not read again.
FreshEditor ==
  LET opened == Open(gfile, base) IN
  \A k \in Key \ Bindings : ~editor[k].dirty => Shown(editor, k) = Shown(opened, k)

\* A draft that can be saved is read back as it was: no explicit value, not even one equal
\* to the default below it, and no invalid text of a strict key is lost or becomes valid
\* (settings.cpp:70-105, 571-595; settings-store.cpp:175-226).
SavedReloads ==
  LET reloaded == Open(gfile, Serialize(editor)) IN
  Valid(editor) => \A k \in Key : Shown(reloaded, k) = Shown(editor, k)

\* No window runs with one key bound to two operations, whichever layers set them
\* (settings.cpp:538-553).
ConflictFree == session # <<>> => ~Clash(Values(session))

\* A strict key is in error in a launched window exactly if the topmost text it has, in
\* the draft, the connection or the defaults, is invalid: an invalid address or TLS
\* setting never silently gives way to a lower layer (settings-store.cpp:186-221).
FailsClosed ==
  LET draft == IF Dirty(editor) THEN Serialize(editor) ELSE pfile
      Topmost(k) == CASE draft[k] # No -> draft[k]
                      [] draft[k] = No /\ pfile[k] # No -> pfile[k]
                      [] OTHER -> gfile[k]
  IN Launch => \A k \in Strict : session'[k].error <=> Topmost(k) \in Text \ Value

\* The window runs with the values of the draft: those a launch passes on need not be
\* saved (README.md:216-218).
Drafted == \A k \in Key : Shown(editor, k).text = Written(session'[k])
                        /\ editor[k].error = session'[k].error

\* The window has the draft's value of every key, if the draft has an explicit value for
\* all that the file has one for (main.cpp:2047-2065).
LaunchesExactly ==
  Launch /\ base = pfile /\ (\A k \in Key : Counts(k, pfile[k]) => editor[k].loaded) => Drafted

\* What is open shows what the files say, and what is saved is read back.
ShownTrue == SettingsTypeOK /\ FreshEditor /\ SavedReloads

\* A launch fails closed, with the values of the draft and without a clash (main.cpp:1814-2071;
\* settings.cpp:538-553).
LaunchSound ==
  []ConflictFree /\ [][session = <<>> /\ session' # <<>> => FailsClosed /\ LaunchesExactly]_layers
=============================================================================
